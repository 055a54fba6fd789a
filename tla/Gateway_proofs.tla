--------------------------- MODULE Gateway_proofs ---------------------------
(***************************************************************************)
(* Proofs about what runs around an order: the limiter of the requests,    *)
(* the caches in front of other services, and the tracking poller.         *)
(*                                                                         *)
(* The limiter, for every limit, window and resolution of time.            *)
(* MemoryBook: what a bucket has handed out in the last k ticks and what   *)
(* it holds is no more than a full bucket and k ticks' refill.  RedisBook: *)
(* of the grants of a window, the newer ones are of the present counter,   *)
(* the older ones of at most one counter before it.  WaitHolds relates the *)
(* wait a client was told to what its bucket or counter still lacks.       *)
(*                                                                         *)
(* The cache, for every capacity and expiry, and every number of callers.  *)
(* Lru: what is held behind a key was used after it, so the key that a     *)
(* full cache gives up is none of the Capacity used last.  GoodCall: only  *)
(* a service that has another one to fall back to asks for a token, and    *)
(* what it gets is good.                                                   *)
(*                                                                         *)
(* The poller, for any orders, any number of chains and every fault.       *)
(* Linked: the registry of poller.ts and the chains point at each other,   *)
(* so that it knows exactly the timers and polls there are.                *)
(***************************************************************************)
EXTENDS RateLimit, MapsGateway, TrackingPoller, FiniteSetTheorems, FunctionTheorems, SequenceTheorems,
        WellFoundedInduction, TLAPS

----------------------------------------------------------------------------
\* The limiter.

\* Grants are pairs of a tick and a number.
LEMMA GrantPairs ==
    \A g, ticks, p : p \in GrantsOf(g, ticks) <=> \E i \in ticks : \E n \in 1..g[i] : p = <<i, n>>
BY DEF GrantsOf

\* They are finitely many.
LEMMA GrantsCount ==
    ASSUME NEW g \in [1..Window -> Nat], NEW ticks \in SUBSET (1..Window)
    PROVE  /\ IsFiniteSet(GrantsOf(g, ticks))
           /\ Cardinality(GrantsOf(g, ticks)) \in Nat
<1> DEFINE of(i) == {i} \X (1..g[i])
<1> DEFINE all == {of(i) : i \in ticks}
<1>1. IsFiniteSet(ticks)
  <2>1. IsFiniteSet(1..Window)
    BY FS_Interval, RateLimitAssumption
  <2> QED  BY <2>1, FS_Subset
<1>2. IsFiniteSet(all)
  <2> DEFINE f == [i \in ticks |-> of(i)]
  <2>1. f \in Surjection(ticks, all)
    BY DEF Surjection
  <2> QED  BY <1>1, <2>1, FS_Surjection
<1>3. \A i \in ticks : IsFiniteSet(of(i))
  <2> SUFFICES ASSUME NEW i \in ticks PROVE IsFiniteSet(of(i))
    OBVIOUS
  <2> DEFINE n == g[i]  col == 1..n
  <2>0. n \in Int
    OBVIOUS
  <2> HIDE DEF n
  <2>1. IsFiniteSet(col)
    BY <2>0, FS_Interval
  <2> HIDE DEF col
  <2>2. IsFiniteSet({i} \X col)
    BY <2>1, FS_Singleton, FS_Product, Zenon
  <2> QED  BY <2>2 DEF col, n
<1>4. IsFiniteSet(UNION all)
  BY <1>2, <1>3, FS_UNION
<1>5. GrantsOf(g, ticks) = UNION all
  BY DEF GrantsOf
<1> QED  BY <1>4, <1>5, FS_CardinalityType

\* A tick later they are one tick older, and none is new.
LEMMA GrantsAge ==
    ASSUME NEW g \in [1..Window -> Nat], NEW older \in [1..Window -> Nat],
           older[1] = 0, \A i \in 2..Window : older[i] = g[i - 1],
           NEW now \in SUBSET (1..Window), NEW before \in SUBSET (1..Window),
           \A i \in now : i = 1 \/ i - 1 \in before
    PROVE  Cardinality(GrantsOf(older, now)) <= Cardinality(GrantsOf(g, before))
<1> DEFINE A == GrantsOf(older, now)
           B == GrantsOf(g, before)
           f == [p \in A |-> <<p[1] - 1, p[2]>>]
<1>1. \A p \in A : \E i \in now, n \in Nat :
         p = <<i, n>> /\ i > 1 /\ i - 1 \in before /\ n \in 1..g[i - 1]
  <2> SUFFICES ASSUME NEW p \in A
               PROVE  \E i \in now, n \in Nat :
                         p = <<i, n>> /\ i > 1 /\ i - 1 \in before /\ n \in 1..g[i - 1]
    OBVIOUS
  <2>1. PICK i \in now : \E n \in 1..older[i] : p = <<i, n>>
    BY DEF GrantsOf
  <2>2. PICK n \in 1..older[i] : p = <<i, n>>
    BY <2>1
  <2>3. i \in 1..Window
    <3>1. now \subseteq 1..Window
      OBVIOUS
    <3> QED  BY <3>1, Zenon
  <2>4. i # 1
    BY <2>2, <2>3
  <2>5. i \in 2..Window /\ i - 1 \in before
    BY <2>3, <2>4
  <2>6. n \in 1..g[i - 1] /\ g[i - 1] \in Nat
    BY <2>5
  <2>7. n \in Nat /\ i > 1
    BY <2>5, <2>6
  <2> QED  BY <2>2, <2>5, <2>6, <2>7
<1>2. \A p \in A : f[p] \in B
  <2> SUFFICES ASSUME NEW p \in A PROVE f[p] \in B
    OBVIOUS
  <2>1. PICK i \in now, n \in Nat : p = <<i, n>> /\ i - 1 \in before /\ n \in 1..g[i - 1]
    BY <1>1
  <2>2. f[p] = <<i - 1, n>>
    BY <2>1
  <2> QED  BY <2>1, <2>2, GrantPairs
<1>3. \A p, q \in A : f[p] = f[q] => p = q
  <2> SUFFICES ASSUME NEW p \in A, NEW q \in A, f[p] = f[q] PROVE p = q
    OBVIOUS
  <2>1. PICK i \in now, n \in Nat : p = <<i, n>>
    BY <1>1
  <2>2. PICK j \in now, k \in Nat : q = <<j, k>>
    BY <1>1
  <2>3. i - 1 = j - 1 /\ n = k
    BY <2>1, <2>2
  <2>4. i \in Int /\ j \in Int
    <3>1. now \subseteq Int
      OBVIOUS
    <3> QED  BY <3>1, Zenon
  <2> QED  BY <2>1, <2>2, <2>3, <2>4
<1>4. f \in Injection(A, B)
  <2> HIDE DEF A, B
  <2>1. f \in [A -> B]
    BY <1>2
  <2> HIDE DEF f
  <2> QED  BY <1>3, <2>1 DEF Injection, IsInjective
<1>5. IsFiniteSet(B)
  BY GrantsCount
<1> HIDE DEF A, B, f
<1>6. Cardinality(A) <= Cardinality(B)
  BY <1>4, <1>5, FS_Injection
<1> QED  BY <1>6 DEF A, B

\* No ticks, no grants.
LEMMA NoGrants == \A g : Cardinality(GrantsOf(g, {})) = 0
<1> SUFFICES ASSUME NEW g PROVE Cardinality(GrantsOf(g, {})) = 0
  OBVIOUS
<1>1. GrantsOf(g, {}) = {}
  BY DEF GrantsOf
<1> QED  BY <1>1, FS_EmptySet

\* One more is granted, in this tick.
LEMMA GrantsGrow ==
    ASSUME NEW g \in [1..Window -> Nat], NEW ticks \in SUBSET (1..Window)
    PROVE  LET more == [g EXCEPT ![1] = @ + 1]
           IN  /\ more \in [1..Window -> Nat]
               /\ Cardinality(GrantsOf(more, ticks)) <= Cardinality(GrantsOf(g, ticks)) + 1
               /\ 1 \notin ticks => GrantsOf(more, ticks) = GrantsOf(g, ticks)
<1> DEFINE more == [g EXCEPT ![1] = @ + 1]
           new == <<1, g[1] + 1>>
<1>0. 1 \in 1..Window
  BY RateLimitAssumption
<1>1. g[1] \in Nat
  BY <1>0
<1>2. more \in [1..Window -> Nat] /\ more[1] = g[1] + 1
      /\ \A i \in ticks : i # 1 => more[i] = g[i]
  <2>1. ticks \subseteq 1..Window
    OBVIOUS
  <2> QED  BY <1>0, <1>1, <2>1
<1> HIDE DEF more
<1>3. GrantsOf(more, ticks) \subseteq GrantsOf(g, ticks) \union {new}
  <2> SUFFICES ASSUME NEW p \in GrantsOf(more, ticks) PROVE p \in GrantsOf(g, ticks) \union {new}
    OBVIOUS
  <2>1. PICK i \in ticks : \E n \in 1..more[i] : p = <<i, n>>
    BY DEF GrantsOf
  <2>2. PICK n \in 1..more[i] : p = <<i, n>>
    BY <2>1
  <2>3. CASE i = 1 /\ n = g[1] + 1
    BY <2>2, <2>3
  <2>4. CASE i # 1 \/ n # g[1] + 1
    <3>1. CASE i = 1
      <4>1. n \in 1..(g[1] + 1) /\ n # g[1] + 1
        BY <1>2, <2>4, <3>1
      <4>2. n \in 1..g[i]
        BY <1>1, <3>1, <4>1
      <4> QED  BY <2>2, <4>2, GrantPairs
    <3>2. CASE i # 1
      BY <1>2, <2>2, <3>2, GrantPairs
    <3> QED  BY <3>1, <3>2
  <2> QED  BY <2>3, <2>4
<1>4. Cardinality(GrantsOf(more, ticks)) <= Cardinality(GrantsOf(g, ticks)) + 1
  <2> DEFINE S == GrantsOf(g, ticks)
  <2>1. IsFiniteSet(S) /\ Cardinality(S) \in Nat
    BY GrantsCount, Zenon
  <2>2. GrantsOf(more, ticks) \subseteq S \union {new}
    BY <1>3
  <2>3. IsFiniteSet(GrantsOf(more, ticks)) /\ Cardinality(GrantsOf(more, ticks)) \in Nat
    BY <1>2, GrantsCount
  <2> HIDE DEF S, new
  <2>4. /\ IsFiniteSet(S \union {new})
        /\ Cardinality(S \union {new}) = Cardinality(S) \/ Cardinality(S \union {new}) = Cardinality(S) + 1
    BY <2>1, FS_AddElement, Zenon
  <2>5. Cardinality(GrantsOf(more, ticks)) <= Cardinality(S \union {new})
    BY <2>2, <2>4, FS_Subset
  <2>6. Cardinality(GrantsOf(more, ticks)) <= Cardinality(S) + 1
    BY <2>1, <2>3, <2>4, <2>5
  <2> QED  BY <2>6 DEF S
<1>5. ASSUME 1 \notin ticks PROVE GrantsOf(more, ticks) = GrantsOf(g, ticks)
  <2>1. \A i \in ticks : more[i] = g[i]
    BY <1>2, <1>5
  <2>2. \A p : p \in GrantsOf(more, ticks) <=> p \in GrantsOf(g, ticks)
    <3> SUFFICES ASSUME NEW p PROVE p \in GrantsOf(more, ticks) <=> p \in GrantsOf(g, ticks)
      OBVIOUS
    <3>1. p \in GrantsOf(more, ticks) <=> \E i \in ticks : \E n \in 1..more[i] : p = <<i, n>>
      BY DEF GrantsOf
    <3>2. p \in GrantsOf(g, ticks) <=> \E i \in ticks : \E n \in 1..g[i] : p = <<i, n>>
      BY DEF GrantsOf
    <3> QED  BY <2>1, <3>1, <3>2
  <2> QED  BY <2>2
<1> QED  BY <1>2, <1>4, <1>5 DEF more

\* They are at most those of the first k ticks and those of the others.
LEMMA GrantsSplit ==
    ASSUME NEW g \in [1..Window -> Nat], NEW k \in 1..Window
    PROVE  Cardinality(GrantsOf(g, 1..Window)) <=
             Cardinality(GrantsOf(g, 1..k)) + Cardinality(GrantsOf(g, (k + 1)..Window))
<1> DEFINE A == GrantsOf(g, 1..k)
           B == GrantsOf(g, (k + 1)..Window)
<1>1. IsFiniteSet(A) /\ Cardinality(A) \in Nat /\ IsFiniteSet(B) /\ Cardinality(B) \in Nat
  <2>1. 1..k \in SUBSET (1..Window) /\ (k + 1)..Window \in SUBSET (1..Window)
    BY RateLimitAssumption
  <2> QED  BY <2>1, GrantsCount
<1>2. GrantsOf(g, 1..Window) \subseteq A \union B
  <2>1. 1..Window = (1..k) \union ((k + 1)..Window)
    BY RateLimitAssumption
  <2> QED  BY <2>1 DEF GrantsOf
<1> HIDE DEF A, B
<1>3. /\ IsFiniteSet(A \union B) /\ Cardinality(A \union B) \in Nat
      /\ Cardinality(A \union B) <= Cardinality(A) + Cardinality(B)
  <2>1. /\ IsFiniteSet(A \union B)
        /\ Cardinality(A \union B) = Cardinality(A) + Cardinality(B) - Cardinality(A \cap B)
    BY <1>1, FS_Union, Zenon
  <2>2. IsFiniteSet(A \cap B)
    BY <1>1, FS_Subset
  <2>3. Cardinality(A \cap B) \in Nat /\ Cardinality(A \union B) \in Nat
    BY <2>1, <2>2, FS_CardinalityType
  <2> QED  BY <1>1, <2>1, <2>3
<1>4. Cardinality(GrantsOf(g, 1..Window)) <= Cardinality(A \union B)
  BY <1>2, <1>3, FS_Subset
<1>5. Cardinality(GrantsOf(g, 1..Window)) \in Nat
  BY GrantsCount
<1> QED  BY <1>1, <1>3, <1>4, <1>5 DEF A, B

----------------------------------------------------------------------------
\* Products, which the provers find hard.

LEMMA TimesMonotone ==
    \A w, a, b \in Nat : w * a \in Nat /\ (a <= b => w * a <= w * b)
OBVIOUS

LEMMA TimesReflects ==
    ASSUME NEW w \in Nat \ {0}, NEW a \in Nat, NEW b \in Nat, w * a < w * b
    PROVE  a < b
<1> SUFFICES ASSUME b <= a PROVE FALSE
  OBVIOUS
<1>1. w * b <= w * a /\ w * a \in Nat /\ w * b \in Nat
  BY TimesMonotone
<1> QED  BY <1>1

----------------------------------------------------------------------------
\* Buckets.

Buckets == {NoBucket} \union [units : 0 .. Limit * Window, idle : 0 .. Window]

\* what the memory store would let a client have at once
Avail(b) == IF b = NoBucket THEN Limit * Window ELSE Refilled(b)

\* the bucket a tick later
OlderBucket(b) == IF b = NoBucket \/ b.idle = Window THEN b ELSE [b EXCEPT !.idle = @ + 1]

\* A bucket never holds more than its size.
LEMMA AvailRange == \A b \in Buckets : Avail(b) \in 0 .. Limit * Window
<1> SUFFICES ASSUME NEW b \in Buckets PROVE Avail(b) \in 0 .. Limit * Window
  OBVIOUS
<1>1. Limit * Window \in Nat
  BY RateLimitAssumption
<1>2. CASE b = NoBucket
  BY <1>1, <1>2 DEF Avail
<1>3. CASE b # NoBucket
  <2> DEFINE full == Limit * Window
             refill == b.idle * Limit
  <2>1. b.units \in 0..full /\ b.idle \in Nat
    BY <1>3, RateLimitAssumption DEF Buckets
  <2>2. refill \in Nat
    BY <2>1, RateLimitAssumption
  <2>3. Avail(b) = IF b.units + refill > full THEN full ELSE b.units + refill
    BY <1>3 DEF Avail, Refilled
  <2> HIDE DEF full, refill
  <2>4. Avail(b) \in 0..full
    BY <1>1, <2>1, <2>2, <2>3 DEF full
  <2> QED  BY <2>4 DEF full
<1> QED  BY <1>2, <1>3

\* One just written holds what was written.
LEMMA AvailWritten == \A u \in 0 .. Limit * Window :
    /\ [units |-> u, idle |-> 0] \in Buckets
    /\ Avail([units |-> u, idle |-> 0]) = u
<1> SUFFICES ASSUME NEW u \in 0 .. Limit * Window
             PROVE  [units |-> u, idle |-> 0] \in Buckets /\ Avail([units |-> u, idle |-> 0]) = u
  OBVIOUS
<1> DEFINE b == [units |-> u, idle |-> 0]
           full == Limit * Window
<1>1. full \in Nat /\ Limit \in Nat /\ Window \in Nat
  BY RateLimitAssumption
<1>2. b \in Buckets
  BY <1>1 DEF Buckets
<1>3. b.units = u /\ b.idle = 0 /\ b # NoBucket
  <2>1. NoBucket.units = -1
    BY DEF NoBucket
  <2>2. b.units = u /\ b.idle = 0
    OBVIOUS
  <2>3. u # -1
    BY <1>1
  <2> QED  BY <2>1, <2>2, <2>3
<1> HIDE DEF b
<1>4. Avail(b) = u
  <2>1. b.idle * Limit = 0
    BY <1>1, <1>3
  <2>2. Avail(b) = IF u + 0 > full THEN full ELSE u + 0
    BY <1>3, <2>1 DEF Avail, Refilled
  <2> HIDE DEF full
  <2>3. u \in 0..full
    BY DEF full
  <2> QED  BY <1>1, <2>2, <2>3
<1> QED  BY <1>2, <1>4 DEF b

\* A tick adds at most the refill of a tick, and adds it unless the bucket is full.
LEMMA AvailAges == \A b \in Buckets :
    /\ OlderBucket(b) \in Buckets
    /\ Avail(b) <= Avail(OlderBucket(b)) /\ Avail(OlderBucket(b)) <= Avail(b) + Limit
    /\ Avail(OlderBucket(b)) = Limit * Window \/ Avail(OlderBucket(b)) = Avail(b) + Limit
<1> SUFFICES ASSUME NEW b \in Buckets
             PROVE  /\ OlderBucket(b) \in Buckets
                    /\ Avail(b) <= Avail(OlderBucket(b)) /\ Avail(OlderBucket(b)) <= Avail(b) + Limit
                    /\ Avail(OlderBucket(b)) = Limit * Window \/ Avail(OlderBucket(b)) = Avail(b) + Limit
  OBVIOUS
<1>0. Limit \in Nat \ {0} /\ Window \in Nat \ {0} /\ Limit * Window \in Nat
  BY RateLimitAssumption
<1>1. CASE b = NoBucket
  BY <1>0, <1>1 DEF OlderBucket, Avail
<1>2. CASE b # NoBucket /\ b.idle = Window
  <2> DEFINE full == Limit * Window
  <2>1. b.units \in 0..full /\ b.idle * Limit = full
    BY <1>0, <1>2 DEF Buckets
  <2>2. Avail(b) = IF b.units + full > full THEN full ELSE b.units + full
    BY <1>2, <2>1 DEF Avail, Refilled
  <2>3. OlderBucket(b) = b
    BY <1>2 DEF OlderBucket
  <2> HIDE DEF full
  <2>4. full \in Nat
    BY <1>0 DEF full
  <2>5. Avail(b) = full
    BY <2>1, <2>2, <2>4
  <2> QED  BY <1>0, <2>3, <2>4, <2>5 DEF full
<1>3. CASE b # NoBucket /\ b.idle # Window
  <2> DEFINE full == Limit * Window
             a == [b EXCEPT !.idle = @ + 1]
             refill == b.idle * Limit
  <2>1. b \in [units : 0..full, idle : 0..Window]
    BY <1>3 DEF Buckets
  <2>2. a.units = b.units /\ a.idle = b.idle + 1 /\ a \in [units : 0..full, idle : 0..Window]
    BY <1>0, <1>3, <2>1
  <2>3. a # NoBucket
    <3>1. NoBucket.units = -1 /\ a.units # -1
      BY <1>0, <2>2 DEF NoBucket
    <3> QED  BY <3>1
  <2>4. OlderBucket(b) = a
    BY <1>3 DEF OlderBucket
  <2> HIDE DEF a
  <2>5. a.idle * Limit = refill + Limit /\ refill \in Nat
    BY <1>0, <2>1, <2>2
  <2>6. Avail(b) = IF b.units + refill > full THEN full ELSE b.units + refill
    BY <1>3 DEF Avail, Refilled
  <2> HIDE DEF refill
  <2>7. Avail(a) = IF b.units + (refill + Limit) > full THEN full ELSE b.units + (refill + Limit)
    BY <2>2, <2>3, <2>5 DEF Avail, Refilled
  <2> HIDE DEF full
  <2>8. full \in Nat /\ b.units \in 0..full
    BY <1>0, <2>1 DEF full
  <2>9. /\ Avail(b) <= Avail(a) /\ Avail(a) <= Avail(b) + Limit
        /\ Avail(a) = full \/ Avail(a) = Avail(b) + Limit
    BY <1>0, <2>5, <2>6, <2>7, <2>8
  <2>10. a \in Buckets
    BY <2>2 DEF Buckets, full
  <2> QED  BY <2>4, <2>9, <2>10 DEF full
<1> QED  BY <1>1, <1>2, <1>3

----------------------------------------------------------------------------
\* Types.

Waits == {NoWait} \union 0 .. Window
Counts == [count : 0 .. Limit + 1, left : {Forever} \union 1 .. Window]
Calls == [at : {"expire", "ttl"}, client : Clients, count : 1 .. Limit + 1]

\* A wait told is within a window.
LEMMA RefuseTypes ==
    \A c \in Clients, s \in Nat :
        told \in [Clients -> Waits] /\ refusedEarly \subseteq Clients /\ Refuse(c, s)
           => told' \in [Clients -> Waits] /\ refusedEarly' \subseteq Clients
<1> SUFFICES ASSUME NEW c \in Clients, NEW s \in Nat,
                    told \in [Clients -> Waits], refusedEarly \subseteq Clients, Refuse(c, s)
             PROVE  told' \in [Clients -> Waits] /\ refusedEarly' \subseteq Clients
  OBVIOUS
<1>1. s * PerSecond \in Nat /\ Window \in Nat
  BY RateLimitAssumption
<1> DEFINE wait == IF s * PerSecond > Window THEN Window ELSE s * PerSecond
<1>2. wait \in Waits
  BY <1>1 DEF Waits
<1>3. told' = [told EXCEPT ![c] = wait]
  BY DEF Refuse
<1> HIDE DEF wait
<1>4. told' \in [Clients -> Waits]
  BY <1>2, <1>3
<1>5. refusedEarly' \subseteq Clients
  BY DEF Refuse
<1> QED  BY <1>4, <1>5

\* The seconds told are natural numbers, and at least what is missing.
LEMMA RetryAfterEnough ==
    \A units \in Nat : units < Window =>
        RetryAfter(units) \in Nat /\ RetryAfter(units) * PerSecond * Limit >= Window - units
<1> SUFFICES ASSUME NEW units \in Nat, units < Window
             PROVE  RetryAfter(units) \in Nat /\ RetryAfter(units) * PerSecond * Limit >= Window - units
  OBVIOUS
<1> DEFINE d == Limit * PerSecond
           n == Window - units
           q == (n + d - 1) \div d
<1>1. d \in Nat \ {0} /\ n \in Nat \ {0} /\ Limit \in Nat \ {0} /\ PerSecond \in Nat \ {0}
  BY RateLimitAssumption
<1>2. RetryAfter(units) = IF q < 1 THEN 1 ELSE q
  BY DEF RetryAfter, Ceiling
<1> HIDE DEF d, n
<1>3. q \in Int /\ n <= d * q
  <2> DEFINE m == n + d - 1
  <2>1. m \in Nat
    BY <1>1
  <2> HIDE DEF m
  <2>2. m \div d \in Int /\ m % d \in 0..(d - 1) /\ m = d * (m \div d) + (m % d)
    BY <1>1, <2>1
  <2>3. n + d - 1 <= d * (m \div d) + (d - 1)
    <3>1. d * (m \div d) \in Int
      BY <1>1, <2>2
    <3> QED  BY <1>1, <2>2, <3>1 DEF m
  <2> QED  BY <1>1, <2>2, <2>3 DEF m
<1> HIDE DEF q
<1>4. q >= 1
  <2> SUFFICES ASSUME q <= 0 PROVE FALSE
    BY <1>3
  <2>1. d * q <= 0
    BY <1>1, <1>3
  <2> QED  BY <1>1, <1>3, <2>1
<1>5. RetryAfter(units) = q /\ q \in Nat
  BY <1>2, <1>3, <1>4
<1>6. q * PerSecond * Limit = d * q
  BY <1>1, <1>5 DEF d
<1> QED  BY <1>3, <1>5, <1>6 DEF n

\* The TTL read is an integer.
LEMMA TtlTypes ==
    \A c \in Clients : counter \in [Clients -> Counts] =>
        /\ TtlSeconds(c) \in Int
        /\ counter[c].left # Forever =>
              2 * counter[c].left <= 2 * (TtlSeconds(c) * PerSecond) + PerSecond
<1> SUFFICES ASSUME NEW c \in Clients, counter \in [Clients -> Counts]
             PROVE  /\ TtlSeconds(c) \in Int
                    /\ counter[c].left # Forever =>
                          2 * counter[c].left <= 2 * (TtlSeconds(c) * PerSecond) + PerSecond
  OBVIOUS
<1>1. CASE counter[c].left = Forever
  BY <1>1 DEF TtlSeconds
<1>2. CASE counter[c].left # Forever
  <2> DEFINE left == counter[c].left
             m == 2 * left + PerSecond
             d == 2 * PerSecond
             q == m \div d
  <2>1. left \in Nat /\ PerSecond \in Nat \ {0}
    BY <1>2, RateLimitAssumption DEF Counts
  <2>2. TtlSeconds(c) = q
    BY <1>2 DEF TtlSeconds
  <2> HIDE DEF left
  <2>3. m \in Nat /\ d \in Nat \ {0}
    BY <2>1
  <2> HIDE DEF m, d
  <2>4. q \in Int /\ m % d \in 0..(d - 1) /\ m = d * q + (m % d)
    BY <2>3
  <2> HIDE DEF q
  <2>5. d * q = 2 * (q * PerSecond)
    BY <2>1, <2>4 DEF d
  <2>6. q * PerSecond \in Int
    BY <2>1, <2>4
  <2>7. 2 * left <= 2 * (q * PerSecond) + PerSecond
    BY <2>1, <2>3, <2>4, <2>5, <2>6 DEF m, d
  <2> QED  BY <2>2, <2>4, <2>7 DEF left
<1> QED  BY <1>1, <1>2

\* A request granted keeps the record of grants in its type.
LEMMA GrantTypes ==
    \A c \in Clients : granted \in [Clients -> [1..Window -> Nat]] /\ Grant(c)
        => granted' \in [Clients -> [1..Window -> Nat]]
<1> SUFFICES ASSUME NEW c \in Clients, granted \in [Clients -> [1..Window -> Nat]], Grant(c)
             PROVE  granted' \in [Clients -> [1..Window -> Nat]]
  OBVIOUS
<1> DEFINE more == [granted[c] EXCEPT ![1] = @ + 1]
<1>1. granted[c] \in [1..Window -> Nat] /\ 1 \in 1..Window
  BY RateLimitAssumption
<1>2. more \in [1..Window -> Nat]
  BY <1>1
<1>3. granted' = [granted EXCEPT ![c] = more]
  BY DEF Grant
<1> HIDE DEF more
<1> QED  BY <1>2, <1>3

\* LimitTypes, in the names used here.
LEMMA LimitTypesAre ==
    LimitTypes <=>
        /\ bucket \in [Clients -> Buckets] /\ counter \in [Clients -> Counts]
        /\ handling \in [Handlers -> {Free} \union Calls]
        /\ granted \in [Clients -> [1..Window -> Nat]] /\ told \in [Clients -> Waits]
        /\ refusedEarly \subseteq Clients /\ limitFaults \in Nat /\ limitMode \in LimitModes
BY DEF LimitTypes, Buckets, Counts, Calls, Waits

\* A call is not the rest of a handler.
LEMMA Busy == \A r \in {Free} \union Calls :
    /\ r = Free \/ (r \in Calls /\ r # Free)
    /\ r.at \in {"free", "expire", "ttl"} /\ (r = Free <=> r.at = "free")
BY DEF Free, Calls

LEMMA LimitTypesStart == LimitInit => LimitTypes
<1> SUFFICES ASSUME LimitInit PROVE LimitTypes
  OBVIOUS
<1>1. Gone \in Counts /\ NoBucket \in Buckets /\ NoWait \in Waits
  BY RateLimitAssumption DEF Gone, Counts, Buckets, Waits
<1> QED  BY <1>1, LimitTypesAre DEF LimitInit

LEMMA LimitTypesStep == LimitTypes /\ [LimitNext]_limitVars => LimitTypes'
<1> SUFFICES ASSUME LimitTypes, [LimitNext]_limitVars PROVE LimitTypes'
  OBVIOUS
<1> USE DEF limitVars, storeVars
<1>0. /\ bucket \in [Clients -> Buckets] /\ counter \in [Clients -> Counts]
      /\ handling \in [Handlers -> {Free} \union Calls]
      /\ granted \in [Clients -> [1..Window -> Nat]] /\ told \in [Clients -> Waits]
      /\ refusedEarly \subseteq Clients /\ limitFaults \in Nat /\ limitMode \in LimitModes
  BY LimitTypesAre
<1>n. Limit \in Nat \ {0} /\ Window \in Nat \ {0} /\ PerSecond \in Nat \ {0} /\ 1 \in 1..Window
  BY RateLimitAssumption
<1>t. NoBucket \in Buckets /\ NoWait \in Waits /\ Gone \in Counts
  BY <1>n DEF Buckets, Waits, Gone, Counts
<1> DEFINE Typed ==
      /\ bucket' \in [Clients -> Buckets] /\ counter' \in [Clients -> Counts]
      /\ handling' \in [Handlers -> {Free} \union Calls]
      /\ granted' \in [Clients -> [1..Window -> Nat]] /\ told' \in [Clients -> Waits]
      /\ refusedEarly' \subseteq Clients /\ limitFaults' \in Nat /\ limitMode' \in LimitModes
<1>1. ASSUME NEW c \in Clients, ConsumeMemory(c) PROVE Typed
  <2> DEFINE units == IF bucket[c] = NoBucket THEN Limit * Window ELSE Refilled(bucket[c])
             left == IF units >= Window THEN units - Window ELSE units
             b == [units |-> left, idle |-> 0]
  <2>1. units = Avail(bucket[c])
    BY DEF Avail
  <2>2. /\ bucket' = [bucket EXCEPT ![c] = b]
        /\ \/ units >= Window /\ Grant(c) /\ Admit(c)
           \/ units < Window /\ Refuse(c, RetryAfter(units)) /\ UNCHANGED granted
        /\ UNCHANGED <<counter, handling, limitFaults, limitMode>>
    BY <1>1 DEF ConsumeMemory
  <2> HIDE DEF units
  <2>3. units \in 0..Limit * Window
    BY <1>0, <2>1, AvailRange
  <2>4. left \in 0..Limit * Window
    BY <1>n, <2>3
  <2>5. b \in Buckets
    BY <2>4, AvailWritten
  <2> HIDE DEF b
  <2>6. bucket' \in [Clients -> Buckets]
    BY <1>0, <2>2, <2>5
  <2>7. granted' \in [Clients -> [1..Window -> Nat]]
    BY <1>0, <2>2, GrantTypes
  <2>8. told' \in [Clients -> Waits] /\ refusedEarly' \subseteq Clients
    <3>1. CASE Admit(c)
      BY <1>0, <1>t, <3>1 DEF Admit
    <3>2. CASE units < Window /\ Refuse(c, RetryAfter(units))
      <4>1. units \in Nat
        BY <2>3
      <4>2. RetryAfter(units) \in Nat
        BY <3>2, <4>1, RetryAfterEnough
      <4> QED  BY <1>0, <3>2, <4>2, RefuseTypes
    <3> QED  BY <2>2, <3>1, <3>2
  <2> QED  BY <1>0, <2>2, <2>6, <2>7, <2>8
<1>2. ASSUME NEW h \in Handlers, NEW c \in Clients, Incr(h, c) PROVE Typed
  <2> DEFINE n == IF counter[c].count > Limit THEN Limit + 1 ELSE counter[c].count + 1
             k == [counter[c] EXCEPT !.count = n]
             r == [at |-> IF n = 1 THEN "expire" ELSE "ttl", client |-> c, count |-> n]
  <2>1. /\ counter' = [counter EXCEPT ![c] = k] /\ handling' = [handling EXCEPT ![h] = r]
        /\ Grant(c) \/ UNCHANGED granted
        /\ UNCHANGED <<bucket, told, refusedEarly, limitFaults, limitMode>>
    BY <1>2 DEF Incr
  <2>2. counter[c] \in Counts
    BY <1>0
  <2>3. n \in 1..Limit + 1
    BY <1>n, <2>2 DEF Counts
  <2> HIDE DEF n
  <2>4. k \in Counts /\ r \in Calls
    BY <1>n, <2>2, <2>3 DEF Counts, Calls
  <2> HIDE DEF k, r
  <2>5. counter' \in [Clients -> Counts]
    BY <1>0, <2>1, <2>4
  <2>6. handling' \in [Handlers -> {Free} \union Calls]
    BY <1>0, <2>1, <2>4
  <2>7. granted' \in [Clients -> [1..Window -> Nat]]
    BY <1>0, <2>1, GrantTypes
  <2> QED  BY <1>0, <2>1, <2>5, <2>6, <2>7
<1>3. ASSUME NEW h \in Handlers, Expire(h) PROVE Typed
  <2> DEFINE c == handling[h].client
             k == [counter[c] EXCEPT !.left = Window]
             r == [handling[h] EXCEPT !.at = "ttl"]
  <2>1. /\ handling[h].at = "expire"
        /\ counter' = counter \/ counter' = [counter EXCEPT ![c] = k]
        /\ handling' = [handling EXCEPT ![h] = r]
        /\ UNCHANGED <<bucket, granted, told, refusedEarly, limitFaults, limitMode>>
    BY <1>3 DEF Expire
  <2>2. handling[h] \in Calls
    BY <1>0, <2>1, Busy
  <2>3. r \in Calls /\ c \in Clients
    BY <2>2 DEF Calls
  <2> HIDE DEF c, r
  <2>4. k \in Counts
    <3>1. counter[c] \in Counts /\ Window \in {Forever} \union 1..Window
      BY <1>0, <1>n, <2>3
    <3> QED  BY <3>1 DEF Counts
  <2> HIDE DEF k
  <2>5. counter' \in [Clients -> Counts]
    BY <1>0, <2>1, <2>4
  <2>6. handling' \in [Handlers -> {Free} \union Calls]
    BY <1>0, <2>1, <2>3
  <2> QED  BY <1>0, <2>1, <2>5, <2>6
<1>4. ASSUME NEW h \in Handlers, ReadTtl(h) PROVE Typed
  <2> DEFINE c == handling[h].client
             s == TtlSeconds(c)
             w == IF s < 1 THEN 1 ELSE s
  <2>1. /\ handling[h].at = "ttl"
        /\ Admit(c) \/ Refuse(c, w)
        /\ handling' = [handling EXCEPT ![h] = Free]
        /\ UNCHANGED <<bucket, counter, granted, limitFaults, limitMode>>
    BY <1>4 DEF ReadTtl
  <2>2. c \in Clients
    BY <1>0, <2>1, Busy DEF Calls
  <2>3. w \in Nat
    BY <1>0, <2>2, TtlTypes
  <2> HIDE DEF c, w
  <2>4. told' \in [Clients -> Waits] /\ refusedEarly' \subseteq Clients
    <3>1. CASE Admit(c)
      BY <1>0, <1>t, <3>1 DEF Admit
    <3>2. CASE Refuse(c, w)
      BY <1>0, <2>2, <2>3, <3>2, RefuseTypes
    <3> QED  BY <2>1, <3>1, <3>2
  <2>5. handling' \in [Handlers -> {Free} \union Calls]
    BY <1>0, <2>1
  <2> QED  BY <1>0, <2>1, <2>4, <2>5
<1>5. ASSUME NEW h \in Handlers, RedisFails(h) PROVE Typed
  <2>1. handling' \in [Handlers -> {Free} \union Calls]
    BY <1>0, <1>5 DEF RedisFails
  <2> QED  BY <1>0, <1>5, <2>1 DEF RedisFails
<1>6. ASSUME Second PROVE Typed
  <2>1. bucket' = [c \in Clients |-> OlderBucket(bucket[c])]
    BY <1>6 DEF Second, OlderBucket
  <2>2. bucket' \in [Clients -> Buckets]
    BY <1>0, <2>1, AvailAges
  <2>3. counter' \in [Clients -> Counts]
    <3> SUFFICES ASSUME NEW c \in Clients
                 PROVE  (CASE counter[c].left = Forever -> counter[c]
                           [] counter[c].left = 1 -> Gone
                           [] OTHER -> [counter[c] EXCEPT !.left = @ - 1]) \in Counts
      BY <1>6 DEF Second
    <3>1. counter[c] \in Counts
      BY <1>0
    <3>2. CASE counter[c].left \in {Forever, 1}
      BY <1>t, <3>1, <3>2 DEF Forever
    <3>3. CASE counter[c].left \notin {Forever, 1}
      <4>1. counter[c].left - 1 \in 1..Window
        BY <1>n, <3>1, <3>3 DEF Counts
      <4>2. [counter[c] EXCEPT !.left = @ - 1] \in Counts
        BY <3>1, <4>1 DEF Counts
      <4> QED  BY <3>3, <4>2
    <3> QED  BY <3>2, <3>3
  <2>4. granted' \in [Clients -> [1..Window -> Nat]]
    <3> SUFFICES ASSUME NEW c \in Clients, NEW i \in 1..Window
                 PROVE  (IF i = 1 THEN 0 ELSE granted[c][i - 1]) \in Nat
      BY <1>6 DEF Second
    <3>1. granted[c] \in [1..Window -> Nat]
      BY <1>0
    <3>2. i # 1 => i - 1 \in 1..Window
      BY <1>n
    <3> QED  BY <3>1, <3>2
  <2>5. told' \in [Clients -> Waits]
    <3> SUFFICES ASSUME NEW c \in Clients
                 PROVE  (IF told[c] > 0 THEN told[c] - 1 ELSE told[c]) \in Waits
      BY <1>6 DEF Second
    <3>1. told[c] \in Waits
      BY <1>0
    <3> QED  BY <1>n, <3>1 DEF Waits, NoWait
  <2> QED  BY <1>0, <1>6, <2>2, <2>3, <2>4, <2>5 DEF Second
<1>7. ASSUME RestartLimiter PROVE Typed
  BY <1>0, <1>t, <1>7 DEF RestartLimiter
<1>8. ASSUME UNCHANGED limitVars PROVE Typed
  BY <1>0, <1>8
<1>9. Typed
  BY <1>1, <1>2, <1>3, <1>4, <1>5, <1>6, <1>7, <1>8 DEF LimitNext
<1> QED  BY <1>9, LimitTypesAre DEF LimitTypes, Buckets, Counts, Calls, Waits

\* Every state of the limiter is typed.
THEOREM LimiterIsTyped == LimitSpec => []LimitTypes
<1> QED  BY LimitTypesStart, LimitTypesStep, PTL DEF LimitSpec

----------------------------------------------------------------------------
\* The book of the memory store: for every number k of ticks, what was granted
\* in the last k and what the bucket holds come from a full bucket for each life
\* of the process and the refills of the ticks between.

MemoryBook(g, b, lives) ==
    \A k \in 1..Window :
        Window * Cardinality(GrantsOf(g, 1..k)) + Avail(b) <= Limit * Window * lives + (k - 1) * Limit

\* The terms of the book are natural numbers.
LEMMA BookTerms ==
    \A g \in [1..Window -> Nat], b \in Buckets, lives \in Nat, k \in 1..Window :
        /\ Cardinality(GrantsOf(g, 1..k)) \in Nat
        /\ Window * Cardinality(GrantsOf(g, 1..k)) \in Nat
        /\ Avail(b) \in Nat /\ Avail(b) <= Limit * Window
        /\ Limit * Window \in Nat /\ Limit * Window * lives \in Nat
        /\ (k - 1) * Limit \in Nat /\ k * Limit \in Nat /\ k * Limit = (k - 1) * Limit + Limit
<1> SUFFICES ASSUME NEW g \in [1..Window -> Nat], NEW b \in Buckets, NEW lives \in Nat, NEW k \in 1..Window
             PROVE  /\ Cardinality(GrantsOf(g, 1..k)) \in Nat
                    /\ Window * Cardinality(GrantsOf(g, 1..k)) \in Nat
                    /\ Avail(b) \in Nat /\ Avail(b) <= Limit * Window
                    /\ Limit * Window \in Nat /\ Limit * Window * lives \in Nat
                    /\ (k - 1) * Limit \in Nat /\ k * Limit \in Nat /\ k * Limit = (k - 1) * Limit + Limit
  OBVIOUS
<1>1. Limit \in Nat /\ Window \in Nat /\ k \in Nat /\ k - 1 \in Nat
  BY RateLimitAssumption
<1>2. 1..k \in SUBSET (1..Window)
  BY <1>1
<1>3. Cardinality(GrantsOf(g, 1..k)) \in Nat
  BY <1>2, GrantsCount
<1>4. Window * Cardinality(GrantsOf(g, 1..k)) \in Nat
  BY <1>1, <1>3, TimesMonotone
<1>5. Limit * Window \in Nat
  BY <1>1, TimesMonotone
<1>6. Limit * Window * lives \in Nat
  BY <1>5, TimesMonotone
<1>7. Avail(b) \in 0..Limit * Window
  BY AvailRange
<1>8. (k - 1) * Limit \in Nat /\ k * Limit \in Nat
  BY <1>1, TimesMonotone
<1>9. k * Limit = (k - 1) * Limit + Limit
  BY <1>1
<1> QED  BY <1>3, <1>4, <1>5, <1>6, <1>7, <1>8, <1>9

\* A token spent is a request granted.
LEMMA BookSpends ==
    \A g \in [1..Window -> Nat], b \in Buckets, u \in 0..Limit * Window, lives \in Nat :
        MemoryBook(g, b, lives) /\ Avail(b) = u + Window
           => MemoryBook([g EXCEPT ![1] = @ + 1], [units |-> u, idle |-> 0], lives)
<1> SUFFICES ASSUME NEW g \in [1..Window -> Nat], NEW b \in Buckets,
                    NEW u \in 0..Limit * Window, NEW lives \in Nat,
                    MemoryBook(g, b, lives), Avail(b) = u + Window,
                    NEW k \in 1..Window
             PROVE  Window * Cardinality(GrantsOf([g EXCEPT ![1] = @ + 1], 1..k)) + Avail([units |-> u, idle |-> 0])
                       <= Limit * Window * lives + (k - 1) * Limit
  BY DEF MemoryBook
<1> DEFINE more == [g EXCEPT ![1] = @ + 1]
           n == Cardinality(GrantsOf(g, 1..k))
           n2 == Cardinality(GrantsOf(more, 1..k))
           full == Limit * Window * lives
           refill == (k - 1) * Limit
<1>1. Window \in Nat \ {0} /\ 1..k \in SUBSET (1..Window)
  BY RateLimitAssumption
<1>2. more \in [1..Window -> Nat] /\ n2 <= n + 1
  BY <1>1, GrantsGrow
<1>3. n \in Nat /\ Window * n \in Nat /\ full \in Nat /\ refill \in Nat
  BY BookTerms
<1>4. n2 \in Nat
  BY <1>1, <1>2, GrantsCount
<1>5. Window * n + (u + Window) <= full + refill
  BY DEF MemoryBook
<1>6. Avail([units |-> u, idle |-> 0]) = u
  BY AvailWritten
<1>7. u \in Nat
  BY BookTerms
<1> HIDE DEF n, n2, full, refill, more
<1>8. Window * n2 <= Window * (n + 1) /\ Window * n2 \in Nat
  BY <1>1, <1>2, <1>3, <1>4, TimesMonotone
<1>9. Window * (n + 1) = Window * n + Window
  BY <1>1, <1>3
<1>10. Window * n2 + u <= full + refill
  BY <1>1, <1>3, <1>5, <1>7, <1>8, <1>9
<1> QED  BY <1>6, <1>10 DEF n2, full, refill, more

\* A tick's refill is the allowance of one more tick.
LEMMA BookAges ==
    \A g, older \in [1..Window -> Nat], b, b2 \in Buckets, lives \in Nat :
        /\ MemoryBook(g, b, lives) /\ lives >= 1
        /\ older[1] = 0 /\ \A i \in 2..Window : older[i] = g[i - 1]
        /\ Avail(b2) <= Avail(b) + Limit
        => MemoryBook(older, b2, lives)
<1> SUFFICES ASSUME NEW g \in [1..Window -> Nat], NEW older \in [1..Window -> Nat],
                    NEW b \in Buckets, NEW b2 \in Buckets, NEW lives \in Nat,
                    MemoryBook(g, b, lives), lives >= 1,
                    older[1] = 0, \A i \in 2..Window : older[i] = g[i - 1],
                    Avail(b2) <= Avail(b) + Limit,
                    NEW k \in 1..Window
             PROVE  Window * Cardinality(GrantsOf(older, 1..k)) + Avail(b2)
                       <= Limit * Window * lives + (k - 1) * Limit
  BY DEF MemoryBook
<1> DEFINE n2 == Cardinality(GrantsOf(older, 1..k))
           full == Limit * Window * lives
           refill == (k - 1) * Limit
<1>1. /\ n2 \in Nat /\ Window * n2 \in Nat /\ full \in Nat /\ refill \in Nat
      /\ Avail(b) \in Nat /\ Avail(b2) \in Nat /\ Avail(b2) <= Limit * Window /\ Limit * Window \in Nat
  BY BookTerms
<1>2. Limit \in Nat \ {0} /\ Window \in Nat \ {0}
  BY RateLimitAssumption
<1>3. CASE k = 1
  <2>1. n2 <= Cardinality(GrantsOf(g, {}))
    <3>1. 1..k \in SUBSET (1..Window) /\ \A i \in 1..k : i = 1 \/ i - 1 \in {}
      BY <1>2, <1>3
    <3> QED  BY <3>1, GrantsAge
  <2>2. n2 = 0
    BY <1>1, <2>1, NoGrants
  <2>3. Window * n2 = 0
    BY <1>2, <2>2
  <2>4. Limit * Window <= full
    <3>1. Limit * Window * 1 <= Limit * Window * lives
      BY <1>1, TimesMonotone
    <3>2. Limit * Window * 1 = Limit * Window
      BY <1>1
    <3> QED  BY <3>1, <3>2
  <2> HIDE DEF n2, full, refill
  <2>5. Window * n2 + Avail(b2) <= full + refill
    <3> DEFINE size == Limit * Window
    <3>1. size \in Nat /\ Avail(b2) <= size /\ size <= full
      BY <1>1, <2>4
    <3> HIDE DEF size
    <3> QED  BY <1>1, <2>3, <3>1
  <2> QED  BY <2>5 DEF n2, full, refill
<1>4. CASE k > 1
  <2> DEFINE n == Cardinality(GrantsOf(g, 1..(k - 1)))
             refill1 == (k - 1 - 1) * Limit
  <2>1. k - 1 \in 1..Window
    BY <1>2, <1>4
  <2>2. n2 <= n
    <3>1. /\ 1..k \in SUBSET (1..Window) /\ 1..(k - 1) \in SUBSET (1..Window)
          /\ \A i \in 1..k : i = 1 \/ i - 1 \in 1..(k - 1)
      BY <1>2, <1>4
    <3> QED  BY <3>1, GrantsAge
  <2>3. n \in Nat /\ Window * n \in Nat /\ refill1 \in Nat /\ refill = refill1 + Limit
    <3>1. n \in Nat /\ Window * n \in Nat
      BY <2>1, BookTerms
    <3>2. refill1 \in Nat /\ (k - 1) * Limit = (k - 1 - 1) * Limit + Limit
      BY <2>1, BookTerms
    <3> QED  BY <3>1, <3>2
  <2>4. Window * n + Avail(b) <= full + refill1
    BY <2>1 DEF MemoryBook
  <2> HIDE DEF n, n2, full, refill, refill1
  <2>5. Window * n2 <= Window * n
    BY <1>1, <1>2, <2>2, <2>3, TimesMonotone
  <2>6. Window * n2 + Avail(b2) <= full + refill
    <3> DEFINE x == Window * n  y == Window * n2
    <3>1. x \in Nat /\ y \in Nat /\ y <= x /\ x + Avail(b) <= full + refill1
      BY <1>1, <2>3, <2>4, <2>5
    <3> HIDE DEF x, y
    <3>2. y + Avail(b2) <= full + refill
      BY <1>1, <1>2, <2>3, <3>1
    <3> QED  BY <3>2 DEF x, y
  <2> QED  BY <2>6 DEF n2, full, refill
<1> QED  BY <1>2, <1>3, <1>4

\* A new process has full buckets.
LEMMA BookRestarts ==
    \A g \in [1..Window -> Nat], b \in Buckets, lives \in Nat :
        MemoryBook(g, b, lives) => MemoryBook(g, NoBucket, lives + 1)
<1> SUFFICES ASSUME NEW g \in [1..Window -> Nat], NEW b \in Buckets, NEW lives \in Nat,
                    MemoryBook(g, b, lives), NEW k \in 1..Window
             PROVE  Window * Cardinality(GrantsOf(g, 1..k)) + Avail(NoBucket)
                       <= Limit * Window * (lives + 1) + (k - 1) * Limit
  BY DEF MemoryBook
<1> DEFINE n == Window * Cardinality(GrantsOf(g, 1..k))
           size == Limit * Window
           full == size * lives
           refill == (k - 1) * Limit
<1>1. n \in Nat /\ full \in Nat /\ refill \in Nat /\ size \in Nat /\ Avail(b) \in Nat
  BY BookTerms
<1>2. n + Avail(b) <= full + refill
  BY DEF MemoryBook
<1>3. Avail(NoBucket) = size
  BY DEF Avail
<1>4. size * (lives + 1) = full + size
  <2> HIDE DEF size
  <2> QED  BY <1>1
<1> HIDE DEF n, full, refill, size
<1>5. n + size <= full + size + refill
  BY <1>1, <1>2
<1>6. n + Avail(NoBucket) <= size * (lives + 1) + refill
  BY <1>1, <1>3, <1>4, <1>5
<1> QED  BY <1>6 DEF n, size, refill

\* The book keeps the promise of the limiter.
LEMMA BookPromises ==
    \A g \in [1..Window -> Nat], b \in Buckets, lives \in Nat :
        MemoryBook(g, b, lives) => Cardinality(GrantsOf(g, 1..Window)) <= Limit * (lives + 1)
<1> SUFFICES ASSUME NEW g \in [1..Window -> Nat], NEW b \in Buckets, NEW lives \in Nat,
                    MemoryBook(g, b, lives)
             PROVE  Cardinality(GrantsOf(g, 1..Window)) <= Limit * (lives + 1)
  OBVIOUS
<1> DEFINE n == Cardinality(GrantsOf(g, 1..Window))
           m == Limit * (lives + 1)
<1>0. Window \in 1..Window /\ Window \in Nat \ {0} /\ Limit \in Nat \ {0}
  BY RateLimitAssumption
<1>1. /\ n \in Nat /\ Window * n \in Nat /\ Avail(b) \in Nat /\ Limit * Window * lives \in Nat
      /\ Limit * Window \in Nat
      /\ (Window - 1) * Limit \in Nat /\ Window * Limit = (Window - 1) * Limit + Limit
  BY <1>0, BookTerms
<1>2. Window * n + Avail(b) <= Limit * Window * lives + (Window - 1) * Limit
  BY <1>0 DEF MemoryBook
<1>3. m \in Nat /\ m + 1 \in Nat
  BY <1>0, TimesMonotone
<1>4. Window * (m + 1) = Limit * Window * lives + Window * Limit + Window
  BY <1>0
<1> HIDE DEF n, m
<1>5. Window * n < Window * (m + 1)
  <2> DEFINE x == Window * n  y == Limit * Window * lives  z == (Window - 1) * Limit
             w == Window * Limit
  <2>1. x \in Nat /\ y \in Nat /\ z \in Nat /\ w = z + Limit /\ x + Avail(b) <= y + z
    BY <1>1, <1>2
  <2>2. Window * (m + 1) = y + w + Window
    BY <1>4
  <2> HIDE DEF x, y, z, w
  <2>3. x < y + w + Window
    BY <1>0, <1>1, <2>1
  <2> QED  BY <2>2, <2>3 DEF x
<1>6. n < m + 1
  BY <1>0, <1>1, <1>3, <1>5, TimesReflects
<1>7. n <= m
  BY <1>1, <1>3, <1>6
<1> QED  BY <1>7 DEF n, m

----------------------------------------------------------------------------
\* The book of the Redis store: there is a tick before which all grants of the
\* window are of counters that have ended, and after which all are of the present
\* one, whose key lives until that tick has left the window.

RedisBook(g, k) ==
    \E m \in 1..Window :
        /\ Cardinality(GrantsOf(g, 1..m)) <= k.count
        /\ Cardinality(GrantsOf(g, 1..m)) <= Limit
        /\ Cardinality(GrantsOf(g, (m + 1)..Window)) <= Limit
        /\ k.left # Forever => k.left >= Window - m + 1

\* the counter a tick later
Shorter(k) == CASE k.left = Forever -> k
                [] k.left = 1 -> Gone
                [] OTHER -> [k EXCEPT !.left = @ - 1]

\* A request counted, and granted while the count is within the limit.
LEMMA BookCounts ==
    \A g \in [1..Window -> Nat], k, k2 \in Counts :
        RedisBook(g, k) /\ k2.left = k.left /\ k2.count >= k.count =>
            /\ RedisBook(g, k2)
            /\ k2.count = k.count + 1 /\ k2.count <= Limit => RedisBook([g EXCEPT ![1] = @ + 1], k2)
<1> SUFFICES ASSUME NEW g \in [1..Window -> Nat], NEW k \in Counts, NEW k2 \in Counts,
                    RedisBook(g, k), k2.left = k.left, k2.count >= k.count
             PROVE  /\ RedisBook(g, k2)
                    /\ k2.count = k.count + 1 /\ k2.count <= Limit => RedisBook([g EXCEPT ![1] = @ + 1], k2)
  OBVIOUS
<1>1. PICK m \in 1..Window :
        /\ Cardinality(GrantsOf(g, 1..m)) <= k.count
        /\ Cardinality(GrantsOf(g, 1..m)) <= Limit
        /\ Cardinality(GrantsOf(g, (m + 1)..Window)) <= Limit
        /\ k.left # Forever => k.left >= Window - m + 1
  BY DEF RedisBook
<1>2. /\ 1..m \in SUBSET (1..Window) /\ (m + 1)..Window \in SUBSET (1..Window)
      /\ 1 \notin (m + 1)..Window
  BY RateLimitAssumption
<1>3. Cardinality(GrantsOf(g, 1..m)) \in Nat /\ k.count \in Nat /\ k2.count \in Nat /\ Limit \in Nat
  BY <1>2, GrantsCount, RateLimitAssumption DEF Counts
<1>4. RedisBook(g, k2)
  <2>1. Cardinality(GrantsOf(g, 1..m)) <= k2.count
    BY <1>1, <1>3
  <2> QED  BY <1>1, <2>1 DEF RedisBook
<1>5. ASSUME k2.count = k.count + 1, k2.count <= Limit PROVE RedisBook([g EXCEPT ![1] = @ + 1], k2)
  <2> DEFINE more == [g EXCEPT ![1] = @ + 1]
  <2>1. /\ Cardinality(GrantsOf(more, 1..m)) <= Cardinality(GrantsOf(g, 1..m)) + 1
        /\ GrantsOf(more, (m + 1)..Window) = GrantsOf(g, (m + 1)..Window)
        /\ more \in [1..Window -> Nat]
    BY <1>2, GrantsGrow
  <2>2. Cardinality(GrantsOf(more, 1..m)) \in Nat
    BY <1>2, <2>1, GrantsCount
  <2> HIDE DEF more
  <2>3. Cardinality(GrantsOf(more, 1..m)) <= k2.count /\ Cardinality(GrantsOf(more, 1..m)) <= Limit
    BY <1>1, <1>3, <1>5, <2>1, <2>2
  <2>4. RedisBook(more, k2)
    BY <1>1, <2>1, <2>3 DEF RedisBook
  <2> QED  BY <2>4 DEF more
<1> QED  BY <1>4, <1>5

\* The key given its life.
LEMMA BookExpires ==
    \A g \in [1..Window -> Nat], k \in Counts :
        RedisBook(g, k) => RedisBook(g, [k EXCEPT !.left = Window])
<1> SUFFICES ASSUME NEW g \in [1..Window -> Nat], NEW k \in Counts, RedisBook(g, k)
             PROVE  RedisBook(g, [k EXCEPT !.left = Window])
  OBVIOUS
<1>1. PICK m \in 1..Window :
        /\ Cardinality(GrantsOf(g, 1..m)) <= k.count
        /\ Cardinality(GrantsOf(g, 1..m)) <= Limit
        /\ Cardinality(GrantsOf(g, (m + 1)..Window)) <= Limit
  BY DEF RedisBook
<1> DEFINE k2 == [k EXCEPT !.left = Window]
<1>2. k2.count = k.count /\ k2.left = Window
  BY DEF Counts
<1> HIDE DEF k2
<1>3. k2.left >= Window - m + 1
  BY <1>2, RateLimitAssumption
<1>4. RedisBook(g, k2)
  BY <1>1, <1>2, <1>3 DEF RedisBook
<1> QED  BY <1>4 DEF k2

\* A tick: the dividing tick is one older, or the counter ends and a new division starts.
LEMMA BookShortens ==
    \A g, older \in [1..Window -> Nat], k \in Counts :
        /\ RedisBook(g, k)
        /\ older[1] = 0 /\ \A i \in 2..Window : older[i] = g[i - 1]
        => RedisBook(older, Shorter(k))
<1> SUFFICES ASSUME NEW g \in [1..Window -> Nat], NEW older \in [1..Window -> Nat], NEW k \in Counts,
                    RedisBook(g, k), older[1] = 0, \A i \in 2..Window : older[i] = g[i - 1]
             PROVE  RedisBook(older, Shorter(k))
  OBVIOUS
<1>1. PICK m \in 1..Window :
        /\ Cardinality(GrantsOf(g, 1..m)) <= k.count
        /\ Cardinality(GrantsOf(g, 1..m)) <= Limit
        /\ Cardinality(GrantsOf(g, (m + 1)..Window)) <= Limit
        /\ k.left # Forever => k.left >= Window - m + 1
  BY DEF RedisBook
<1>2. Window \in Nat \ {0} /\ Limit \in Nat \ {0} /\ k.count \in Nat /\ k.left \in {Forever} \union 1..Window
  BY RateLimitAssumption DEF Counts
<1>3. /\ Cardinality(GrantsOf(g, 1..m)) \in Nat
      /\ Cardinality(GrantsOf(g, (m + 1)..Window)) \in Nat
  <2>1. 1..m \in SUBSET (1..Window) /\ (m + 1)..Window \in SUBSET (1..Window)
    BY <1>2
  <2> QED  BY <2>1, GrantsCount
<1>4. CASE k.left = 1
  <2>1. m = Window
    BY <1>1, <1>2, <1>4 DEF Forever
  <2>2. Shorter(k) = Gone
    BY <1>4 DEF Shorter, Forever
  <2>3. 1..1 \in SUBSET (1..Window) /\ (1 + 1)..Window \in SUBSET (1..Window) /\ 1..Window \in SUBSET (1..Window)
    BY <1>2
  <2>4. Cardinality(GrantsOf(older, 1..1)) \in Nat /\ Cardinality(GrantsOf(older, (1 + 1)..Window)) \in Nat
    BY <2>3, GrantsCount
  <2>5. Cardinality(GrantsOf(older, 1..1)) <= Cardinality(GrantsOf(g, {}))
    <3>1. \A i \in 1..1 : i = 1 \/ i - 1 \in {}
      OBVIOUS
    <3> QED  BY <2>3, <3>1, GrantsAge
  <2>6. Cardinality(GrantsOf(older, 1..1)) = 0
    BY <2>4, <2>5, NoGrants
  <2>7. Cardinality(GrantsOf(older, (1 + 1)..Window)) <= Cardinality(GrantsOf(g, 1..Window))
    <3>1. \A i \in (1 + 1)..Window : i = 1 \/ i - 1 \in 1..Window
      BY <1>2
    <3> QED  BY <2>3, <3>1, GrantsAge
  <2>8. Cardinality(GrantsOf(older, (1 + 1)..Window)) <= Limit
    BY <1>1, <1>2, <1>3, <2>1, <2>4, <2>7
  <2>9. Gone.count = 0 /\ Gone.left = Forever /\ 1 \in 1..Window
    BY <1>2 DEF Gone
  <2>10. Cardinality(GrantsOf(older, 1..1)) <= Gone.count /\ Cardinality(GrantsOf(older, 1..1)) <= Limit
    BY <1>2, <2>6, <2>9
  <2> QED  BY <2>2, <2>8, <2>9, <2>10 DEF RedisBook
<1>5. CASE k.left # 1
  <2> DEFINE k2 == Shorter(k)
             m2 == IF m = Window THEN m ELSE m + 1
  <2>1. k2.count = k.count /\ (k2.left # Forever => k.left # Forever /\ k2.left = k.left - 1)
    <3>1. CASE k.left = Forever
      BY <1>5, <3>1 DEF Shorter
    <3>2. CASE k.left # Forever
      <4>1. k2 = [k EXCEPT !.left = @ - 1]
        BY <1>5, <3>2 DEF Shorter
      <4> QED  BY <3>2, <4>1 DEF Counts
    <3> QED  BY <3>1, <3>2
  <2> HIDE DEF k2
  <2>2. k2.left # Forever => k2.left >= Window - m2 + 1
    <3> SUFFICES ASSUME k2.left # Forever PROVE k2.left >= Window - m2 + 1
      OBVIOUS
    <3>1. k.left \in 2..Window /\ k2.left = k.left - 1 /\ k.left >= Window - m + 1
      BY <1>1, <1>2, <1>5, <2>1
    <3> QED  BY <1>2, <3>1
  <2>3. m2 \in 1..Window
    BY <1>2
  <2>4. Cardinality(GrantsOf(older, 1..m2)) <= Cardinality(GrantsOf(g, 1..m))
    <3>1. /\ 1..m2 \in SUBSET (1..Window) /\ 1..m \in SUBSET (1..Window)
          /\ \A i \in 1..m2 : i = 1 \/ i - 1 \in 1..m
      BY <1>2
    <3> HIDE DEF m2
    <3> QED  BY <3>1, GrantsAge
  <2>5. Cardinality(GrantsOf(older, (m2 + 1)..Window)) <= Cardinality(GrantsOf(g, (m + 1)..Window))
    <3>1. /\ (m2 + 1)..Window \in SUBSET (1..Window) /\ (m + 1)..Window \in SUBSET (1..Window)
          /\ \A i \in (m2 + 1)..Window : i = 1 \/ i - 1 \in (m + 1)..Window
      BY <1>2
    <3> HIDE DEF m2
    <3> QED  BY <3>1, GrantsAge
  <2> HIDE DEF m2
  <2>6. /\ Cardinality(GrantsOf(older, 1..m2)) \in Nat
        /\ Cardinality(GrantsOf(older, (m2 + 1)..Window)) \in Nat
    <3>1. 1..m2 \in SUBSET (1..Window) /\ (m2 + 1)..Window \in SUBSET (1..Window)
      BY <1>2, <2>3
    <3> QED  BY <3>1, GrantsCount
  <2>7. /\ Cardinality(GrantsOf(older, 1..m2)) <= k2.count
        /\ Cardinality(GrantsOf(older, 1..m2)) <= Limit
        /\ Cardinality(GrantsOf(older, (m2 + 1)..Window)) <= Limit
    BY <1>1, <1>2, <1>3, <2>1, <2>4, <2>5, <2>6, SMTT(30)
  <2>8. RedisBook(older, k2)
    BY <2>2, <2>3, <2>7 DEF RedisBook
  <2> QED  BY <2>8 DEF k2
<1> QED  BY <1>4, <1>5

\* The book keeps the promise of the limiter.
LEMMA RedisBookPromises ==
    \A g \in [1..Window -> Nat], k \in Counts :
        RedisBook(g, k) => Cardinality(GrantsOf(g, 1..Window)) <= Limit * 2
<1> SUFFICES ASSUME NEW g \in [1..Window -> Nat], NEW k \in Counts, RedisBook(g, k)
             PROVE  Cardinality(GrantsOf(g, 1..Window)) <= Limit * 2
  OBVIOUS
<1>1. PICK m \in 1..Window :
        /\ Cardinality(GrantsOf(g, 1..m)) <= Limit
        /\ Cardinality(GrantsOf(g, (m + 1)..Window)) <= Limit
  BY DEF RedisBook
<1>2. Cardinality(GrantsOf(g, 1..Window)) <=
        Cardinality(GrantsOf(g, 1..m)) + Cardinality(GrantsOf(g, (m + 1)..Window))
  BY GrantsSplit
<1>3. /\ Cardinality(GrantsOf(g, 1..m)) \in Nat /\ Cardinality(GrantsOf(g, 1..Window)) \in Nat
      /\ Cardinality(GrantsOf(g, (m + 1)..Window)) \in Nat
  <2>1. 1..m \in SUBSET (1..Window) /\ (m + 1)..Window \in SUBSET (1..Window) /\ 1..Window \in SUBSET (1..Window)
    BY RateLimitAssumption
  <2> QED  BY <2>1, GrantsCount
<1> QED  BY <1>1, <1>2, <1>3, RateLimitAssumption

----------------------------------------------------------------------------
\* The inductive invariant.

Calm == ~(limitMode.overlap \/ limitMode.faults)

MemoryInv ==
    /\ \A h \in Handlers : handling[h] = Free
    /\ refusedEarly = {}
    /\ \A c \in Clients :
          /\ MemoryBook(granted[c], bucket[c], 1 + limitFaults)
          /\ told[c] # NoWait => Avail(bucket[c]) + told[c] * Limit >= Window

RedisInv == \A c \in Clients : RedisBook(granted[c], counter[c])

\* a counter in use has its life, or a handler is about to give it one
HasItsLife(c) ==
    \/ counter[c] = Gone
    \/ counter[c].left # Forever
    \/ \E h \in Handlers : handling[h].at = "expire" /\ handling[h].client = c

\* a wait told is over when the counter ends, to half a second, unless the
\* client is being admitted
WaitHolds(c) ==
    \/ told[c] = NoWait
    \/ \E h \in Handlers : handling[h] # Free /\ handling[h].client = c /\ handling[h].count <= Limit
    \/ counter[c] = Gone
    \/ counter[c].left # Forever /\ 2 * counter[c].left <= 2 * told[c] + PerSecond

CalmInv ==
    /\ \A g, h \in Handlers : handling[g] # Free /\ handling[h] # Free => g = h
    /\ \A h \in Handlers : handling[h].at = "expire" =>
          handling[h].count = 1 /\ counter[handling[h].client].count # 0
    /\ \A c \in Clients : HasItsLife(c) /\ WaitHolds(c)

LimitInv ==
    /\ LimitTypes
    /\ limitMode.store = "memory" => MemoryInv
    /\ limitMode.store = "redis" => RedisInv
    /\ limitMode.store = "redis" /\ Calm => CalmInv

\* A tick, client by client.
LEMMA SecondIs ==
    LimitTypes /\ Second => \A c \in Clients :
        /\ bucket'[c] = OlderBucket(bucket[c]) /\ counter'[c] = Shorter(counter[c])
        /\ granted'[c][1] = 0 /\ \A i \in 2..Window : granted'[c][i] = granted[c][i - 1]
        /\ told'[c] = IF told[c] > 0 THEN told[c] - 1 ELSE told[c]
<1> SUFFICES ASSUME LimitTypes, Second, NEW c \in Clients
             PROVE  /\ bucket'[c] = OlderBucket(bucket[c]) /\ counter'[c] = Shorter(counter[c])
                    /\ granted'[c][1] = 0 /\ \A i \in 2..Window : granted'[c][i] = granted[c][i - 1]
                    /\ told'[c] = IF told[c] > 0 THEN told[c] - 1 ELSE told[c]
  OBVIOUS
<1>1. bucket'[c] = OlderBucket(bucket[c])
  BY DEF Second, OlderBucket
<1>2. counter'[c] = Shorter(counter[c])
  BY DEF Second, Shorter
<1>3. granted'[c][1] = 0 /\ \A i \in 2..Window : granted'[c][i] = granted[c][i - 1]
  <2>1. granted'[c] = [i \in 1..Window |-> IF i = 1 THEN 0 ELSE granted[c][i - 1]]
    BY DEF Second
  <2>2. 1 \in 1..Window /\ \A i \in 2..Window : i \in 1..Window /\ i # 1
    BY RateLimitAssumption
  <2> QED  BY <2>1, <2>2
<1>4. told'[c] = IF told[c] > 0 THEN told[c] - 1 ELSE told[c]
  BY DEF Second
<1> QED  BY <1>1, <1>2, <1>3, <1>4

\* A refusal, client by client.
LEMMA RefuseIs ==
    \A c \in Clients, s \in Nat : LimitTypes /\ Refuse(c, s) =>
        /\ told'[c] = IF s * PerSecond > Window THEN Window ELSE s * PerSecond
        /\ \A d \in Clients \ {c} : told'[d] = told[d]
        /\ told[c] # 0 => refusedEarly' = refusedEarly
<1> SUFFICES ASSUME NEW c \in Clients, NEW s \in Nat, LimitTypes, Refuse(c, s)
             PROVE  /\ told'[c] = IF s * PerSecond > Window THEN Window ELSE s * PerSecond
                    /\ \A d \in Clients \ {c} : told'[d] = told[d]
                    /\ told[c] # 0 => refusedEarly' = refusedEarly
  OBVIOUS
<1>1. told \in [Clients -> Waits]
  BY LimitTypesAre
<1> QED  BY <1>1 DEF Refuse

\* The memory store keeps its books and waits.
LEMMA MemoryStep ==
    LimitTypes /\ LimitTypes' /\ limitMode.store = "memory" /\ MemoryInv /\ [LimitNext]_limitVars
        => MemoryInv'
<1> SUFFICES ASSUME LimitTypes, LimitTypes', limitMode.store = "memory", MemoryInv, [LimitNext]_limitVars
             PROVE  MemoryInv'
  OBVIOUS
<1> USE DEF limitVars, storeVars
<1>0. /\ bucket \in [Clients -> Buckets] /\ granted \in [Clients -> [1..Window -> Nat]]
      /\ told \in [Clients -> Waits] /\ limitFaults \in Nat
      /\ handling \in [Handlers -> {Free} \union Calls]
      /\ bucket' \in [Clients -> Buckets] /\ granted' \in [Clients -> [1..Window -> Nat]]
      /\ told' \in [Clients -> Waits]
  BY LimitTypesAre DEF LimitTypes, Buckets, Waits
<1>n. Limit \in Nat \ {0} /\ Window \in Nat \ {0} /\ PerSecond \in Nat \ {0} /\ Limit * Window \in Nat
  BY RateLimitAssumption
<1>m. /\ \A h \in Handlers : handling[h] = Free
      /\ refusedEarly = {}
      /\ \A c \in Clients :
            /\ MemoryBook(granted[c], bucket[c], 1 + limitFaults)
            /\ told[c] # NoWait => Avail(bucket[c]) + told[c] * Limit >= Window
  BY DEF MemoryInv
<1>f. \A h \in Handlers : handling[h].at = "free"
  BY <1>m DEF Free
<1> DEFINE Kept(c) ==
      /\ MemoryBook(granted'[c], bucket'[c], 1 + limitFaults')
      /\ told'[c] # NoWait => Avail(bucket'[c]) + told'[c] * Limit >= Window
<1>k. ASSUME NEW c \in Clients, bucket'[c] = bucket[c], granted'[c] = granted[c], told'[c] = told[c],
             limitFaults' = limitFaults
      PROVE  Kept(c)
  BY <1>m, <1>k
<1>1. ASSUME NEW c \in Clients, ConsumeMemory(c) PROVE MemoryInv'
  <2> DEFINE units == Avail(bucket[c])
             left == IF units >= Window THEN units - Window ELSE units
             b == [units |-> left, idle |-> 0]
  <2>1. /\ bucket' = [bucket EXCEPT ![c] = b]
        /\ \/ units >= Window /\ Grant(c) /\ Admit(c)
           \/ units < Window /\ Refuse(c, RetryAfter(units)) /\ UNCHANGED granted
        /\ UNCHANGED <<counter, handling, limitFaults, limitMode>>
    BY <1>1 DEF ConsumeMemory, Avail
  <2>2. units \in 0..Limit * Window
    BY <1>0, AvailRange
  <2> HIDE DEF units
  <2>3. left \in 0..Limit * Window
    BY <1>n, <2>2
  <2>4. Avail(b) = left
    BY <2>3, AvailWritten
  <2>5. bucket'[c] = b /\ \A d \in Clients \ {c} : bucket'[d] = bucket[d]
    BY <1>0, <2>1
  <2>6. CASE units >= Window /\ Grant(c) /\ Admit(c)
    <3>1. /\ granted'[c] = [granted[c] EXCEPT ![1] = @ + 1]
          /\ \A d \in Clients \ {c} : granted'[d] = granted[d]
      BY <1>0, <2>6 DEF Grant
    <3>2. told'[c] = NoWait /\ (\A d \in Clients \ {c} : told'[d] = told[d]) /\ refusedEarly' = refusedEarly
      BY <1>0, <2>6 DEF Admit
    <3>3. units = left + Window
      BY <1>n, <2>2, <2>6
    <3>4. MemoryBook([granted[c] EXCEPT ![1] = @ + 1], b, 1 + limitFaults)
      <4>1. granted[c] \in [1..Window -> Nat] /\ bucket[c] \in Buckets /\ 1 + limitFaults \in Nat
        BY <1>0
      <4>2. MemoryBook(granted[c], bucket[c], 1 + limitFaults) /\ Avail(bucket[c]) = left + Window
        BY <1>m, <3>3 DEF units
      <4> HIDE DEF left
      <4> QED  BY <2>3, <4>1, <4>2, BookSpends
    <3>5. Kept(c)
      BY <2>1, <2>5, <3>1, <3>2, <3>4
    <3>6. \A d \in Clients \ {c} : Kept(d)
      BY <1>k, <2>1, <2>5, <3>1, <3>2
    <3>7. \A d \in Clients : Kept(d)
      BY <3>5, <3>6
    <3> QED  BY <1>m, <2>1, <3>2, <3>7 DEF MemoryInv
  <2>7. CASE units < Window /\ Refuse(c, RetryAfter(units)) /\ UNCHANGED granted
    <3> DEFINE s == RetryAfter(units)
    <3>1. units \in Nat
      BY <2>2
    <3>2. s \in Nat /\ s * PerSecond * Limit >= Window - units
      BY <2>7, <3>1, RetryAfterEnough
    <3> HIDE DEF s
    <3>3. /\ told'[c] = IF s * PerSecond > Window THEN Window ELSE s * PerSecond
          /\ \A d \in Clients \ {c} : told'[d] = told[d]
          /\ told[c] # 0 => refusedEarly' = refusedEarly
      BY <2>7, <3>2, RefuseIs DEF s
    <3>4. told[c] # 0
      <4> SUFFICES ASSUME told[c] = 0 PROVE FALSE
        OBVIOUS
      <4>1. units + 0 * Limit >= Window
        BY <1>m DEF units, NoWait
      <4> QED  BY <1>n, <2>7, <3>1, <4>1
    <3>5. Avail(b) = units
      BY <2>4, <2>7, <3>1, <1>n
    <3>6. MemoryBook(granted[c], b, 1 + limitFaults)
      BY <1>m, <3>5 DEF MemoryBook, units
    <3>7. units + told'[c] * Limit >= Window
      <4>1. CASE s * PerSecond > Window
        <5>1. told'[c] * Limit = Window * Limit /\ Window * Limit >= Window
          BY <1>n, <3>3, <4>1
        <5> QED  BY <1>n, <3>1, <5>1
      <4>2. CASE ~(s * PerSecond > Window)
        <5>1. told'[c] * Limit = s * PerSecond * Limit
          BY <3>3, <4>2
        <5>2. s * PerSecond * Limit \in Nat
          <6>1. s * PerSecond \in Nat
            BY <1>n, <3>2, TimesMonotone
          <6> QED  BY <1>n, <6>1, TimesMonotone
        <5> QED  BY <1>n, <3>1, <3>2, <5>1, <5>2
      <4> QED  BY <4>1, <4>2
    <3>8. Kept(c)
      <4>1. MemoryBook(granted'[c], bucket'[c], 1 + limitFaults')
        BY <2>1, <2>5, <2>7, <3>6
      <4>2. Avail(bucket'[c]) = units
        BY <2>5, <3>5
      <4> QED  BY <3>7, <4>1, <4>2
    <3>9. \A d \in Clients \ {c} : Kept(d)
      BY <1>k, <2>1, <2>5, <2>7, <3>3
    <3>10. \A d \in Clients : Kept(d)
      BY <3>8, <3>9
    <3> QED  BY <1>m, <2>1, <3>3, <3>4, <3>10 DEF MemoryInv
  <2> QED  BY <2>1, <2>6, <2>7
<1>2. ASSUME NEW h \in Handlers, (\E c \in Clients : Incr(h, c)) \/ Expire(h) \/ ReadTtl(h) \/ RedisFails(h)
      PROVE  FALSE
  BY <1>2, <1>m, <1>f DEF Incr, Expire, ReadTtl, RedisFails
<1>3. ASSUME Second PROVE MemoryInv'
  <2>1. ASSUME NEW c \in Clients PROVE Kept(c)
    <3> DEFINE b == bucket[c]
               a == Avail(b)
               a2 == Avail(OlderBucket(b))
    <3>1. /\ bucket'[c] = OlderBucket(b)
          /\ granted'[c][1] = 0 /\ \A i \in 2..Window : granted'[c][i] = granted[c][i - 1]
          /\ told'[c] = IF told[c] > 0 THEN told[c] - 1 ELSE told[c]
      BY <1>3, SecondIs
    <3>2. b \in Buckets
      BY <1>0
    <3>3. OlderBucket(b) \in Buckets /\ a <= a2 /\ a2 <= a + Limit /\ (a2 = Limit * Window \/ a2 = a + Limit)
      BY <3>2, AvailAges
    <3>4. a \in Nat /\ a2 \in Nat
      <4>1. a \in 0..Limit * Window /\ a2 \in 0..Limit * Window
        BY <3>2, <3>3, AvailRange
      <4> QED  BY <4>1
    <3>5. MemoryBook(granted'[c], OlderBucket(b), 1 + limitFaults)
      <4>1. granted[c] \in [1..Window -> Nat] /\ granted'[c] \in [1..Window -> Nat]
            /\ 1 + limitFaults \in Nat /\ 1 + limitFaults >= 1
        BY <1>0
      <4>2. MemoryBook(granted[c], b, 1 + limitFaults)
        BY <1>m
      <4> QED  BY <3>1, <3>2, <3>3, <4>1, <4>2, BookAges
    <3>6. MemoryBook(granted'[c], bucket'[c], 1 + limitFaults')
      BY <1>3, <3>1, <3>5 DEF Second
    <3>7. ASSUME told'[c] # NoWait PROVE a2 + told'[c] * Limit >= Window
      <4>1. told[c] \in Nat /\ a + told[c] * Limit >= Window
        BY <1>0, <1>m, <3>1, <3>7 DEF Waits, NoWait
      <4> HIDE DEF a, a2
      <4>2. CASE a2 = Limit * Window
        <5>1. told'[c] \in Nat
          BY <3>1, <4>1
        <5>2. told'[c] * Limit \in Nat
          BY <1>n, <5>1, TimesMonotone
        <5>3. Limit * Window >= Window
          BY <1>n
        <5> QED  BY <1>n, <4>2, <5>2, <5>3
      <4>3. CASE a2 = a + Limit /\ told[c] > 0
        <5>1. told'[c] * Limit = told[c] * Limit - Limit
          BY <1>n, <3>1, <4>1, <4>3
        <5>2. told[c] * Limit \in Nat
          BY <1>n, <4>1, TimesMonotone
        <5> QED  BY <1>n, <3>4, <4>1, <4>3, <5>1, <5>2
      <4>4. CASE told[c] = 0
        <5>1. told'[c] = told[c] /\ told[c] * Limit = 0
          BY <1>n, <3>1, <4>4
        <5>2. a >= Window
          BY <1>n, <3>4, <4>1, <5>1
        <5> QED  BY <1>n, <3>3, <3>4, <4>4, <5>1, <5>2
      <4> QED  BY <3>3, <4>1, <4>2, <4>3, <4>4
    <3> QED  BY <3>1, <3>6, <3>7
  <2> QED  BY <1>3, <1>m, <2>1 DEF MemoryInv, Second
<1>4. ASSUME RestartLimiter PROVE MemoryInv'
  <2>1. ASSUME NEW c \in Clients PROVE Kept(c)
    <3>1. bucket'[c] = NoBucket /\ granted'[c] = granted[c] /\ told'[c] = told[c]
          /\ 1 + limitFaults' = (1 + limitFaults) + 1
      BY <1>0, <1>4 DEF RestartLimiter
    <3>2. MemoryBook(granted[c], NoBucket, (1 + limitFaults) + 1)
      <4>1. granted[c] \in [1..Window -> Nat] /\ bucket[c] \in Buckets /\ 1 + limitFaults \in Nat
        BY <1>0
      <4>2. MemoryBook(granted[c], bucket[c], 1 + limitFaults)
        BY <1>m
      <4> QED  BY <4>1, <4>2, BookRestarts
    <3>3. told'[c] # NoWait => Avail(bucket'[c]) + told'[c] * Limit >= Window
      <4> SUFFICES ASSUME told'[c] # NoWait PROVE Avail(bucket'[c]) + told'[c] * Limit >= Window
        OBVIOUS
      <4>1. Avail(bucket'[c]) = Limit * Window /\ Limit * Window >= Window
        BY <1>n, <3>1 DEF Avail
      <4>2. told'[c] \in Nat
        BY <1>0 DEF Waits
      <4>3. told'[c] * Limit \in Nat
        BY <1>n, <4>2, TimesMonotone
      <4> QED  BY <1>n, <4>1, <4>3
    <3> QED  BY <3>1, <3>2, <3>3
  <2> QED  BY <1>4, <1>m, <2>1 DEF MemoryInv, RestartLimiter
<1>5. ASSUME UNCHANGED limitVars PROVE MemoryInv'
  BY <1>5 DEF MemoryInv
<1> QED  BY <1>1, <1>2, <1>3, <1>4, <1>5 DEF LimitNext

\* The Redis store keeps its books, whatever overlaps and whatever fails.
LEMMA RedisStep ==
    LimitTypes /\ LimitTypes' /\ limitMode.store = "redis" /\ RedisInv /\ [LimitNext]_limitVars
        => RedisInv'
<1> SUFFICES ASSUME LimitTypes, LimitTypes', limitMode.store = "redis", RedisInv, [LimitNext]_limitVars
             PROVE  RedisInv'
  OBVIOUS
<1> USE DEF limitVars, storeVars
<1>0. /\ counter \in [Clients -> Counts] /\ granted \in [Clients -> [1..Window -> Nat]]
      /\ handling \in [Handlers -> {Free} \union Calls]
      /\ counter' \in [Clients -> Counts] /\ granted' \in [Clients -> [1..Window -> Nat]]
  BY LimitTypesAre DEF LimitTypes, Counts
<1>b. \A c \in Clients : RedisBook(granted[c], counter[c])
  BY DEF RedisInv
<1>1. ASSUME NEW c \in Clients, ConsumeMemory(c) PROVE RedisInv'
  BY <1>1 DEF ConsumeMemory
<1>2. ASSUME NEW h \in Handlers, NEW c \in Clients, Incr(h, c) PROVE RedisInv'
  <2> DEFINE k == counter[c]
             n == IF k.count > Limit THEN Limit + 1 ELSE k.count + 1
             k2 == [k EXCEPT !.count = n]
  <2>1. /\ counter' = [counter EXCEPT ![c] = k2]
        /\ \/ n <= Limit /\ Grant(c)
           \/ n > Limit /\ UNCHANGED granted
    BY <1>2 DEF Incr
  <2>2. k \in Counts /\ counter'[c] = k2 /\ \A d \in Clients \ {c} : counter'[d] = counter[d]
    BY <1>0, <2>1
  <2>3. k2 \in Counts
    BY <1>0, <2>2, SMTT(30)
  <2>4. k.count \in 0..Limit + 1 /\ Limit \in Nat
    BY <2>2, RateLimitAssumption DEF Counts
  <2>5. k2.count = n /\ k2.left = k.left
    BY <2>2 DEF Counts
  <2>6. n >= k.count /\ (n <= Limit => n = k.count + 1)
    BY <2>4
  <2> HIDE DEF n, k2
  <2>7. /\ RedisBook(granted[c], k2)
        /\ n <= Limit => RedisBook([granted[c] EXCEPT ![1] = @ + 1], k2)
    <3>1. granted[c] \in [1..Window -> Nat] /\ RedisBook(granted[c], k)
      BY <1>0, <1>b
    <3>2. k2.left = k.left /\ k2.count >= k.count /\ (n <= Limit => k2.count = k.count + 1 /\ k2.count <= Limit)
      BY <2>5, <2>6
    <3> QED  BY <2>2, <2>3, <3>1, <3>2, BookCounts
  <2>8. RedisBook(granted'[c], counter'[c]) /\ \A d \in Clients \ {c} : granted'[d] = granted[d]
    <3>1. CASE n <= Limit /\ Grant(c)
      <4>1. granted'[c] = [granted[c] EXCEPT ![1] = @ + 1]
        BY <1>0, <3>1 DEF Grant
      <4>2. \A d \in Clients \ {c} : granted'[d] = granted[d]
        BY <1>0, <3>1 DEF Grant
      <4> QED  BY <2>2, <2>7, <3>1, <4>1, <4>2
    <3>2. CASE UNCHANGED granted
      BY <2>2, <2>7, <3>2
    <3> QED  BY <2>1, <3>1, <3>2
  <2>9. \A d \in Clients : RedisBook(granted'[d], counter'[d])
    BY <1>b, <2>2, <2>8
  <2> QED  BY <2>9 DEF RedisInv
<1>3. ASSUME NEW h \in Handlers, Expire(h) PROVE RedisInv'
  <2> DEFINE c == handling[h].client
  <2>1. c \in Clients
    BY <1>0, <1>3, Busy DEF Expire, Calls
  <2>2. /\ counter' = counter \/ counter' = [counter EXCEPT ![c] = [counter[c] EXCEPT !.left = Window]]
        /\ granted' = granted
    BY <1>3 DEF Expire
  <2> HIDE DEF c
  <2>3. RedisBook(granted[c], [counter[c] EXCEPT !.left = Window])
    BY <1>0, <1>b, <2>1, BookExpires
  <2>4. ASSUME NEW d \in Clients PROVE RedisBook(granted'[d], counter'[d])
    <3>1. CASE d = c
      BY <1>0, <1>b, <2>1, <2>2, <2>3, <3>1
    <3>2. CASE d # c
      BY <1>0, <1>b, <2>2, <3>2
    <3> QED  BY <3>1, <3>2
  <2> QED  BY <2>4 DEF RedisInv
<1>4. ASSUME NEW h \in Handlers, ReadTtl(h) \/ RedisFails(h) PROVE RedisInv'
  BY <1>4 DEF ReadTtl, RedisFails, RedisInv
<1>5. ASSUME Second PROVE RedisInv'
  <2>1. ASSUME NEW c \in Clients PROVE RedisBook(granted'[c], counter'[c])
    <3>1. counter'[c] = Shorter(counter[c]) /\ granted'[c][1] = 0
          /\ \A i \in 2..Window : granted'[c][i] = granted[c][i - 1]
      BY <1>5, SecondIs
    <3>2. /\ granted[c] \in [1..Window -> Nat] /\ granted'[c] \in [1..Window -> Nat] /\ counter[c] \in Counts
          /\ RedisBook(granted[c], counter[c])
      BY <1>0, <1>b
    <3>3. RedisBook(granted'[c], Shorter(counter[c]))
      BY <3>1, <3>2, BookShortens
    <3> QED  BY <3>1, <3>3
  <2> QED  BY <2>1 DEF RedisInv
<1>6. ASSUME RestartLimiter \/ UNCHANGED limitVars PROVE RedisInv'
  BY <1>6 DEF RestartLimiter, RedisInv
<1> QED  BY <1>1, <1>2, <1>3, <1>4, <1>5, <1>6 DEF LimitNext

\* While requests do not overlap and no command fails, every counter in use has
\* its life before the next request, and no wait told is too short by more than
\* half a second.
LEMMA CalmStep ==
    LimitTypes /\ LimitTypes' /\ limitMode.store = "redis" /\ Calm /\ CalmInv /\ [LimitNext]_limitVars
        => CalmInv'
<1> SUFFICES ASSUME LimitTypes, LimitTypes', limitMode.store = "redis", Calm, CalmInv, [LimitNext]_limitVars
             PROVE  CalmInv'
  OBVIOUS
<1> USE DEF limitVars, storeVars
<1>0. /\ counter \in [Clients -> Counts] /\ told \in [Clients -> Waits]
      /\ handling \in [Handlers -> {Free} \union Calls]
      /\ counter' \in [Clients -> Counts] /\ told' \in [Clients -> Waits]
      /\ handling' \in [Handlers -> {Free} \union Calls]
  BY LimitTypesAre DEF LimitTypes, Counts, Waits, Calls
<1>n. Limit \in Nat \ {0} /\ Window \in Nat \ {0} /\ PerSecond \in Nat \ {0}
  BY RateLimitAssumption
<1>h. \A h \in Handlers : /\ handling[h] = Free \/ (handling[h] \in Calls /\ handling[h] # Free)
                          /\ handling[h].at = "free" <=> handling[h] = Free
                          /\ handling'[h].at = "free" <=> handling'[h] = Free
  BY <1>0, Busy
<1>a. /\ \A g, h \in Handlers : handling[g] # Free /\ handling[h] # Free => g = h
      /\ \A h \in Handlers : handling[h].at = "expire" =>
            handling[h].count = 1 /\ counter[handling[h].client].count # 0
      /\ \A c \in Clients : HasItsLife(c) /\ WaitHolds(c)
  BY DEF CalmInv
<1> DEFINE One == \A g, h \in Handlers : handling'[g] # Free /\ handling'[h] # Free => g = h
           First == \A h \in Handlers : handling'[h].at = "expire" =>
                       handling'[h].count = 1 /\ counter'[handling'[h].client].count # 0
<1>1. ASSUME NEW c \in Clients, ConsumeMemory(c) PROVE CalmInv'
  BY <1>1 DEF ConsumeMemory
<1>2. ASSUME NEW h \in Handlers, NEW c \in Clients, Incr(h, c) PROVE CalmInv'
  <2> DEFINE k == counter[c]
             n == IF k.count > Limit THEN Limit + 1 ELSE k.count + 1
             k2 == [k EXCEPT !.count = n]
             r == [at |-> IF n = 1 THEN "expire" ELSE "ttl", client |-> c, count |-> n]
  <2>1. /\ counter' = [counter EXCEPT ![c] = k2] /\ handling' = [handling EXCEPT ![h] = r]
        /\ \A g \in Handlers : handling[g] = Free
        /\ UNCHANGED told
    BY <1>2 DEF Incr, Alone, Calm
  <2>2. k \in Counts /\ counter'[c] = k2 /\ \A d \in Clients \ {c} : counter'[d] = counter[d]
    BY <1>0, <2>1
  <2>3. handling'[h] = r /\ \A g \in Handlers \ {h} : handling'[g] = Free
    BY <1>0, <2>1
  <2>4. k2.count = n /\ k2.left = k.left /\ n \in Nat \ {0} /\ (k.count = 0 => n = 1)
    BY <1>n, <2>2 DEF Counts
  <2>5. r.client = c /\ r.count = n /\ r.at = (IF n = 1 THEN "expire" ELSE "ttl") /\ r # Free
    BY DEF Free
  <2>6. handling'[h].client = c /\ handling'[h].count = n /\ handling'[h] # Free
        /\ (handling'[h].at = "expire" <=> n = 1)
    BY <2>3, <2>5
  <2> HIDE DEF n, k2, r
  <2>7. One
    BY <2>3
  <2>8. First
    <3> SUFFICES ASSUME NEW g \in Handlers, handling'[g].at = "expire"
                 PROVE  handling'[g].count = 1 /\ counter'[handling'[g].client].count # 0
      OBVIOUS
    <3>1. g = h
      BY <2>3 DEF Free
    <3> QED  BY <2>2, <2>4, <2>6, <3>1
  <2>9. ASSUME NEW d \in Clients PROVE HasItsLife(d)'
    <3>1. CASE d # c
      <4>1. counter[d] = Gone \/ counter[d].left # Forever
        BY <1>a, <2>1 DEF HasItsLife, Free
      <4> QED  BY <2>2, <3>1, <4>1 DEF HasItsLife
    <3>2. CASE d = c
      <4>1. k = Gone \/ k.left # Forever
        BY <1>a, <2>1 DEF HasItsLife, Free
      <4>2. CASE k = Gone
        <5>1. n = 1
          BY <2>4, <4>2 DEF Gone
        <5> QED  BY <2>6, <3>2, <5>1 DEF HasItsLife
      <4>3. CASE k.left # Forever
        BY <2>2, <2>4, <3>2, <4>3 DEF HasItsLife
      <4> QED  BY <4>1, <4>2, <4>3
    <3> QED  BY <3>1, <3>2
  <2>10. ASSUME NEW d \in Clients PROVE WaitHolds(d)'
    <3>1. \/ told[d] = NoWait
          \/ counter[d] = Gone
          \/ counter[d].left # Forever /\ 2 * counter[d].left <= 2 * told[d] + PerSecond
      BY <1>a, <2>1 DEF WaitHolds
    <3>2. CASE d # c
      <4>1. counter'[d] = counter[d] /\ told'[d] = told[d]
        BY <2>1, <2>2, <3>2
      <4> QED  BY <3>1, <4>1 DEF WaitHolds
    <3>3. CASE d = c /\ k = Gone
      <4>1. handling'[h].count <= Limit
        BY <1>n, <2>4, <2>6, <3>3 DEF Gone
      <4> QED  BY <2>6, <3>3, <4>1 DEF WaitHolds
    <3>4. CASE d = c /\ k # Gone
      <4>1. counter'[d].left = counter[d].left /\ told'[d] = told[d]
        BY <2>1, <2>2, <2>4, <3>4
      <4> QED  BY <3>1, <3>4, <4>1 DEF WaitHolds
    <3> QED  BY <3>2, <3>3, <3>4
  <2> QED  BY <2>7, <2>8, <2>9, <2>10 DEF CalmInv
<1>3. ASSUME NEW h \in Handlers, Expire(h) PROVE CalmInv'
  <2> DEFINE c == handling[h].client
             r == [handling[h] EXCEPT !.at = "ttl"]
             k2 == [counter[c] EXCEPT !.left = Window]
  <2>1. handling[h].at = "expire" /\ handling[h] \in Calls /\ handling[h] # Free
    BY <1>h, <1>3 DEF Expire
  <2>2. c \in Clients /\ handling[h].count = 1 /\ counter[c].count # 0
    BY <1>a, <2>1 DEF Calls
  <2>3. /\ counter' = [counter EXCEPT ![c] = k2] /\ handling' = [handling EXCEPT ![h] = r]
        /\ UNCHANGED told
    BY <1>3, <2>2 DEF Expire
  <2>4. \A g \in Handlers \ {h} : handling[g] = Free
    BY <1>a, <2>1
  <2>5. r.at = "ttl" /\ r.client = c /\ r.count = 1 /\ r # Free
    BY <2>1, <2>2 DEF Calls, Free
  <2>6. handling'[h] = r /\ \A g \in Handlers \ {h} : handling'[g] = Free
    BY <1>0, <2>3, <2>4
  <2>7. k2.count = counter[c].count /\ k2.left = Window
    BY <1>0, <2>2 DEF Counts
  <2>8. counter'[c] = k2 /\ \A d \in Clients \ {c} : counter'[d] = counter[d]
    BY <1>0, <2>2, <2>3
  <2> HIDE DEF c, r, k2
  <2>9. One
    BY <2>6
  <2>10. First
    <3> SUFFICES ASSUME NEW g \in Handlers, handling'[g].at = "expire" PROVE FALSE
      OBVIOUS
    <3>1. CASE g = h
      BY <2>5, <2>6, <3>1
    <3>2. CASE g # h
      BY <2>6, <3>2 DEF Free
    <3> QED  BY <3>1, <3>2
  <2>11. ASSUME NEW d \in Clients PROVE HasItsLife(d)'
    <3>1. CASE d = c
      BY <1>n, <2>7, <2>8, <3>1 DEF HasItsLife, Forever
    <3>2. CASE d # c
      <4>1. counter[d] = Gone \/ counter[d].left # Forever
        <5>1. \A g \in Handlers : handling[g].at = "expire" => g = h
          BY <2>4 DEF Free
        <5> QED  BY <1>a, <3>2, <5>1 DEF HasItsLife, c
      <4> QED  BY <2>8, <3>2, <4>1 DEF HasItsLife
    <3> QED  BY <3>1, <3>2
  <2>12. ASSUME NEW d \in Clients PROVE WaitHolds(d)'
    <3>1. CASE d = c
      <4>1. handling'[h] # Free /\ handling'[h].client = d /\ handling'[h].count <= Limit
        BY <1>n, <2>5, <2>6, <3>1
      <4> QED  BY <4>1 DEF WaitHolds
    <3>2. CASE d # c
      <4>1. \/ told[d] = NoWait
            \/ counter[d] = Gone
            \/ counter[d].left # Forever /\ 2 * counter[d].left <= 2 * told[d] + PerSecond
        BY <1>a, <2>4, <3>2 DEF WaitHolds, c
      <4>2. counter'[d] = counter[d] /\ told'[d] = told[d]
        BY <2>3, <2>8, <3>2
      <4> QED  BY <4>1, <4>2 DEF WaitHolds
    <3> QED  BY <3>1, <3>2
  <2> QED  BY <2>9, <2>10, <2>11, <2>12 DEF CalmInv
<1>4. ASSUME NEW h \in Handlers, ReadTtl(h) PROVE CalmInv'
  <2> DEFINE c == handling[h].client
             s == TtlSeconds(c)
             w == IF s < 1 THEN 1 ELSE s
  <2>1. handling[h].at = "ttl" /\ handling[h] \in Calls /\ handling[h] # Free
    BY <1>h, <1>4 DEF ReadTtl
  <2>2. c \in Clients
    BY <2>1 DEF Calls
  <2>3. /\ \/ handling[h].count <= Limit /\ Admit(c)
           \/ handling[h].count > Limit /\ Refuse(c, w)
        /\ handling' = [handling EXCEPT ![h] = Free] /\ UNCHANGED counter
    BY <1>4 DEF ReadTtl
  <2>4. \A g \in Handlers : handling'[g] = Free
    BY <1>0, <1>a, <2>1, <2>3
  <2>5. One /\ First
    BY <2>4 DEF Free
  <2>6. \A d \in Clients : counter[d] = Gone \/ counter[d].left # Forever
    <3>1. \A g \in Handlers : handling[g].at # "expire"
      <4>1. \A g \in Handlers \ {h} : handling[g] = Free
        BY <1>a, <2>1
      <4> QED  BY <2>1, <4>1 DEF Free
    <3> QED  BY <1>a, <3>1 DEF HasItsLife
  <2>7. ASSUME NEW d \in Clients PROVE HasItsLife(d)'
    BY <2>3, <2>6 DEF HasItsLife
  <2>8. s \in Int /\ (counter[c].left # Forever => 2 * counter[c].left <= 2 * (s * PerSecond) + PerSecond)
    BY <1>0, <2>2, TtlTypes
  <2> HIDE DEF s
  <2>9. w \in Nat /\ w >= s
    BY <2>8
  <2>10. ASSUME NEW d \in Clients PROVE WaitHolds(d)'
    <3>1. CASE d # c
      <4>1. \/ told[d] = NoWait
            \/ counter[d] = Gone
            \/ counter[d].left # Forever /\ 2 * counter[d].left <= 2 * told[d] + PerSecond
        BY <1>a, <2>1, <3>1 DEF WaitHolds
      <4>2. told'[d] = told[d]
        <5>1. CASE Admit(c)
          BY <1>0, <3>1, <5>1 DEF Admit
        <5>2. CASE Refuse(c, w)
          BY <2>2, <2>9, <3>1, <5>2, RefuseIs
        <5> QED  BY <2>3, <5>1, <5>2
      <4> QED  BY <2>3, <4>1, <4>2 DEF WaitHolds
    <3>2. CASE d = c /\ Admit(c)
      <4>1. told'[d] = NoWait
        BY <1>0, <3>2 DEF Admit
      <4> QED  BY <4>1 DEF WaitHolds
    <3>3. CASE d = c /\ Refuse(c, w) /\ counter[c].left # Forever
      <4> DEFINE wait == w * PerSecond
                 left == counter[c].left
                 told2 == told'[c]
      <4>1. told2 = IF wait > Window THEN Window ELSE wait
        BY <2>2, <2>9, <3>3, RefuseIs
      <4>2. s * PerSecond <= wait /\ s * PerSecond \in Int /\ wait \in Nat
        BY <1>n, <2>8, <2>9
      <4>3. left \in 1..Window
        BY <1>0, <2>2, <3>3 DEF Counts
      <4>4. 2 * left <= 2 * (s * PerSecond) + PerSecond
        BY <2>8, <3>3
      <4> DEFINE sp == s * PerSecond
      <4> HIDE DEF wait, left, told2, w, sp
      <4>5. 2 * left <= 2 * told2 + PerSecond
        <5>1. sp <= wait /\ sp \in Int /\ 2 * left <= 2 * sp + PerSecond
          BY <4>2, <4>4 DEF sp
        <5> QED  BY <1>n, <4>1, <4>2, <4>3, <5>1
      <4>6. counter'[c].left # Forever /\ 2 * counter'[c].left <= 2 * told'[c] + PerSecond
        BY <2>3, <3>3, <4>5 DEF left, told2
      <4> QED  BY <3>3, <4>6 DEF WaitHolds
    <3>4. CASE d = c /\ counter[c].left = Forever
      BY <2>2, <2>3, <2>6, <3>4 DEF WaitHolds
    <3> QED  BY <2>3, <3>1, <3>2, <3>3, <3>4
  <2> QED  BY <2>5, <2>7, <2>10 DEF CalmInv
<1>5. ASSUME NEW h \in Handlers, RedisFails(h) PROVE CalmInv'
  BY <1>5 DEF RedisFails, Calm
<1>6. ASSUME Second PROVE CalmInv'
  <2>1. (\A h \in Handlers : handling[h] = Free) /\ handling' = handling
    BY <1>6 DEF Second, Calm
  <2>2. One /\ First
    BY <2>1 DEF Free
  <2>3. ASSUME NEW c \in Clients PROVE HasItsLife(c)' /\ WaitHolds(c)'
    <3> DEFINE k == counter[c]
    <3>1. /\ counter'[c] = Shorter(k)
          /\ told'[c] = IF told[c] > 0 THEN told[c] - 1 ELSE told[c]
      BY <1>6, SecondIs
    <3>2. k = Gone \/ k.left # Forever
      BY <1>a, <2>1 DEF HasItsLife, Free
    <3>3. \/ told[c] = NoWait
          \/ k = Gone
          \/ k.left # Forever /\ 2 * k.left <= 2 * told[c] + PerSecond
      BY <1>a, <2>1 DEF WaitHolds
    <3>4. k \in Counts /\ told[c] \in Waits
      BY <1>0
    <3>5. CASE k.left = Forever
      <4>1. counter'[c] = Gone
        BY <3>1, <3>2, <3>5 DEF Shorter, Forever
      <4> QED  BY <4>1 DEF HasItsLife, WaitHolds
    <3>6. CASE k.left = 1
      <4>1. counter'[c] = Gone
        BY <3>1, <3>6 DEF Shorter, Forever
      <4> QED  BY <4>1 DEF HasItsLife, WaitHolds
    <3>7. CASE k.left \notin {Forever, 1}
      <4>1. counter'[c] = [k EXCEPT !.left = @ - 1]
        BY <3>1, <3>7 DEF Shorter
      <4>2. counter'[c].left = k.left - 1 /\ k.left \in 2..Window
        BY <1>n, <3>4, <3>7, <4>1 DEF Counts
      <4>3. counter'[c].left # Forever
        BY <1>n, <4>2 DEF Forever
      <4>4. told[c] # NoWait => 2 * k.left <= 2 * told[c] + PerSecond /\ told[c] \in Nat
        BY <3>3, <3>4, <3>7 DEF Gone, Waits
      <4>5. told'[c] # NoWait => 2 * counter'[c].left <= 2 * told'[c] + PerSecond
        <5> SUFFICES ASSUME told'[c] # NoWait PROVE 2 * counter'[c].left <= 2 * told'[c] + PerSecond
          OBVIOUS
        <5>1. told[c] # NoWait
          BY <3>1 DEF NoWait
        <5> QED  BY <1>n, <3>1, <4>2, <4>4, <5>1
      <4> QED  BY <4>3, <4>5 DEF HasItsLife, WaitHolds
    <3> QED  BY <3>5, <3>6, <3>7
  <2> QED  BY <2>2, <2>3 DEF CalmInv
<1>7. ASSUME RestartLimiter PROVE CalmInv'
  BY <1>7 DEF RestartLimiter, Calm
<1>8. ASSUME UNCHANGED limitVars PROVE CalmInv'
  BY <1>8, <1>a DEF CalmInv, HasItsLife, WaitHolds
<1> QED  BY <1>1, <1>2, <1>3, <1>4, <1>5, <1>6, <1>7, <1>8 DEF LimitNext

\* The invariant holds at first.
LEMMA LimitStart == LimitInit => LimitInv
<1> SUFFICES ASSUME LimitInit PROVE LimitInv
  OBVIOUS
<1> DEFINE none == [i \in 1..Window |-> 0]
<1>0. Limit \in Nat \ {0} /\ Window \in Nat \ {0}
  BY RateLimitAssumption
<1>1. LimitTypes
  BY LimitTypesStart
<1>2. /\ \A c \in Clients : bucket[c] = NoBucket /\ counter[c] = Gone /\ granted[c] = none /\ told[c] = NoWait
      /\ \A h \in Handlers : handling[h] = Free
      /\ refusedEarly = {} /\ limitFaults = 0
  BY DEF LimitInit
<1>3. none \in [1..Window -> Nat]
  OBVIOUS
<1>4. \A ticks \in SUBSET (1..Window) : Cardinality(GrantsOf(none, ticks)) = 0
  <2> SUFFICES ASSUME NEW ticks \in SUBSET (1..Window) PROVE Cardinality(GrantsOf(none, ticks)) = 0
    OBVIOUS
  <2>1. GrantsOf(none, ticks) = {}
    <3> SUFFICES ASSUME NEW p \in GrantsOf(none, ticks) PROVE FALSE
      OBVIOUS
    <3>1. PICK i \in ticks : \E n \in 1..none[i] : p = <<i, n>>
      BY DEF GrantsOf
    <3>2. i \in 1..Window
      <4>1. ticks \subseteq 1..Window
        OBVIOUS
      <4> QED  BY <4>1, Zenon
    <3> QED  BY <3>1, <3>2
  <2> QED  BY <2>1, FS_EmptySet
<1> HIDE DEF none
<1>5. MemoryInv
  <2>1. MemoryBook(none, NoBucket, 1 + 0)
    <3> SUFFICES ASSUME NEW k \in 1..Window
                 PROVE  Window * Cardinality(GrantsOf(none, 1..k)) + Avail(NoBucket)
                           <= Limit * Window * (1 + 0) + (k - 1) * Limit
      BY DEF MemoryBook
    <3>1. 1..k \in SUBSET (1..Window) /\ k - 1 \in Nat
      BY <1>0
    <3>2. Cardinality(GrantsOf(none, 1..k)) = 0
      BY <1>4, <3>1
    <3>3. Window * Cardinality(GrantsOf(none, 1..k)) = 0
      BY <1>0, <3>2
    <3>4. (k - 1) * Limit \in Nat /\ Limit * Window \in Nat /\ Limit * Window * (1 + 0) = Limit * Window
      BY <1>0, <3>1, TimesMonotone
    <3> QED  BY <3>3, <3>4 DEF Avail
  <2> QED  BY <1>2, <2>1 DEF MemoryInv
<1>6. RedisInv
  <2>1. RedisBook(none, Gone)
    <3>1. /\ 1..1 \in SUBSET (1..Window) /\ (1 + 1)..Window \in SUBSET (1..Window) /\ 1 \in 1..Window
          /\ Gone.count = 0 /\ Gone.left = Forever
      BY <1>0 DEF Gone
    <3>2. /\ Cardinality(GrantsOf(none, 1..1)) = 0
          /\ Cardinality(GrantsOf(none, (1 + 1)..Window)) = 0
      BY <1>4, <3>1
    <3>3. /\ Cardinality(GrantsOf(none, 1..1)) <= Gone.count /\ Cardinality(GrantsOf(none, 1..1)) <= Limit
          /\ Cardinality(GrantsOf(none, (1 + 1)..Window)) <= Limit
      BY <1>0, <3>1, <3>2
    <3> QED  BY <3>1, <3>3 DEF RedisBook
  <2> QED  BY <1>2, <2>1 DEF RedisInv
<1>7. CalmInv
  BY <1>2 DEF CalmInv, HasItsLife, WaitHolds, Free
<1> QED  BY <1>1, <1>5, <1>6, <1>7 DEF LimitInv

\* It holds for ever.
LEMMA LimitStep == LimitInv /\ [LimitNext]_limitVars => LimitInv'
<1> SUFFICES ASSUME LimitInv, [LimitNext]_limitVars PROVE LimitInv'
  OBVIOUS
<1>1. LimitTypes /\ LimitTypes'
  BY LimitTypesStep DEF LimitInv
<1>2. limitMode' = limitMode
  BY DEF LimitNext, limitVars, ConsumeMemory, Incr, Expire, ReadTtl, RedisFails, Second, RestartLimiter
<1>3. limitMode.store = "memory" => MemoryInv'
  BY <1>1, MemoryStep DEF LimitInv
<1>4. limitMode.store = "redis" => RedisInv'
  BY <1>1, RedisStep DEF LimitInv
<1>5. limitMode.store = "redis" /\ Calm => CalmInv'
  BY <1>1, CalmStep DEF LimitInv
<1>6. Calm' <=> Calm
  BY <1>2 DEF Calm
<1> QED  BY <1>1, <1>2, <1>3, <1>4, <1>5, <1>6 DEF LimitInv

\* It keeps both promises.
LEMMA LimitKeeps == LimitInv => LimiterKeepsItsWord
<1> SUFFICES ASSUME LimitInv PROVE LimiterKeepsItsWord
  OBVIOUS
<1>0. /\ bucket \in [Clients -> Buckets] /\ counter \in [Clients -> Counts]
      /\ granted \in [Clients -> [1..Window -> Nat]] /\ limitFaults \in Nat /\ limitMode \in LimitModes
      /\ Limit \in Nat
  BY LimitTypesAre, RateLimitAssumption DEF LimitInv
<1>1. limitMode.store \in {"memory", "redis"}
  BY <1>0, RateLimitAssumption
<1>2. AdmitsAtMostTwice
  <2> SUFFICES ASSUME NEW c \in Clients
               PROVE  Cardinality(GrantsOf(granted[c], 1..Window))
                         <= Limit * (2 + IF limitMode.store = "memory" THEN limitFaults ELSE 0)
    BY DEF AdmitsAtMostTwice, Granted
  <2>1. CASE limitMode.store = "memory"
    <3>1. MemoryBook(granted[c], bucket[c], 1 + limitFaults)
      BY <2>1 DEF LimitInv, MemoryInv
    <3>2. Cardinality(GrantsOf(granted[c], 1..Window)) <= Limit * ((1 + limitFaults) + 1)
      <4>1. granted[c] \in [1..Window -> Nat] /\ bucket[c] \in Buckets /\ 1 + limitFaults \in Nat
        BY <1>0
      <4> QED  BY <3>1, <4>1, BookPromises
    <3>3. (1 + limitFaults) + 1 = 2 + limitFaults
      BY <1>0
    <3> QED  BY <2>1, <3>2, <3>3
  <2>2. CASE limitMode.store = "redis"
    <3>1. RedisBook(granted[c], counter[c])
      BY <2>2 DEF LimitInv, RedisInv
    <3>2. Cardinality(GrantsOf(granted[c], 1..Window)) <= Limit * 2
      BY <1>0, <3>1, RedisBookPromises
    <3>3. 2 + 0 = 2
      OBVIOUS
    <3> QED  BY <2>2, <3>2, <3>3
  <2> QED  BY <1>1, <2>1, <2>2
<1>3. RetryAfterIsEnough
  <2>1. limitMode.store = "memory" => refusedEarly = {}
    BY DEF LimitInv, MemoryInv
  <2>2. ASSUME limitMode.store = "redis", ~(limitMode.overlap \/ limitMode.faults), NEW c \in Clients,
               \A h \in Handlers : handling[h] = Free, told[c] # NoWait
        PROVE  \/ counter[c] = Gone
               \/ counter[c].left # Forever /\ 2 * counter[c].left <= 2 * told[c] + PerSecond
    BY <2>2 DEF LimitInv, Calm, CalmInv, WaitHolds
  <2> QED  BY <2>1, <2>2 DEF RetryAfterIsEnough
<1> QED  BY <1>2, <1>3 DEF LimiterKeepsItsWord

\* No client is granted more than twice its limit in a window, once more for each
\* restart of a process that keeps its own buckets, whichever store, overlap or
\* failing command; and a client that waits as long as the 429 says is not refused
\* again by the memory store, nor half a second later by Redis, the latter only
\* without overlap and failing commands.  For every limit, window and resolution.
THEOREM TheLimiterKeepsItsWord == LimitSpec => []LimiterKeepsItsWord
<1> QED  BY LimitStart, LimitStep, LimitKeeps, PTL DEF LimitSpec

----------------------------------------------------------------------------
\* Removing an element of a sequence leaves the others in order.
LEMMA RemovedAt ==
    ASSUME NEW S, NEW q \in Seq(S), NEW i \in 1..Len(q)
    PROVE  /\ RemoveAt(q, i) \in Seq(S)
           /\ Len(RemoveAt(q, i)) = Len(q) - 1
           /\ \A k \in 1..(Len(q) - 1) : RemoveAt(q, i)[k] = IF k < i THEN q[k] ELSE q[k + 1]
<1> DEFINE a == SubSeq(q, 1, i - 1)
           b == SubSeq(q, i + 1, Len(q))
<1>1. /\ a \in Seq(S) /\ Len(a) = i - 1
      /\ \A k \in 1..(i - 1) : a[k] = q[k]
  BY SubSeqProperties
<1>2. /\ b \in Seq(S) /\ Len(b) = Len(q) - i
      /\ \A k \in 1..(Len(q) - i) : b[k] = q[i + k]
  BY SubSeqProperties
<1>3. RemoveAt(q, i) = a \o b
  BY DEF RemoveAt
<1> HIDE DEF a, b
<1>4. /\ a \o b \in Seq(S)
      /\ Len(a \o b) = Len(a) + Len(b)
      /\ \A k \in 1..(Len(a) + Len(b)) :
            (a \o b)[k] = IF k <= Len(a) THEN a[k] ELSE b[k - Len(a)]
  BY <1>1, <1>2, ConcatProperties, Zenon
<1>5. Len(a) + Len(b) = Len(q) - 1
  BY <1>1, <1>2
<1>6. ASSUME NEW k \in 1..(Len(q) - 1)
      PROVE  (a \o b)[k] = IF k < i THEN q[k] ELSE q[k + 1]
  <2>1. CASE k < i
    BY <2>1, <1>1, <1>4, <1>5
  <2>2. CASE ~(k < i)
    <3>1. (a \o b)[k] = b[k - Len(a)]
      BY <2>2, <1>1, <1>4, <1>5
    <3>2. k - Len(a) \in 1..(Len(q) - i) /\ i + (k - Len(a)) = k + 1
      BY <2>2, <1>1
    <3> QED
      BY <2>2, <3>1, <3>2, <1>2
  <2> QED
    BY <2>1, <2>2
<1>7. /\ a \o b \in Seq(S)
      /\ Len(a \o b) = Len(q) - 1
  BY <1>4, <1>5
<1> QED
  BY <1>3, <1>6, <1>7, Zenon

----------------------------------------------------------------------------
\* The clients of the other services: their cache.

Keys == {Key(p, w) : p \in Plans, w \in Words}
Entries == [key : Keys, age : 0..Expired]

Distinct(s) == \A i, j \in 1..Len(s) : s[i].key = s[j].key => i = j

\* t is s with entries left out
Within(t, s) ==
    /\ \A m \in 1..Len(t) : \E i \in 1..Len(s) : t[m] = s[i]
    /\ \A i, j \in 1..Len(s), m, n \in 1..Len(t) : t[m] = s[i] /\ t[n] = s[j] /\ i < j => m < n

\* Of the keys used last, those that have not expired are held, and what is held
\* behind one of them was used after it.
Lru(h, r) ==
    \A i \in 1..Len(r) : r[i].age <= Ttl =>
        \E j \in 1..Len(h) :
            /\ h[j] = r[i]
            /\ \A l \in (j + 1)..Len(h) : \E m \in 1..(i - 1) : r[m].key = h[l].key

CacheBook(h, r) ==
    /\ h \in Seq(Entries) /\ r \in Seq(Entries)
    /\ Len(h) <= Capacity /\ Len(r) <= Capacity
    /\ Distinct(h) /\ Distinct(r) /\ Lru(h, r)

\* The place of a key is where it is.
LEMMA WhereIs ==
    \A s, k : Has(s, k) => Where(s, k) \in 1..Len(s) /\ s[Where(s, k)].key = k
BY DEF Has, Where

\* What is left out of a list without a key is that key.
LEMMA WithoutIs ==
    ASSUME NEW s \in Seq(Entries), Distinct(s), NEW k
    PROVE  /\ Without(s, k) \in Seq(Entries) /\ Len(Without(s, k)) <= Len(s)
           /\ Has(s, k) => Len(Without(s, k)) = Len(s) - 1
           /\ \A m \in 1..Len(Without(s, k)) : Without(s, k)[m].key # k
           /\ \A i \in 1..Len(s) : s[i].key # k => \E m \in 1..Len(Without(s, k)) : Without(s, k)[m] = s[i]
           /\ Within(Without(s, k), s) /\ Distinct(Without(s, k))
<1> DEFINE t == Without(s, k)
<1>0. Len(s) \in Nat
  OBVIOUS
<1>1. CASE ~Has(s, k)
  <2>1. t = s
    BY <1>1 DEF Without
  <2> HIDE DEF t
  <2>2. \A i \in 1..Len(s) : s[i].key # k
    BY <1>1 DEF Has
  <2>3. Within(t, s)
    <3>1. \A i, j \in 1..Len(s), m, n \in 1..Len(t) : t[m] = s[i] /\ t[n] = s[j] /\ i < j => m < n
      <4> SUFFICES ASSUME NEW i \in 1..Len(s), NEW j \in 1..Len(s), NEW m \in 1..Len(t), NEW n \in 1..Len(t),
                          t[m] = s[i], t[n] = s[j], i < j
                   PROVE  m < n
        OBVIOUS
      <4>1. m = i /\ n = j
        BY <2>1 DEF Distinct
      <4> QED  BY <4>1
    <3> QED  BY <2>1, <3>1 DEF Within
  <2>4. Len(t) <= Len(s)
    BY <1>0, <2>1
  <2> QED  BY <1>1, <2>1, <2>2, <2>3, <2>4 DEF t
<1>2. CASE Has(s, k)
  <2> DEFINE w == Where(s, k)
  <2>1. w \in 1..Len(s) /\ s[w].key = k
    BY <1>2, WhereIs
  <2>2. t = RemoveAt(s, w)
    BY <1>2 DEF Without
  <2> HIDE DEF t, w
  <2>3. /\ t \in Seq(Entries) /\ Len(t) = Len(s) - 1
        /\ \A m \in 1..(Len(s) - 1) : t[m] = IF m < w THEN s[m] ELSE s[m + 1]
    BY <2>1, <2>2, RemovedAt
  <2> DEFINE from(m) == IF m < w THEN m ELSE m + 1
  <2>4. \A m \in 1..Len(t) : from(m) \in 1..Len(s) /\ from(m) # w /\ t[m] = s[from(m)]
    BY <1>0, <2>1, <2>3
  <2>5. \A m, n \in 1..Len(t) : (from(m) = from(n) => m = n) /\ (from(m) < from(n) => m < n)
    BY <1>0, <2>1, <2>3
  <2>6. \A i \in 1..Len(s) : i # w => \E m \in 1..Len(t) : from(m) = i
    <3> SUFFICES ASSUME NEW i \in 1..Len(s), i # w PROVE \E m \in 1..Len(t) : from(m) = i
      OBVIOUS
    <3>1. CASE i < w
      <4>1. i \in 1..Len(t) /\ from(i) = i
        BY <1>0, <2>1, <2>3, <3>1
      <4> QED  BY <4>1
    <3>2. CASE i > w
      <4>1. i - 1 \in 1..Len(t) /\ from(i - 1) = i
        BY <1>0, <2>1, <2>3, <3>2
      <4> QED  BY <4>1
    <3> QED  BY <2>1, <3>1, <3>2
  <2> HIDE DEF from
  <2>7. \A m \in 1..Len(t) : t[m].key # k
    BY <2>1, <2>4 DEF Distinct
  <2>8. \A i \in 1..Len(s) : s[i].key # k => \E m \in 1..Len(t) : t[m] = s[i]
    BY <2>1, <2>4, <2>6
  <2>9. Within(t, s)
    <3>1. \A i, j \in 1..Len(s), m, n \in 1..Len(t) : t[m] = s[i] /\ t[n] = s[j] /\ i < j => m < n
      <4> SUFFICES ASSUME NEW i \in 1..Len(s), NEW j \in 1..Len(s), NEW m \in 1..Len(t), NEW n \in 1..Len(t),
                          t[m] = s[i], t[n] = s[j], i < j
                   PROVE  m < n
        OBVIOUS
      <4>1. from(m) = i /\ from(n) = j
        BY <2>4 DEF Distinct
      <4> QED  BY <2>5, <4>1
    <3> QED  BY <2>4, <3>1 DEF Within
  <2>10. Distinct(t)
    <3> SUFFICES ASSUME NEW m \in 1..Len(t), NEW n \in 1..Len(t), t[m].key = t[n].key PROVE m = n
      BY DEF Distinct
    <3>1. from(m) = from(n)
      BY <2>4 DEF Distinct
    <3> QED  BY <2>5, <3>1
  <2>11. Len(t) <= Len(s)
    BY <1>0, <2>3
  <2> QED  BY <2>3, <2>7, <2>8, <2>9, <2>10, <2>11 DEF t
<1> QED  BY <1>1, <1>2

\* What is left out of a list without its head is the head.
LEMMA TailIs ==
    ASSUME NEW s \in Seq(Entries), Distinct(s), Len(s) > 0
    PROVE  /\ Tail(s) \in Seq(Entries) /\ Len(Tail(s)) = Len(s) - 1
           /\ \A i \in 2..Len(s) : \E m \in 1..Len(Tail(s)) : Tail(s)[m] = s[i]
           /\ Within(Tail(s), s) /\ Distinct(Tail(s))
<1> DEFINE t == Tail(s)
<1>1. /\ t \in Seq(Entries) /\ Len(t) = Len(s) - 1
      /\ \A m \in 1..Len(t) : t[m] = s[m + 1]
  <2>1. s # <<>>
    OBVIOUS
  <2> QED  BY <2>1, HeadTailProperties
<1> HIDE DEF t
<1>2. Len(s) \in Nat /\ \A m \in 1..Len(t) : m + 1 \in 1..Len(s)
  BY <1>1
<1>3. \A i \in 2..Len(s) : \E m \in 1..Len(t) : t[m] = s[i]
  <2> SUFFICES ASSUME NEW i \in 2..Len(s) PROVE \E m \in 1..Len(t) : t[m] = s[i]
    OBVIOUS
  <2>1. i - 1 \in 1..Len(t) /\ (i - 1) + 1 = i
    BY <1>1, <1>2
  <2> QED  BY <1>1, <2>1
<1>4. Within(t, s)
  <2>1. \A i, j \in 1..Len(s), m, n \in 1..Len(t) : t[m] = s[i] /\ t[n] = s[j] /\ i < j => m < n
    <3> SUFFICES ASSUME NEW i \in 1..Len(s), NEW j \in 1..Len(s), NEW m \in 1..Len(t), NEW n \in 1..Len(t),
                        t[m] = s[i], t[n] = s[j], i < j
                 PROVE  m < n
      OBVIOUS
    <3>1. m + 1 = i /\ n + 1 = j
      BY <1>1, <1>2 DEF Distinct
    <3> QED  BY <3>1
  <2> QED  BY <1>1, <1>2, <2>1 DEF Within
<1>5. Distinct(t)
  <2> SUFFICES ASSUME NEW m \in 1..Len(t), NEW n \in 1..Len(t), t[m].key = t[n].key PROVE m = n
    BY DEF Distinct
  <2>1. m + 1 = n + 1
    BY <1>1, <1>2 DEF Distinct
  <2> QED  BY <2>1
<1> QED  BY <1>1, <1>3, <1>4, <1>5 DEF t

\* the keys used last when one is used now
Recent(r, e) ==
    LET q == <<e>> \o Without(r, e.key)
    IN  SubSeq(q, 1, IF Len(q) > Capacity THEN Capacity ELSE Len(q))

\* It comes first, before those that were there, as many as are kept.
LEMMA RecentIs ==
    ASSUME NEW r \in Seq(Entries), Distinct(r), NEW e \in Entries
    PROVE  /\ Recent(r, e) \in Seq(Entries) /\ Len(Recent(r, e)) <= Capacity
           /\ Len(Recent(r, e)) >= 1 /\ Recent(r, e)[1] = e
           /\ \A m \in 2..Len(Recent(r, e)) :
                 m - 1 \in 1..Len(Without(r, e.key)) /\ Recent(r, e)[m] = Without(r, e.key)[m - 1]
           /\ Distinct(Recent(r, e))
<1> DEFINE t == Without(r, e.key)
           one == <<e>>
           q == one \o t
           n == IF Len(q) > Capacity THEN Capacity ELSE Len(q)
           u == SubSeq(q, 1, n)
<1>0. Capacity \in Nat \ {0}
  BY GatewayAssumption
<1>1. t \in Seq(Entries) /\ Distinct(t) /\ \A m \in 1..Len(t) : t[m].key # e.key
  BY WithoutIs
<1> HIDE DEF t
<1>2. one \in Seq(Entries) /\ Len(one) = 1 /\ one[1] = e
  OBVIOUS
<1> HIDE DEF one
<1>3. /\ q \in Seq(Entries) /\ Len(q) = Len(one) + Len(t)
      /\ \A i \in 1..Len(one) + Len(t) : q[i] = IF i <= Len(one) THEN one[i] ELSE t[i - Len(one)]
  BY <1>1, <1>2, ConcatProperties
<1> HIDE DEF q
<1>4. Len(t) \in Nat /\ Len(q) = Len(t) + 1 /\ q[1] = e /\ \A i \in 2..Len(q) : i - 1 \in 1..Len(t) /\ q[i] = t[i - 1]
  <2>1. Len(t) \in Nat
    BY <1>1
  <2> QED  BY <1>2, <1>3, <2>1
<1>5. n \in 1..Len(q) /\ n <= Capacity
  BY <1>0, <1>4
<1> HIDE DEF n
<1>6. u \in Seq(Entries) /\ Len(u) = n /\ \A i \in 1..n : u[i] = q[i]
  <2>1. \A i \in 1..n : q[i] \in Entries
    BY <1>3, <1>4, <1>5
  <2>2. 1 \in Int /\ n \in Int /\ 1 <= n
    BY <1>4, <1>5
  <2>3. /\ u \in Seq(Entries) /\ Len(u) = (IF 1 <= n THEN n - 1 + 1 ELSE 0)
        /\ \A i \in 1..(n - 1 + 1) : u[i] = q[1 + i - 1]
    BY <2>1, <2>2, SubSeqProperties
  <2> QED  BY <2>2, <2>3
<1>7. Recent(r, e) = u
  BY DEF Recent, u, q, one, t, n
<1> HIDE DEF u
<1>8. u[1] = e /\ \A m \in 2..Len(u) : m - 1 \in 1..Len(t) /\ u[m] = t[m - 1]
  <2>1. n \in Nat /\ 1 \in 1..n /\ n <= Len(q) /\ Len(u) = n
    BY <1>4, <1>5, <1>6
  <2>2. u[1] = e
    BY <1>4, <1>6, <2>1
  <2>3. ASSUME NEW m \in 2..Len(u) PROVE m - 1 \in 1..Len(t) /\ u[m] = t[m - 1]
    <3>1. m \in 1..n /\ m \in 2..Len(q)
      BY <1>4, <2>1
    <3>2. u[m] = q[m]
      BY <1>6, <3>1
    <3>3. m - 1 \in 1..Len(t) /\ q[m] = t[m - 1]
      BY <1>4, <3>1
    <3> QED  BY <3>2, <3>3
  <2> QED  BY <2>2, <2>3
<1>9. Distinct(u)
  <2> SUFFICES ASSUME NEW i \in 1..Len(u), NEW j \in 1..Len(u), u[i].key = u[j].key PROVE i = j
    BY DEF Distinct
  <2>0. Len(u) \in Nat
    BY <1>6
  <2>1. CASE i = 1 /\ j # 1
    <3>1. j \in 2..Len(u)
      BY <2>0, <2>1
    <3> QED  BY <1>1, <1>8, <2>1, <3>1
  <2>2. CASE i # 1 /\ j = 1
    <3>1. i \in 2..Len(u)
      BY <2>0, <2>2
    <3> QED  BY <1>1, <1>8, <2>2, <3>1
  <2>3. CASE i # 1 /\ j # 1
    <3>1. i \in 2..Len(u) /\ j \in 2..Len(u)
      BY <2>0, <2>3
    <3>2. /\ i - 1 \in 1..Len(t) /\ u[i] = t[i - 1]
          /\ j - 1 \in 1..Len(t) /\ u[j] = t[j - 1]
      BY <1>8, <3>1
    <3>3. i - 1 = j - 1
      BY <1>1, <3>2 DEF Distinct
    <3> QED  BY <3>1, <3>3
  <2> QED  BY <2>1, <2>2, <2>3
<1>10. Len(u) <= Capacity /\ Len(u) >= 1
  BY <1>4, <1>5, <1>6
<1> QED  BY <1>6, <1>7, <1>8, <1>9, <1>10 DEF t

\* A key used or stored now becomes the newest of the cache; room for it is made
\* by what was used longest ago.
LEMMA UseKeeps ==
    ASSUME NEW h, NEW r, CacheBook(h, r), NEW e \in Entries,
           NEW kept \in Seq(Entries), Distinct(kept), Within(kept, h), Len(kept) < Capacity,
           \A m \in 1..Len(kept) : kept[m].key # e.key,
           \A i \in 1..Len(h) : h[i].key # e.key =>
               \/ \E m \in 1..Len(kept) : kept[m] = h[i]
               \/ i = 1 /\ Len(h) = Capacity /\ ~Has(h, e.key)
    PROVE  CacheBook(Append(kept, e), Recent(r, e))
<1> DEFINE h2 == Append(kept, e)
           r2 == Recent(r, e)
           t  == Without(r, e.key)
           n  == Len(kept)
<1>0. Capacity \in Nat \ {0} /\ n \in Nat
  BY GatewayAssumption
<1>b. /\ h \in Seq(Entries) /\ r \in Seq(Entries) /\ Distinct(h) /\ Distinct(r) /\ Lru(h, r)
      /\ Len(h) \in Nat /\ Len(r) \in Nat
  BY DEF CacheBook
<1>1. /\ h2 \in Seq(Entries) /\ Len(h2) = n + 1
      /\ (\A m \in 1..n : h2[m] = kept[m]) /\ h2[n + 1] = e
  BY AppendProperties
<1>2. /\ r2 \in Seq(Entries) /\ Len(r2) <= Capacity /\ Len(r2) >= 1 /\ r2[1] = e
      /\ \A m \in 2..Len(r2) : m - 1 \in 1..Len(t) /\ r2[m] = t[m - 1]
      /\ Distinct(r2)
  BY <1>b, RecentIs
<1>3. /\ t \in Seq(Entries) /\ Distinct(t) /\ Within(t, r)
      /\ \A m \in 1..Len(t) : t[m].key # e.key
      /\ \A i \in 1..Len(r) : r[i].key # e.key => \E m \in 1..Len(t) : t[m] = r[i]
  BY <1>b, WithoutIs
<1> HIDE DEF h2, r2, t, n
<1>4. Len(r2) \in Nat /\ Len(t) \in Nat /\ Len(kept) = n
  BY <1>2, <1>3 DEF n
<1>5. Distinct(h2)
  <2> SUFFICES ASSUME NEW i \in 1..Len(h2), NEW j \in 1..Len(h2), h2[i].key = h2[j].key PROVE i = j
    BY DEF Distinct
  <2>1. CASE i \in 1..n /\ j \in 1..n
    BY <1>1, <1>4, <2>1 DEF Distinct
  <2>2. CASE i = n + 1 /\ j \in 1..n
    BY <1>1, <1>4, <2>2
  <2>3. CASE i \in 1..n /\ j = n + 1
    BY <1>1, <1>4, <2>3
  <2> QED  BY <1>0, <1>1, <2>1, <2>2, <2>3
<1>6. ASSUME NEW i \in 1..Len(r2), r2[i].age <= Ttl
      PROVE  \E j \in 1..Len(h2) :
                /\ h2[j] = r2[i]
                /\ \A l \in (j + 1)..Len(h2) : \E m \in 1..(i - 1) : r2[m].key = h2[l].key
  <2>1. CASE i = 1
    <3>1. n + 1 \in 1..Len(h2) /\ \A l \in ((n + 1) + 1)..Len(h2) : FALSE
      BY <1>0, <1>1
    <3> QED  BY <1>1, <1>2, <2>1, <3>1
  <2>2. CASE i # 1
    <3>0. i \in 2..Len(r2) /\ i - 1 \in 1..Len(t) /\ r2[i] = t[i - 1]
      BY <1>2, <1>4, <2>2
    <3>1. PICK a \in 1..Len(r) : t[i - 1] = r[a]
      BY <1>3, <3>0 DEF Within
    <3>2. r[a].key # e.key /\ r[a].age <= Ttl
      BY <1>3, <1>6, <3>0, <3>1
    <3>3. PICK b \in 1..Len(h) :
             /\ h[b] = r[a]
             /\ \A l \in (b + 1)..Len(h) : \E m \in 1..(a - 1) : r[m].key = h[l].key
      BY <1>b, <3>2 DEF Lru
    <3>4. ASSUME NEW l \in (b + 1)..Len(h), h[l].key # e.key
          PROVE  \E m \in 2..(i - 1) : r2[m].key = h[l].key
      <4>1. PICK c \in 1..(a - 1) : r[c].key = h[l].key
        BY <3>3
      <4>2. c \in 1..Len(r) /\ c < a
        BY <1>b
      <4>3. PICK d \in 1..Len(t) : t[d] = r[c]
        BY <1>3, <3>4, <4>1, <4>2
      <4>4. d < i - 1
        BY <1>3, <3>0, <3>1, <4>2, <4>3 DEF Within
      <4>5. d + 1 \in 2..(i - 1) /\ d + 1 \in 2..Len(r2) /\ (d + 1) - 1 = d
        BY <1>4, <3>0, <4>4
      <4>6. r2[d + 1] = t[d]
        BY <1>2, <4>5
      <4> QED  BY <4>1, <4>3, <4>5, <4>6
    <3>5. \E m \in 1..n : kept[m] = h[b]
      <4> SUFFICES ASSUME ~\E m \in 1..n : kept[m] = h[b] PROVE FALSE
        OBVIOUS
      <4>1. b = 1 /\ Len(h) = Capacity /\ ~Has(h, e.key)
        BY <1>4, <3>2, <3>3
      <4>2. \A l \in 2..Capacity : \E m \in 2..(i - 1) : r2[m].key = h[l].key
        BY <1>0, <3>4, <4>1 DEF Has
      <4> DEFINE S == 2..Capacity
                 T == 2..(i - 1)
                 f == [l \in S |-> CHOOSE m \in T : r2[m].key = h[l].key]
      <4>3. f \in [S -> T] /\ \A l \in S : r2[f[l]].key = h[l].key
        BY <4>2
      <4>4. /\ IsFiniteSet(S) /\ Cardinality(S) = (IF 2 > Capacity THEN 0 ELSE Capacity - 2 + 1)
            /\ IsFiniteSet(T) /\ Cardinality(T) = (IF 2 > i - 1 THEN 0 ELSE i - 1 - 2 + 1)
        <5>1. 2 \in Int /\ Capacity \in Int /\ i - 1 \in Int
          BY <1>0
        <5> QED  BY <5>1, FS_Interval
      <4>5. Cardinality(T) < Cardinality(S)
        BY <1>0, <1>2, <1>4, <3>0, <4>4
      <4> HIDE DEF f, S, T
      <4>6. PICK x \in S, y \in S : x # y /\ f[x] = f[y]
        BY <4>3, <4>4, <4>5, FS_PigeonHole
      <4>7. h[x].key = h[y].key
        BY <4>3, <4>6
      <4>8. x \in 1..Len(h) /\ y \in 1..Len(h)
        BY <1>0, <4>1, <4>6 DEF S
      <4> QED  BY <1>b, <4>6, <4>7, <4>8 DEF Distinct
    <3>6. PICK j \in 1..n : kept[j] = h[b]
      BY <3>5
    <3>7. j \in 1..Len(h2) /\ h2[j] = r2[i]
      BY <1>0, <1>1, <3>0, <3>1, <3>3, <3>6
    <3>8. ASSUME NEW l \in (j + 1)..Len(h2) PROVE \E m \in 1..(i - 1) : r2[m].key = h2[l].key
      <4>1. CASE l = n + 1
        <5>1. 1 \in 1..(i - 1)
          BY <3>0
        <5> QED  BY <1>1, <1>2, <4>1, <5>1
      <4>2. CASE l # n + 1
        <5>1. l \in 1..n /\ j < l /\ h2[l] = kept[l]
          BY <1>0, <1>1, <4>2
        <5>2. PICK c \in 1..Len(h) : kept[l] = h[c]
          BY <1>4, <5>1 DEF Within
        <5>3. ~(c < b)
          BY <1>4, <3>6, <5>1, <5>2 DEF Within
        <5>4. c # b
          <6> SUFFICES ASSUME c = b PROVE FALSE
            OBVIOUS
          <6>1. kept[l].key = kept[j].key
            BY <3>6, <5>2
          <6> QED  BY <1>4, <3>6, <5>1, <6>1 DEF Distinct
        <5>5. c \in (b + 1)..Len(h)
          BY <1>b, <5>3, <5>4
        <5>6. h[c].key # e.key
          BY <1>4, <5>1, <5>2
        <5>7. PICK m \in 2..(i - 1) : r2[m].key = h[c].key
          BY <3>4, <5>5, <5>6
        <5>8. m \in 1..(i - 1)
          OBVIOUS
        <5> QED  BY <5>1, <5>2, <5>7, <5>8
      <4> QED  BY <4>1, <4>2
    <3> QED  BY <3>7, <3>8
  <2> QED  BY <2>1, <2>2
<1>7. Len(h2) <= Capacity
  BY <1>0, <1>1, <1>4
<1>8. Lru(h2, r2)
  BY <1>6 DEF Lru
<1>9. CacheBook(h2, r2)
  BY <1>1, <1>2, <1>5, <1>7, <1>8 DEF CacheBook
<1> QED  BY <1>9 DEF h2, r2

\* An entry that has expired is taken out.
LEMMA RemovalKeeps ==
    ASSUME NEW h, NEW r, CacheBook(h, r), NEW k,
           \A i \in 1..Len(h) : h[i].key = k => ~(h[i].age <= Ttl)
    PROVE  CacheBook(Without(h, k), r)
<1> DEFINE t == Without(h, k)
<1>b. /\ h \in Seq(Entries) /\ r \in Seq(Entries) /\ Distinct(h) /\ Distinct(r) /\ Lru(h, r)
      /\ Len(h) <= Capacity /\ Len(r) <= Capacity /\ Len(h) \in Nat /\ Capacity \in Nat
  BY GatewayAssumption DEF CacheBook
<1>1. /\ t \in Seq(Entries) /\ Len(t) <= Len(h) /\ Distinct(t) /\ Within(t, h)
      /\ \A i \in 1..Len(h) : h[i].key # k => \E m \in 1..Len(t) : t[m] = h[i]
  BY <1>b, WithoutIs
<1> HIDE DEF t
<1>2. ASSUME NEW i \in 1..Len(r), r[i].age <= Ttl
      PROVE  \E j \in 1..Len(t) :
                /\ t[j] = r[i]
                /\ \A l \in (j + 1)..Len(t) : \E m \in 1..(i - 1) : r[m].key = t[l].key
  <2>1. PICK b \in 1..Len(h) :
           /\ h[b] = r[i]
           /\ \A l \in (b + 1)..Len(h) : \E m \in 1..(i - 1) : r[m].key = h[l].key
    BY <1>b, <1>2 DEF Lru
  <2>2. PICK j \in 1..Len(t) : t[j] = h[b]
    BY <1>1, <1>2, <2>1
  <2>3. ASSUME NEW l \in (j + 1)..Len(t) PROVE \E m \in 1..(i - 1) : r[m].key = t[l].key
    <3>0. l \in 1..Len(t) /\ j < l
      BY <1>1
    <3>1. PICK c \in 1..Len(h) : t[l] = h[c]
      BY <1>1, <3>0 DEF Within
    <3>2. ~(c < b)
      <4>1. c < b => l < j
        BY <1>1, <2>2, <3>0, <3>1 DEF Within
      <4>2. ~(l < j)
        BY <1>1, <3>0
      <4> QED  BY <4>1, <4>2
    <3>3. c # b
      <4> SUFFICES ASSUME c = b PROVE FALSE
        OBVIOUS
      <4>1. t[l].key = t[j].key
        BY <2>2, <3>1
      <4> QED  BY <1>1, <3>0, <4>1 DEF Distinct
    <3>4. c \in (b + 1)..Len(h)
      BY <1>b, <3>2, <3>3
    <3> QED  BY <2>1, <3>1, <3>4
  <2> QED  BY <2>1, <2>2, <2>3
<1>3. Len(t) <= Capacity
  BY <1>b, <1>1
<1> QED  BY <1>b, <1>1, <1>2, <1>3 DEF CacheBook, Lru, t

\* Growing older changes nothing but ages.
LEMMA OlderIs ==
    ASSUME NEW s \in Seq(Entries)
    PROVE  /\ Older(s) \in Seq(Entries) /\ Len(Older(s)) = Len(s)
           /\ \A i \in 1..Len(s) :
                 /\ Older(s)[i].key = s[i].key
                 /\ Older(s)[i].age = IF s[i].age = Expired THEN Expired ELSE s[i].age + 1
<1>0. Ttl \in Nat /\ Len(s) \in Nat
  BY GatewayAssumption
<1> DEFINE older(e) == [e EXCEPT !.age = IF @ = Expired THEN @ ELSE @ + 1]
<1>1. ASSUME NEW e \in Entries
      PROVE  older(e) \in Entries /\ older(e).key = e.key
             /\ older(e).age = IF e.age = Expired THEN Expired ELSE e.age + 1
  <2>1. e.age \in 0..Expired /\ (e.age # Expired => e.age + 1 \in 0..Expired)
    BY <1>0 DEF Entries, Expired
  <2> QED  BY <2>1 DEF Entries
<1>2. Older(s) = [i \in 1..Len(s) |-> older(s[i])]
  BY DEF Older
<1> HIDE DEF older
<1>3. \A i \in 1..Len(s) : s[i] \in Entries
  OBVIOUS
<1>4. Older(s) \in Seq(Entries) /\ Len(Older(s)) = Len(s) /\ \A i \in 1..Len(s) : Older(s)[i] = older(s[i])
  <2>1. \A i \in 1..Len(s) : older(s[i]) \in Entries
    BY <1>1, <1>3
  <2>2. [i \in 1..Len(s) |-> older(s[i])] \in [1..Len(s) -> Entries]
    BY <2>1
  <2>3. Older(s) \in Seq(Entries)
    BY <1>0, <1>2, <2>2, SeqDef
  <2>4. DOMAIN Older(s) = 1..Len(s)
    BY <1>2
  <2>5. Len(Older(s)) = Len(s)
    BY <1>0, <2>3, <2>4, LenProperties
  <2> QED  BY <1>2, <2>3, <2>5
<1> QED  BY <1>1, <1>3, <1>4

LEMMA AgeKeeps ==
    ASSUME NEW h, NEW r, CacheBook(h, r)
    PROVE  CacheBook(Older(h), Older(r))
<1> DEFINE h2 == Older(h)
           r2 == Older(r)
<1>b. /\ h \in Seq(Entries) /\ r \in Seq(Entries) /\ Distinct(h) /\ Distinct(r) /\ Lru(h, r)
      /\ Len(h) <= Capacity /\ Len(r) <= Capacity
  BY DEF CacheBook
<1>0. Ttl \in Nat /\ Expired = Ttl + 1
  BY GatewayAssumption DEF Expired
<1>1. /\ h2 \in Seq(Entries) /\ Len(h2) = Len(h)
      /\ \A i \in 1..Len(h) : /\ h2[i].key = h[i].key
                              /\ h2[i].age = IF h[i].age = Expired THEN Expired ELSE h[i].age + 1
  BY <1>b, OlderIs
<1>2. /\ r2 \in Seq(Entries) /\ Len(r2) = Len(r)
      /\ \A i \in 1..Len(r) : /\ r2[i].key = r[i].key
                              /\ r2[i].age = IF r[i].age = Expired THEN Expired ELSE r[i].age + 1
  BY <1>b, OlderIs
<1> HIDE DEF h2, r2
<1>3. Distinct(h2) /\ Distinct(r2)
  BY <1>b, <1>1, <1>2 DEF Distinct
<1>4. ASSUME NEW i \in 1..Len(r2), r2[i].age <= Ttl
      PROVE  \E j \in 1..Len(h2) :
                /\ h2[j] = r2[i]
                /\ \A l \in (j + 1)..Len(h2) : \E m \in 1..(i - 1) : r2[m].key = h2[l].key
  <2>1. i \in 1..Len(r) /\ r[i].age \in 0..Expired
    <3>1. i \in 1..Len(r)
      BY <1>2
    <3>2. r[i] \in Entries
      BY <1>b, <3>1
    <3> QED  BY <3>1, <3>2 DEF Entries
  <2>2. r[i].age <= Ttl
    BY <1>0, <1>2, <1>4, <2>1
  <2>3. PICK b \in 1..Len(h) :
           /\ h[b] = r[i]
           /\ \A l \in (b + 1)..Len(h) : \E m \in 1..(i - 1) : r[m].key = h[l].key
    BY <1>b, <2>1, <2>2 DEF Lru
  <2>4. h2[b] = r2[i]
    <3>1. h2[b].key = r2[i].key /\ h2[b].age = r2[i].age
      BY <1>1, <1>2, <2>1, <2>3
    <3>2. h2[b] \in Entries /\ r2[i] \in Entries
      BY <1>1, <1>2, <1>4
    <3> QED  BY <3>1, <3>2 DEF Entries
  <2>5. ASSUME NEW l \in (b + 1)..Len(h2) PROVE \E m \in 1..(i - 1) : r2[m].key = h2[l].key
    <3>0. Len(h) \in Nat /\ Len(r) \in Nat
      BY <1>b
    <3>1. l \in 1..Len(h) /\ l \in (b + 1)..Len(h)
      BY <1>1, <3>0
    <3>2. PICK m \in 1..(i - 1) : r[m].key = h[l].key
      BY <2>3, <3>1
    <3>3. m \in 1..Len(r)
      BY <2>1, <3>0
    <3> QED  BY <1>1, <1>2, <3>1, <3>2, <3>3
  <2> QED  BY <1>1, <2>3, <2>4, <2>5
<1> QED  BY <1>b, <1>1, <1>2, <1>3, <1>4 DEF CacheBook, Lru, h2, r2

----------------------------------------------------------------------------
\* The callers.

Services == [tries : {1, 3}, after : SUBSET {"refused", "broken"}, token : BOOLEAN]

Attempts == [at : {"token", "call", "fetch"}, plan : Plans, word : Words, service : Nat, try : Nat,
             round : Nat, waited : 0..MaxWait, good : Int]

Answers == [at : {"answered"}, what : {"hit", "told", "absent", "guess", "throw", "unavailable"}, age : 0..Ttl]

\* a token is waited for only by a service that needs one, which has another to
\* fall back to; a call of such a service bears a good one
GoodCall(a) ==
    /\ a \in Attempts
    /\ a.service \in 1..Len(a.plan.services)
    /\ a.at \in {"token", "fetch"} => a.plan.services[a.service].token
    /\ a.at = "call" /\ a.plan.services[a.service].token => a.good > 0

CallerStates == {Idle} \union Answers \union {a \in Attempts : GoodCall(a)}

\* What a plan says of its services.
LEMMA PlansAre ==
    \A p \in Plans :
        /\ Len(p.services) \in {1, 2}
        /\ \A i \in 1..Len(p.services) :
              p.services[i] \in Services /\ (p.services[i].token => i < Len(p.services))
        /\ p.last \in {"throw", "guess", "unavailable"}
<1> DEFINE Sound(p) ==
      /\ Len(p.services) \in {1, 2}
      /\ \A i \in 1..Len(p.services) :
            p.services[i] \in Services /\ (p.services[i].token => i < Len(p.services))
      /\ p.last \in {"throw", "guess", "unavailable"}
<1>1. Google \in Services /\ Once \in Services /\ ~Google.token /\ ~Once.token
  BY DEF Google, Once, Service, Services
<1>2. /\ Service(3, {"refused", "broken"}) \in Services /\ ~Service(3, {"refused", "broken"}).token
      /\ [Once EXCEPT !.token = TRUE] \in Services
  BY DEF Once, Service, Services
<1>3. \A name, cache : \A s \in Services :
         ~s.token => Plan(name, cache, <<s>>).services = <<s>> /\ Plan(name, cache, <<s>>).last = "throw"
  BY DEF Plan
<1>4. \A p : \A s \in Services :
         ~s.token /\ p.services = <<s>> /\ p.last \in {"throw", "unavailable"} => Sound(p)
  <2> SUFFICES ASSUME NEW p, NEW s \in Services, ~s.token, p.services = <<s>>, p.last \in {"throw", "unavailable"}
               PROVE  Sound(p)
    OBVIOUS
  <2>1. Len(p.services) = 1
    OBVIOUS
  <2>2. \A i \in 1..Len(p.services) : p.services[i] = s
    BY <2>1
  <2> QED  BY <2>1, <2>2
<1>5. /\ Sound(ComputeRoute) /\ Sound(Geocode) /\ Sound(ValidateAddress) /\ Sound(SnapToRoads)
      /\ Sound(GenerateIsochrone)
  <2> HIDE DEF Sound
  <2> QED  BY <1>1, <1>3, <1>4 DEF ComputeRoute, Geocode, ValidateAddress, SnapToRoads, GenerateIsochrone
<1>6. /\ Sound(ComputeRouteMatrix) /\ Sound(ReverseGeocode) /\ Sound(GetSpeedLimits) /\ Sound(CurrentConditions)
      /\ Sound(HourlySnapshot) /\ Sound(Alerts) /\ Sound(AirQuality)
  <2> HIDE DEF Sound
  <2> QED  BY <1>1, <1>3, <1>4
           DEF ComputeRouteMatrix, ReverseGeocode, GetSpeedLimits, CurrentConditions, HourlySnapshot, Alerts, AirQuality
<1>7. Sound(ComputeRouteAtTime)
  <2>1. ComputeRouteAtTime.services = <<Google>> /\ ComputeRouteAtTime.last = "throw"
    BY DEF ComputeRouteAtTime, Plan
  <2> HIDE DEF Sound
  <2> QED  BY <1>1, <1>4, <2>1
<1>8. Sound(Pollen)
  <2>1. Pollen.services = <<Once>> /\ Pollen.last = "throw"
    BY DEF Pollen, Plan
  <2> HIDE DEF Sound
  <2> QED  BY <1>1, <1>4, <2>1
<1>9. Sound(TrainRun)
  <2> DEFINE s == Service(3, {"refused", "broken"})
  <2>1. TrainRun.services = <<s>> /\ TrainRun.last = "unavailable"
    BY DEF TrainRun, Plan
  <2>2. s \in Services /\ ~s.token
    BY <1>2
  <2> HIDE DEF Sound, s
  <2> QED  BY <1>4, <2>1, <2>2
<1>10. Sound(CountRestaurants)
  <2> DEFINE a == [Once EXCEPT !.token = TRUE]
             s == CountRestaurants.services
  <2>1. s = <<a, Once>> /\ CountRestaurants.last = "guess"
    BY DEF CountRestaurants, Plan
  <2>2. a \in Services
    BY <1>2
  <2> HIDE DEF a, s
  <2>3. Len(s) = 2 /\ s[1] = a /\ s[2] = Once
    BY <2>1
  <2>4. \A i \in 1..Len(s) : s[i] \in Services /\ (s[i].token => i < Len(s))
    <3> SUFFICES ASSUME NEW i \in 1..Len(s) PROVE s[i] \in Services /\ (s[i].token => i < Len(s))
      OBVIOUS
    <3>1. CASE i = 1
      BY <2>2, <2>3, <3>1
    <3>2. CASE i = 2
      BY <1>1, <2>3, <3>2
    <3> QED  BY <2>3, <3>1, <3>2
  <2> QED  BY <2>1, <2>3, <2>4 DEF s
<1>11. \A p \in Plans : Sound(p)
  <2> HIDE DEF Sound
  <2> QED  BY <1>5, <1>6, <1>7, <1>8, <1>9, <1>10, Zenon DEF Plans
<1> QED  BY <1>11

\* A first attempt is a good call.
LEMMA AttemptIs ==
    \A p \in Plans, w \in Words, round \in Nat : \A i \in 1..Len(p.services) :
        Attempt(p, w, i, round) \in CallerStates
<1> SUFFICES ASSUME NEW p \in Plans, NEW w \in Words, NEW round \in Nat, NEW i \in 1..Len(p.services)
             PROVE  Attempt(p, w, i, round) \in CallerStates
  OBVIOUS
<1> DEFINE a == Attempt(p, w, i, round)
<1>1. i \in Nat /\ 0 \in 0..MaxWait
  BY PlansAre, GatewayAssumption
<1>2. /\ a \in Attempts /\ a.plan = p /\ a.service = i
      /\ a.at = (IF p.services[i].token THEN "token" ELSE "call")
  BY <1>1 DEF Attempt, Attempts
<1> HIDE DEF a
<1>3. GoodCall(a)
  BY <1>2 DEF GoodCall
<1>4. a \in CallerStates
  BY <1>2, <1>3 DEF CallerStates
<1> QED  BY <1>4 DEF a

\* An answer is a state of a caller.
LEMMA AnswerIs ==
    \A what \in {"hit", "told", "absent", "guess", "throw", "unavailable"}, age \in 0..Ttl :
        Answer(what, age) \in CallerStates
BY DEF Answer, CallerStates, Answers

\* Who asks a service makes a good call, who is answered has an answer.
LEMMA CallerIs ==
    \A a \in CallerStates :
        /\ a.at \in {"token", "call", "fetch"} => GoodCall(a)
        /\ a.at = "answered" => a \in Answers
BY DEF CallerStates, Idle, Answers, Attempts

GatewayInv ==
    /\ CacheBook(held, recent)
    /\ caller \in [Callers -> CallerStates]
    /\ token \in 0..TokenLife /\ adcPause \in 0..AdcPause /\ plans \subseteq Plans

\* The call of b once it bears a token good for g ticks.
Bears(b, g) == [b EXCEPT !.at = "call", !.good = g]

\* It is the same call of the same plan.
LEMMA BearsToken ==
    \A b \in Attempts, g \in Int :
        /\ Bears(b, g) \in Attempts
        /\ Bears(b, g).plan = b.plan /\ Bears(b, g).service = b.service
        /\ Bears(b, g).at = "call" /\ Bears(b, g).good = g
  BY DEF Bears, Attempts

\* What is stored is the newest, whether or not its key was there.
LEMMA SetKeeps ==
    \A k \in Keys : CacheBook(held, recent)
        => CacheBook(Set(k), Recent(recent, [key |-> k, age |-> 0]))
<1> SUFFICES ASSUME NEW k \in Keys, CacheBook(held, recent)
             PROVE  CacheBook(Set(k), Recent(recent, [key |-> k, age |-> 0]))
  OBVIOUS
<1> DEFINE e == [key |-> k, age |-> 0]
           kept == IF ~Has(held, k) /\ Len(held) >= Capacity THEN Tail(held) ELSE Without(held, k)
<1>0. Capacity \in Nat \ {0} /\ Ttl \in Nat
  BY GatewayAssumption
<1>1. e \in Entries /\ e.key = k
  BY <1>0 DEF Entries, Expired
<1>2. held \in Seq(Entries) /\ Distinct(held) /\ Len(held) <= Capacity /\ Len(held) \in Nat
  BY DEF CacheBook
<1>3. Set(k) = Append(kept, e)
  BY DEF Set
<1> HIDE DEF e
<1>4. CASE ~Has(held, k) /\ Len(held) >= Capacity
  <2>1. kept = Tail(held) /\ Len(held) = Capacity /\ Len(held) > 0
    BY <1>0, <1>2, <1>4
  <2> HIDE DEF kept
  <2>2. /\ kept \in Seq(Entries) /\ Len(kept) = Len(held) - 1
        /\ \A i \in 2..Len(held) : \E m \in 1..Len(kept) : kept[m] = held[i]
        /\ Within(kept, held) /\ Distinct(kept)
    BY <1>2, <2>1, TailIs
  <2>3. \A m \in 1..Len(kept) : kept[m].key # k
    BY <1>4, <2>2 DEF Has, Within
  <2>4. Len(kept) < Capacity
    BY <1>0, <2>1, <2>2
  <2>5. \A i \in 1..Len(held) : held[i].key # e.key =>
           \/ \E m \in 1..Len(kept) : kept[m] = held[i]
           \/ i = 1 /\ Len(held) = Capacity /\ ~Has(held, e.key)
    <3> SUFFICES ASSUME NEW i \in 1..Len(held), i # 1 PROVE \E m \in 1..Len(kept) : kept[m] = held[i]
      BY <1>1, <1>4, <2>1
    <3>1. i \in 2..Len(held)
      BY <1>2
    <3> QED  BY <2>2, <3>1
  <2>6. CacheBook(Append(kept, e), Recent(recent, e))
    BY <1>1, <2>2, <2>3, <2>4, <2>5, UseKeeps
  <2> QED  BY <1>3, <2>6 DEF e
<1>5. CASE ~(~Has(held, k) /\ Len(held) >= Capacity)
  <2>1. kept = Without(held, k)
    BY <1>5
  <2> HIDE DEF kept
  <2>2. /\ kept \in Seq(Entries) /\ Len(kept) <= Len(held)
        /\ Has(held, k) => Len(kept) = Len(held) - 1
        /\ \A m \in 1..Len(kept) : kept[m].key # k
        /\ \A i \in 1..Len(held) : held[i].key # k => \E m \in 1..Len(kept) : kept[m] = held[i]
        /\ Within(kept, held) /\ Distinct(kept)
    BY <1>2, <2>1, WithoutIs
  <2>3. Len(kept) < Capacity
    <3>1. Len(kept) \in Nat
      BY <2>2
    <3> QED  BY <1>0, <1>2, <1>5, <2>2, <3>1
  <2>4. CacheBook(Append(kept, e), Recent(recent, e))
    BY <1>1, <2>2, <2>3, UseKeeps
  <2> QED  BY <1>3, <2>4 DEF e
<1> QED  BY <1>4, <1>5

\* What is looked up becomes the newest if it is there and has not expired.
LEMMA GetKeeps ==
    \A k \in Keys : CacheBook(held, recent) =>
        /\ Hit(k) => /\ EntryOf(k) \in Entries /\ EntryOf(k).key = k /\ EntryOf(k).age \in 0..Ttl
                     /\ CacheBook(Get(k), Recent(recent, [key |-> k, age |-> EntryOf(k).age]))
        /\ ~Hit(k) => CacheBook(Get(k), recent)
<1> SUFFICES ASSUME NEW k \in Keys, CacheBook(held, recent)
             PROVE  /\ Hit(k) => /\ EntryOf(k) \in Entries /\ EntryOf(k).key = k /\ EntryOf(k).age \in 0..Ttl
                                 /\ CacheBook(Get(k), Recent(recent, [key |-> k, age |-> EntryOf(k).age]))
                    /\ ~Hit(k) => CacheBook(Get(k), recent)
  OBVIOUS
<1>0. Capacity \in Nat \ {0} /\ Ttl \in Nat /\ Expired = Ttl + 1
  BY GatewayAssumption DEF Expired
<1>2. held \in Seq(Entries) /\ Distinct(held) /\ Len(held) <= Capacity /\ Len(held) \in Nat
  BY DEF CacheBook
<1>3. CASE Hit(k)
  <2> DEFINE e == EntryOf(k)
             kept == Without(held, k)
  <2>1. Has(held, k) /\ e.age # Expired
    BY <1>3 DEF Hit
  <2>2. e \in Entries /\ e.key = k
    <3>1. Where(held, k) \in 1..Len(held) /\ held[Where(held, k)].key = k
      BY <2>1, WhereIs
    <3> QED  BY <1>2, <3>1 DEF EntryOf
  <2>3. Get(k) = Append(kept, e)
    BY <1>3 DEF Get
  <2> HIDE DEF e, kept
  <2>4. e.age \in 0..Ttl /\ e = [key |-> k, age |-> e.age]
    BY <1>0, <2>1, <2>2 DEF Entries
  <2>5. /\ kept \in Seq(Entries) /\ Len(kept) = Len(held) - 1
        /\ \A m \in 1..Len(kept) : kept[m].key # k
        /\ \A i \in 1..Len(held) : held[i].key # k => \E m \in 1..Len(kept) : kept[m] = held[i]
        /\ Within(kept, held) /\ Distinct(kept)
    BY <1>2, <2>1, WithoutIs DEF kept
  <2>6. Len(kept) < Capacity
    BY <1>0, <1>2, <2>5
  <2>7. CacheBook(Append(kept, e), Recent(recent, e))
    BY <2>2, <2>5, <2>6, UseKeeps
  <2> QED  BY <1>3, <2>2, <2>3, <2>4, <2>7 DEF e
<1>4. CASE ~Hit(k)
  <2>1. Get(k) = Without(held, k)
    BY <1>4 DEF Get
  <2>2. \A i \in 1..Len(held) : held[i].key = k => ~(held[i].age <= Ttl)
    <3> SUFFICES ASSUME NEW i \in 1..Len(held), held[i].key = k PROVE ~(held[i].age <= Ttl)
      OBVIOUS
    <3>1. Has(held, k)
      BY DEF Has
    <3>2. Where(held, k) = i
      BY <1>2, <3>1, WhereIs DEF Distinct
    <3>3. held[i].age = Expired
      BY <1>4, <3>1, <3>2 DEF Hit, EntryOf
    <3> QED  BY <1>0, <3>3
  <2>3. CacheBook(Without(held, k), recent)
    BY <2>2, RemovalKeeps
  <2> QED  BY <1>4, <2>1, <2>3
<1> QED  BY <1>3, <1>4

LEMMA GatewayStart == GatewayInit => GatewayInv
<1> SUFFICES ASSUME GatewayInit PROVE GatewayInv
  OBVIOUS
<1>1. CacheBook(<<>>, <<>>)
  <2>1. <<>> \in Seq(Entries) /\ Len(<<>>) = 0 /\ 0 <= Capacity
    BY GatewayAssumption
  <2> QED  BY <2>1 DEF CacheBook, Distinct, Lru
<1>2. caller \in [Callers -> CallerStates]
  BY DEF GatewayInit, CallerStates
<1>3. 0 \in 0..TokenLife /\ 0 \in 0..AdcPause
  BY GatewayAssumption
<1>4. plans \subseteq Plans
  BY DEF GatewayInit
<1> QED  BY <1>1, <1>2, <1>3, <1>4 DEF GatewayInit, GatewayInv

LEMMA GatewayStep == GatewayInv /\ [GatewayNext]_gatewayVars => GatewayInv'
<1> SUFFICES ASSUME GatewayInv, [GatewayNext]_gatewayVars PROVE GatewayInv'
  OBVIOUS
<1> USE DEF gatewayVars
<1>0. /\ CacheBook(held, recent) /\ caller \in [Callers -> CallerStates]
      /\ token \in 0..TokenLife /\ adcPause \in 0..AdcPause /\ plans \subseteq Plans
  BY DEF GatewayInv
<1>n. /\ Ttl \in Nat /\ TokenMargin \in Nat /\ TokenLife \in Nat /\ AdcPause \in Nat /\ MaxWait \in Nat
      /\ MaxWait < TokenLife
  BY GatewayAssumption
<1>c. ASSUME NEW c \in Callers, caller[c].at \in {"token", "call", "fetch"}
      PROVE  /\ GoodCall(caller[c]) /\ caller[c] \in Attempts /\ caller[c].plan \in Plans /\ caller[c].word \in Words
             /\ caller[c].service \in 1..Len(caller[c].plan.services)
             /\ Key(caller[c].plan, caller[c].word) \in Keys
  <2>1. GoodCall(caller[c])
    BY <1>0, <1>c, CallerIs
  <2>2. caller[c] \in Attempts /\ caller[c].service \in 1..Len(caller[c].plan.services)
    BY <2>1 DEF GoodCall
  <2>3. caller[c].plan \in Plans /\ caller[c].word \in Words
    BY <2>2 DEF Attempts
  <2> QED  BY <2>1, <2>2, <2>3 DEF Keys
<1>l. ASSUME NEW c \in Callers, caller[c].at \in {"token", "fetch"}
      PROVE  caller[c].service < Len(caller[c].plan.services) /\ caller[c].waited \in Nat
  <2> DEFINE p == caller[c].plan
             i == caller[c].service
  <2>1. GoodCall(caller[c]) /\ caller[c] \in Attempts /\ p \in Plans /\ i \in 1..Len(p.services)
    BY <1>c, <1>l
  <2>2. p.services[i].token
    BY <1>l, <2>1 DEF GoodCall
  <2>3. caller[c].waited \in Nat
    BY <1>n, <2>1 DEF Attempts
  <2> HIDE DEF p, i
  <2>4. i < Len(p.services)
    BY <2>1, <2>2, PlansAre
  <2> QED  BY <2>3, <2>4 DEF p, i
<1>t. ASSUME NEW k, NEW age, Touch(k, age) PROVE recent' = Recent(recent, [key |-> k, age |-> age])
  BY <1>t DEF Touch, Recent
<1>u. ASSUME NEW c \in Callers, NEW a \in CallerStates, caller' = [caller EXCEPT ![c] = a]
      PROVE  caller' \in [Callers -> CallerStates]
  BY <1>0, <1>u
<1>s. ASSUME NEW c \in Callers, NEW what \in {"told", "absent", "guess"},
             caller[c].at = "call", Store(c, what)
      PROVE  CacheBook(held', recent') /\ caller' \in [Callers -> CallerStates]
  <2> DEFINE k == Key(caller[c].plan, caller[c].word)
  <2>1. held' = Set(k) /\ Touch(k, 0) /\ caller' = [caller EXCEPT ![c] = Answer(what, 0)]
    BY <1>s DEF Store
  <2>2. k \in Keys
    BY <1>c, <1>s
  <2> HIDE DEF k
  <2>3. recent' = Recent(recent, [key |-> k, age |-> 0])
    BY <1>t, <2>1
  <2>4. CacheBook(Set(k), Recent(recent, [key |-> k, age |-> 0]))
    BY <1>0, <2>2, SetKeeps
  <2>5. Answer(what, 0) \in CallerStates
    BY <1>n, AnswerIs
  <2> QED  BY <1>u, <2>1, <2>3, <2>4, <2>5
<1>k. ASSUME NEW c \in Callers, caller[c].at \in {"token", "call", "fetch"},
             caller[c].service < Len(caller[c].plan.services), AskNextService(c)
      PROVE  CacheBook(held', recent') /\ caller' \in [Callers -> CallerStates]
  <2> DEFINE a == Attempt(caller[c].plan, caller[c].word, caller[c].service + 1, caller[c].round)
  <2>1. caller' = [caller EXCEPT ![c] = a] /\ UNCHANGED <<held, recent>>
    BY <1>k DEF AskNextService
  <2>2. /\ caller[c].plan \in Plans /\ caller[c].word \in Words /\ caller[c].round \in Nat
        /\ caller[c].service \in 1..Len(caller[c].plan.services)
    BY <1>c, <1>k DEF Attempts
  <2>3. caller[c].service + 1 \in 1..Len(caller[c].plan.services)
    BY <1>k, <2>2, PlansAre
  <2>4. a \in CallerStates
    BY <2>2, <2>3, AttemptIs
  <2> HIDE DEF a
  <2> QED  BY <1>0, <1>u, <2>1, <2>4
<1>1. ASSUME NEW c \in Callers, NEW p \in plans, NEW w \in Words, Ask(c, p, w) PROVE GatewayInv'
  <2> DEFINE k == Key(p, w)
  <2>1. p \in Plans /\ k \in Keys
    BY <1>0 DEF Keys
  <2>2. CASE p.reads /\ Hit(k)
    <3>1. /\ held' = Get(k) /\ Touch(k, EntryOf(k).age)
          /\ caller' = [caller EXCEPT ![c] = Answer("hit", EntryOf(k).age)]
          /\ UNCHANGED <<token, adcPause, plans>>
      BY <1>1, <2>2 DEF Ask
    <3> HIDE DEF k
    <3>2. EntryOf(k).age \in 0..Ttl /\ CacheBook(Get(k), Recent(recent, [key |-> k, age |-> EntryOf(k).age]))
      BY <1>0, <2>1, <2>2, GetKeeps
    <3>3. recent' = Recent(recent, [key |-> k, age |-> EntryOf(k).age])
      BY <1>t, <3>1
    <3>4. Answer("hit", EntryOf(k).age) \in CallerStates
      BY <3>2, AnswerIs
    <3>5. caller' \in [Callers -> CallerStates]
      BY <1>u, <3>1, <3>4
    <3> QED  BY <1>0, <3>1, <3>2, <3>3, <3>5 DEF GatewayInv
  <2>3. CASE ~(p.reads /\ Hit(k))
    <3>1. /\ held' = (IF p.reads THEN Get(k) ELSE held)
          /\ caller' = [caller EXCEPT ![c] = Attempt(p, w, 1, 1)]
          /\ UNCHANGED <<recent, token, adcPause, plans>>
      BY <1>1, <2>3 DEF Ask
    <3> HIDE DEF k
    <3>2. CacheBook(held', recent')
      BY <1>0, <2>1, <2>3, <3>1, GetKeeps
    <3>3. Attempt(p, w, 1, 1) \in CallerStates
      <4>1. 1 \in 1..Len(p.services) /\ 1 \in Nat
        BY <2>1, PlansAre
      <4> QED  BY <2>1, <4>1, AttemptIs
    <3>4. caller' \in [Callers -> CallerStates]
      BY <1>u, <3>1, <3>3
    <3> QED  BY <1>0, <3>1, <3>2, <3>4 DEF GatewayInv
  <2> QED  BY <2>2, <2>3
<1>2. ASSUME NEW c \in Callers, Succeeds(c) PROVE GatewayInv'
  <2>1. caller[c].at = "call" /\ UNCHANGED <<token, adcPause, plans>>
    BY <1>2 DEF Succeeds
  <2>2. CASE Store(c, "told")
    BY <1>0, <1>s, <2>1, <2>2 DEF GatewayInv
  <2>3. CASE /\ caller' = [caller EXCEPT ![c] = Attempt(caller[c].plan, caller[c].word, 1, caller[c].round + 1)]
             /\ UNCHANGED <<held, recent>>
    <3>1. /\ caller[c].plan \in Plans /\ caller[c].word \in Words /\ caller[c].round + 1 \in Nat
          /\ 1 \in 1..Len(caller[c].plan.services)
      BY <1>c, <2>1, PlansAre DEF Attempts
    <3>2. Attempt(caller[c].plan, caller[c].word, 1, caller[c].round + 1) \in CallerStates
      BY <3>1, AttemptIs
    <3>3. caller' \in [Callers -> CallerStates]
      BY <1>u, <2>3, <3>2
    <3> QED  BY <1>0, <2>1, <2>3, <3>3 DEF GatewayInv
  <2> QED  BY <1>2, <2>2, <2>3 DEF Succeeds
<1>3. ASSUME NEW c \in Callers, NoSuchData(c) PROVE GatewayInv'
  <2>1. caller[c].at = "call" /\ Store(c, "absent") /\ UNCHANGED <<token, adcPause, plans>>
    BY <1>3 DEF NoSuchData
  <2> QED  BY <1>0, <1>s, <2>1 DEF GatewayInv
<1>4. ASSUME NEW c \in Callers, Return(c) PROVE GatewayInv'
  <2>1. caller' = [caller EXCEPT ![c] = Idle] /\ UNCHANGED <<held, recent, token, adcPause, plans>>
    BY <1>4 DEF Return
  <2>2. Idle \in CallerStates
    BY DEF CallerStates
  <2>3. caller' \in [Callers -> CallerStates]
    BY <1>u, <2>1, <2>2
  <2> QED  BY <1>0, <2>1, <2>3 DEF GatewayInv
<1>5. ASSUME NEW c \in Callers, NEW how \in {"refused", "broken"}, Fails(c, how) PROVE GatewayInv'
  <2> DEFINE p == caller[c].plan
  <2>1. caller[c].at = "call" /\ UNCHANGED <<token, adcPause, plans>>
    BY <1>5 DEF Fails
  <2>2. /\ GoodCall(caller[c]) /\ caller[c] \in Attempts /\ p \in Plans
        /\ caller[c].service \in 1..Len(p.services)
    BY <1>c, <2>1
  <2>3. CASE caller' = [caller EXCEPT ![c].try = @ + 1] /\ UNCHANGED <<held, recent>>
    <3> DEFINE a == [caller[c] EXCEPT !.try = @ + 1]
    <3>1. /\ a \in Attempts /\ a.plan = caller[c].plan /\ a.service = caller[c].service
          /\ a.at = caller[c].at /\ a.good = caller[c].good
      BY <2>2 DEF Attempts
    <3>2. caller' = [caller EXCEPT ![c] = a]
      BY <2>3
    <3> HIDE DEF a
    <3>3. a \in CallerStates
      BY <2>2, <3>1 DEF GoodCall, CallerStates
    <3>4. caller' \in [Callers -> CallerStates]
      BY <1>u, <3>2, <3>3
    <3> QED  BY <1>0, <2>1, <2>3, <3>4 DEF GatewayInv
  <2>4. CASE GiveUp(c)
    <3>1. CASE caller[c].service < Len(p.services) /\ AskNextService(c)
      BY <1>0, <1>k, <2>1, <3>1 DEF GatewayInv
    <3>2. CASE Store(c, "guess")
      BY <1>0, <1>s, <2>1, <3>2 DEF GatewayInv
    <3>3. CASE /\ p.last # "guess" /\ caller' = [caller EXCEPT ![c] = Answer(p.last, 0)]
               /\ UNCHANGED <<held, recent>>
      <4>1. p.last \in {"throw", "unavailable"} /\ 0 \in 0..Ttl
        BY <1>n, <2>2, <3>3, PlansAre
      <4>2. Answer(p.last, 0) \in CallerStates
        BY <4>1, AnswerIs
      <4>3. caller' \in [Callers -> CallerStates]
        BY <1>u, <3>3, <4>2
      <4> QED  BY <1>0, <2>1, <3>3, <4>3 DEF GatewayInv
    <3> QED  BY <2>4, <3>1, <3>2, <3>3 DEF GiveUp
  <2> QED  BY <1>5, <2>3, <2>4 DEF Fails
<1>6. ASSUME NEW c \in Callers, UseToken(c) PROVE GatewayInv'
  <2> DEFINE a == Bears(caller[c], token)
  <2>1. /\ caller[c].at = "token" /\ token > TokenMargin /\ caller' = [caller EXCEPT ![c] = a]
        /\ UNCHANGED <<held, recent, token, adcPause, plans>>
    BY <1>6 DEF UseToken, Bears
  <2>2. GoodCall(caller[c]) /\ caller[c] \in Attempts
    BY <1>c, <2>1
  <2>3. /\ a \in Attempts /\ a.plan = caller[c].plan /\ a.service = caller[c].service
        /\ a.at = "call" /\ a.good = token
    <3>1. token \in Int
      BY <1>0, <1>n
    <3> QED  BY <2>2, <3>1, BearsToken
  <2>4. token > 0
    BY <1>0, <1>n, <2>1
  <2> HIDE DEF a
  <2>5. a \in CallerStates
    BY <2>2, <2>3, <2>4 DEF GoodCall, CallerStates
  <2>6. caller' \in [Callers -> CallerStates]
    BY <1>u, <2>1, <2>5
  <2> QED  BY <1>0, <2>1, <2>6 DEF GatewayInv
<1>7. ASSUME NEW c \in Callers, NoToken(c) PROVE GatewayInv'
  <2>1. caller[c].at = "token" /\ AskNextService(c) /\ UNCHANGED <<token, adcPause, plans>>
    BY <1>7 DEF NoToken
  <2>2. caller[c].service < Len(caller[c].plan.services)
    BY <1>l, <2>1
  <2>3. CacheBook(held', recent') /\ caller' \in [Callers -> CallerStates]
    BY <1>k, <2>1, <2>2
  <2> QED  BY <1>0, <2>1, <2>3 DEF GatewayInv
<1>8. ASSUME NEW c \in Callers, FetchToken(c) PROVE GatewayInv'
  <2> DEFINE a == [caller[c] EXCEPT !.at = "fetch"]
  <2>1. /\ caller[c].at = "token" /\ caller' = [caller EXCEPT ![c] = a]
        /\ UNCHANGED <<held, recent, token, adcPause, plans>>
    BY <1>8 DEF FetchToken
  <2>2. GoodCall(caller[c]) /\ caller[c] \in Attempts
    BY <1>c, <2>1
  <2>3. /\ a \in Attempts /\ a.plan = caller[c].plan /\ a.service = caller[c].service /\ a.at = "fetch"
    BY <2>2 DEF Attempts
  <2> HIDE DEF a
  <2>4. a \in CallerStates
    BY <2>1, <2>2, <2>3 DEF GoodCall, CallerStates
  <2>5. caller' \in [Callers -> CallerStates]
    BY <1>u, <2>1, <2>4
  <2> QED  BY <1>0, <2>1, <2>5 DEF GatewayInv
<1>9. ASSUME NEW c \in Callers, TokenFetched(c) PROVE GatewayInv'
  <2> DEFINE life == TokenLife - caller[c].waited
             a == Bears(caller[c], life)
  <2>1. /\ caller[c].at = "fetch" /\ token' = life /\ caller' = [caller EXCEPT ![c] = a]
        /\ UNCHANGED <<held, recent, adcPause, plans>>
    BY <1>9 DEF TokenFetched, Bears
  <2>2. GoodCall(caller[c]) /\ caller[c] \in Attempts
    BY <1>c, <2>1
  <2>3. life \in 0..TokenLife /\ life > 0
    BY <1>n, <2>2 DEF Attempts
  <2> HIDE DEF life
  <2>4. /\ a \in Attempts /\ a.plan = caller[c].plan /\ a.service = caller[c].service
        /\ a.at = "call" /\ a.good = life
    <3>1. life \in Int
      BY <1>n, <2>3
    <3> QED  BY <2>2, <3>1, BearsToken
  <2> HIDE DEF a
  <2>5. a \in CallerStates
    BY <2>2, <2>3, <2>4 DEF GoodCall, CallerStates
  <2>6. caller' \in [Callers -> CallerStates]
    BY <1>u, <2>1, <2>5
  <2> QED  BY <1>0, <2>1, <2>3, <2>6 DEF GatewayInv
<1>10. ASSUME NEW c \in Callers, TokenFails(c) PROVE GatewayInv'
  <2>1. /\ caller[c].at = "fetch" /\ AskNextService(c) /\ UNCHANGED <<token, plans>>
        /\ adcPause' = IF caller[c].waited < AdcPause THEN AdcPause - caller[c].waited ELSE 0
    BY <1>10 DEF TokenFails
  <2>2. caller[c].service < Len(caller[c].plan.services) /\ caller[c].waited \in Nat
    BY <1>l, <2>1
  <2>3. adcPause' \in 0..AdcPause
    BY <1>n, <2>1, <2>2
  <2>4. CacheBook(held', recent') /\ caller' \in [Callers -> CallerStates]
    BY <1>k, <2>1, <2>2
  <2> QED  BY <1>0, <2>1, <2>3, <2>4 DEF GatewayInv
<1>11. ASSUME TimePasses PROVE GatewayInv'
  <2>1. CacheBook(held', recent')
    BY <1>0, <1>11, AgeKeeps DEF TimePasses
  <2>2. caller' \in [Callers -> CallerStates]
    <3> SUFFICES ASSUME NEW c \in Callers, caller[c].at = "fetch"
                 PROVE  [caller[c] EXCEPT !.waited = @ + 1] \in CallerStates
      BY <1>0, <1>11 DEF TimePasses
    <3> DEFINE a == [caller[c] EXCEPT !.waited = @ + 1]
    <3>1. GoodCall(caller[c]) /\ caller[c] \in Attempts
      BY <1>c
    <3>2. caller[c].waited \in 0..MaxWait /\ caller[c].waited < MaxWait
      BY <1>11, <3>1 DEF TimePasses, Attempts
    <3>3. caller[c].waited + 1 \in 0..MaxWait
      BY <1>n, <3>2
    <3>4. /\ a \in Attempts /\ a.plan = caller[c].plan /\ a.service = caller[c].service
          /\ a.at = caller[c].at /\ a.good = caller[c].good
      BY <3>1, <3>3 DEF Attempts
    <3> HIDE DEF a
    <3>5. a \in CallerStates
      BY <3>1, <3>4 DEF GoodCall, CallerStates
    <3> QED  BY <3>5 DEF a
  <2>3. token' \in 0..TokenLife /\ adcPause' \in 0..AdcPause
    BY <1>0, <1>n, <1>11 DEF TimePasses
  <2> QED  BY <1>0, <1>11, <2>1, <2>2, <2>3 DEF GatewayInv, TimePasses
<1>12. ASSUME UNCHANGED gatewayVars PROVE GatewayInv'
  BY <1>0, <1>12 DEF GatewayInv
<1> QED
  BY <1>1, <1>2, <1>3, <1>4, <1>5, <1>6, <1>7, <1>8, <1>9, <1>10, <1>11, <1>12 DEF GatewayNext

\* Every state of a client and its cache is typed; the cache never holds more
\* than it may, nor a key twice.
THEOREM GatewayIsTyped == GatewaySpec => []GatewayTypes
<1>1. GatewayInv => GatewayTypes
  <2> SUFFICES ASSUME GatewayInv PROVE GatewayTypes
    OBVIOUS
  <2>1. held \in Seq(Entries) /\ Distinct(held) /\ Len(held) <= Capacity
    BY DEF GatewayInv, CacheBook
  <2>2. \A i \in 1..Len(held) : held[i].age \in 0..Expired
    <3>1. \A e \in Entries : e.age \in 0..Expired
      BY DEF Entries
    <3>2. \A i \in 1..Len(held) : held[i] \in Entries
      BY <2>1
    <3> QED  BY <3>1, <3>2
  <2>3. IsInjective([i \in 1..Len(held) |-> held[i].key])
    BY <2>1 DEF IsInjective, Distinct
  <2> QED  BY <2>1, <2>2, <2>3 DEF GatewayInv, GatewayTypes
<1> QED  BY <1>1, GatewayStart, GatewayStep, PTL DEF GatewaySpec

\* However calls overlap and fail, no answer from the cache is older than its
\* expiry, what was used last is held until it expires, and a call that needs a
\* token bears a good one.  For every number of callers, arguments, and size and
\* expiry of the cache.
THEOREM TheCachesKeepTheirWord == GatewaySpec => []CachesKeepTheirWord
<1>1. GatewayInv => CachesKeepTheirWord
  <2> SUFFICES ASSUME GatewayInv PROVE CachesKeepTheirWord
    OBVIOUS
  <2>1. caller \in [Callers -> CallerStates] /\ Lru(held, recent)
    BY DEF GatewayInv, CacheBook
  <2>2. \A c \in Callers : caller[c].at = "answered" => caller[c].age <= Ttl
    <3>1. Ttl \in Nat
      BY GatewayAssumption
    <3> QED  BY <2>1, <3>1, CallerIs DEF Answers
  <2>3. \A c \in Callers : caller[c].at = "call" /\ caller[c].plan.services[caller[c].service].token
           => caller[c].good > 0
    BY <2>1, CallerIs DEF GoodCall
  <2> QED  BY <2>1, <2>2, <2>3 DEF CachesKeepTheirWord, Lru
<1> QED  BY <1>1, GatewayStart, GatewayStep, PTL DEF GatewaySpec

----------------------------------------------------------------------------
\* The tracking poller.

\* The registry and the chains point at each other.
Linked ==
    /\ \A c \in Chains : chain[c].pc # "none" =>
          chain[c].order \in Orders /\ registry[chain[c].order] = c
    /\ \A o \in Orders : registry[o] # NoChain =>
          chain[registry[o]].pc # "none" /\ chain[registry[o]].order = o

Inv == TypeOK /\ Linked

----------------------------------------------------------------------------
\* Nothing is tracked when the process starts.
LEMMA InvInit == Init => Inv
  BY PollerAssumption DEF Init, Inv, TypeOK, Linked, Chain, NoTimer, Status, ACTIVE_STATUSES

\* A step of a chain that goes on with the same order, under the same timer
\* handle, keeps the links (poller.ts: the callback between its awaits).
LEMMA ChainGoesOn ==
    ASSUME Inv, NEW c \in Chains, chain[c].pc # "none", NEW r \in Chain,
           r.pc # "none", r.order = chain[c].order,
           chain' = [chain EXCEPT ![c] = r], UNCHANGED registry
    PROVE  chain' \in [Chains -> Chain] /\ Linked'
<1>1. chain \in [Chains -> Chain] /\ registry \in [Orders -> Chains \union {NoChain}]
  BY DEF Inv, TypeOK
<1>2. chain'[c] = r /\ \A d \in Chains \ {c} : chain'[d] = chain[d]
  BY <1>1
<1>3. chain' \in [Chains -> Chain]
  BY <1>1
<1>4. \A d \in Chains : /\ chain'[d].pc # "none" <=> chain[d].pc # "none"
                        /\ chain'[d].order = chain[d].order
  BY <1>2
<1>5. \A o \in Orders : registry[o] # NoChain => registry[o] \in Chains
  BY <1>1
<1> QED  BY <1>3, <1>4, <1>5 DEF Inv, Linked

\* startPolling arms a chain that did not exist, for an order that has none.
LEMMA InvTrack == ASSUME Inv, NEW o \in Orders, Track(o) PROVE Inv'
<1>1. PICK c \in Chains : /\ chain[c].pc = "none"
                          /\ chain' = [chain EXCEPT ![c] = Armed(o)]
                          /\ registry' = [registry EXCEPT ![o] = c]
  BY DEF Track
<1>2. chain \in [Chains -> Chain] /\ registry \in [Orders -> Chains \union {NoChain}] /\ registry[o] = NoChain
  BY DEF Inv, TypeOK, Track
<1>3. Armed(o) \in Chain /\ Armed(o).pc # "none" /\ Armed(o).order = o
  BY DEF Armed, Chain
<1>4. chain'[c] = Armed(o) /\ \A d \in Chains \ {c} : chain'[d] = chain[d]
  BY <1>1, <1>2
<1>5. registry'[o] = c /\ \A p \in Orders \ {o} : registry'[p] = registry[p]
  BY <1>1, <1>2
<1>6. TypeOK'
  BY <1>1, <1>2, <1>3 DEF Inv, TypeOK, Track
<1>7. ASSUME NEW d \in Chains, chain'[d].pc # "none"
      PROVE  chain'[d].order \in Orders /\ registry'[chain'[d].order] = d
  <2>1. CASE d = c
    BY <2>1, <1>3, <1>4, <1>5
  <2>2. CASE d # c
    <3>1. chain[d].order \in Orders /\ registry[chain[d].order] = d
      BY <2>2, <1>4, <1>7 DEF Inv, Linked
    <3>2. chain[d].order # o
      BY <3>1, <1>2, PollerAssumption
    <3> QED  BY <3>1, <3>2, <2>2, <1>4, <1>5
  <2> QED  BY <2>1, <2>2
<1>8. ASSUME NEW p \in Orders, registry'[p] # NoChain
      PROVE  chain'[registry'[p]].pc # "none" /\ chain'[registry'[p]].order = p
  <2>1. CASE p = o
    BY <2>1, <1>3, <1>4, <1>5
  <2>2. CASE p # o
    <3>1. registry[p] \in Chains /\ chain[registry[p]].pc # "none" /\ chain[registry[p]].order = p
      BY <2>2, <1>2, <1>5, <1>8 DEF Inv, Linked
    <3> QED  BY <3>1, <2>2, <1>1, <1>4, <1>5
  <2> QED  BY <2>1, <2>2
<1> QED  BY <1>6, <1>7, <1>8 DEF Inv, Linked

\* schedule, as the callback and its catch call it: the handle it clears is the
\* chain's own, so no other chain loses its timer.
LEMMA InvSchedule ==
    ASSUME Inv, NEW c \in Chains, chain[c].pc # "none",
           Schedule(c, chain[c].order), UNCHANGED <<row, swiggy, cancel>>
    PROVE  Inv'
<1> DEFINE r == Armed(chain[c].order)
<1>1. chain \in [Chains -> Chain] /\ registry \in [Orders -> Chains \union {NoChain}]
  BY DEF Inv, TypeOK
<1>2. chain[c].order \in Orders /\ registry[chain[c].order] = c
  BY DEF Inv, Linked
<1>3. r \in Chain /\ r.pc # "none" /\ r.order = chain[c].order
  BY <1>2 DEF Armed, Chain
<1>4. chain' = [chain EXCEPT ![c] = r] /\ registry' = registry
  BY <1>1, <1>2 DEF Schedule
<1> HIDE DEF r
<1>5. chain' \in [Chains -> Chain] /\ Linked'
  BY <1>3, <1>4, ChainGoesOn
<1> QED  BY <1>4, <1>5 DEF Inv, TypeOK

\* The callback from the timer to its check.
LEMMA InvPoll ==
    ASSUME Inv, NEW c \in Chains,
           Fire(c) \/ SwiggyAnswers(c) \/ CallFails(c) \/ WriteStatus(c) \/ Throw(c)
    PROVE  Inv'
<1>1. /\ chain \in [Chains -> Chain] /\ registry \in [Orders -> Chains \union {NoChain}]
      /\ swiggy \in [Orders -> Status] /\ row \in [Orders -> Status]
  BY DEF Inv, TypeOK
<1>2. chain[c].pc # "none" /\ chain[c] \in Chain
  BY <1>1 DEF Fire, SwiggyAnswers, CallFails, WriteStatus, Throw
<1>3. chain[c].order \in Orders /\ registry[chain[c].order] = c
  BY <1>2 DEF Inv, Linked
<1>4. PICK r : /\ r \in Chain /\ r.pc # "none" /\ r.order = chain[c].order
               /\ chain' = [chain EXCEPT ![c] = r]
  <2>1. CASE Fire(c)
    <3> DEFINE q == [chain[c] EXCEPT !.pc = "polling"]
    <3>1. q \in Chain /\ q.pc # "none" /\ q.order = chain[c].order
      BY <1>2 DEF Chain
    <3>2. chain' = [chain EXCEPT ![c] = q]
      BY <1>1, <2>1 DEF Fire
    <3> QED  BY <3>1, <3>2
  <2>2. CASE SwiggyAnswers(c)
    <3> DEFINE n == Normalize(swiggy[chain[c].order])
               q == [chain[c] EXCEPT !.pc = "writing", !.got = n]
    <3>1. n \in Status \union {"unknown"}
      BY <1>1, <1>3 DEF Normalize, Status
    <3> HIDE DEF n
    <3>2. q \in Chain /\ q.pc # "none" /\ q.order = chain[c].order
      BY <1>2, <3>1 DEF Chain
    <3>3. chain' = [chain EXCEPT ![c] = q]
      BY <1>1, <2>2 DEF SwiggyAnswers, n
    <3> QED  BY <3>2, <3>3
  <2>3. CASE CallFails(c)
    <3> DEFINE q == [chain[c] EXCEPT !.pc = "recheck"]
    <3>1. q \in Chain /\ q.pc # "none" /\ q.order = chain[c].order
      BY <1>2 DEF Chain
    <3>2. chain' = [chain EXCEPT ![c] = q]
      BY <1>1, <2>3 DEF CallFails
    <3> QED  BY <3>1, <3>2
  <2>4. CASE WriteStatus(c)
    <3> DEFINE q == [chain[c] EXCEPT !.pc = "recheck", !.got = "unknown"]
    <3>1. q \in Chain /\ q.pc # "none" /\ q.order = chain[c].order
      BY <1>2 DEF Chain
    <3>2. chain' = [chain EXCEPT ![c] = q]
      BY <1>1, <2>4 DEF WriteStatus
    <3> QED  BY <3>1, <3>2
  <2>5. CASE Throw(c)
    <3> DEFINE q == [chain[c] EXCEPT !.pc = "retry", !.got = "unknown"]
    <3>1. q \in Chain /\ q.pc # "none" /\ q.order = chain[c].order
      BY <1>2 DEF Chain
    <3>2. chain' = [chain EXCEPT ![c] = q]
      BY <1>1, <2>5 DEF Throw
    <3> QED  BY <3>1, <3>2
  <2> QED  BY <2>1, <2>2, <2>3, <2>4, <2>5
<1>5. registry' = registry
  BY <1>1, <1>3 DEF Fire, SwiggyAnswers, CallFails, WriteStatus, Throw
<1>6. chain' \in [Chains -> Chain] /\ Linked'
  BY <1>2, <1>4, <1>5, ChainGoesOn
<1>7. row' \in [Orders -> Status]
  <2>1. CASE WriteStatus(c)
    <3>1. CASE chain[c].got = "unknown"
      BY <1>1, <2>1, <3>1 DEF WriteStatus
    <3>2. CASE chain[c].got # "unknown"
      <4>1. chain[c].got \in Status
        BY <1>2, <3>2 DEF Chain
      <4> QED  BY <1>1, <2>1, <3>2, <4>1 DEF WriteStatus
    <3> QED  BY <3>1, <3>2
  <2>2. CASE ~WriteStatus(c)
    BY <1>1, <2>2 DEF Fire, SwiggyAnswers, CallFails, Throw
  <2> QED  BY <2>1, <2>2
<1>8. swiggy' = swiggy /\ cancel' = cancel
  BY DEF Fire, SwiggyAnswers, CallFails, WriteStatus, Throw
<1> QED  BY <1>1, <1>5, <1>6, <1>7, <1>8 DEF Inv, TypeOK

\* A chain that ends takes its own entry out of the registry.
LEMMA InvStop == ASSUME Inv, NEW c \in Chains, Stop(c) PROVE Inv'
<1>1. chain \in [Chains -> Chain] /\ registry \in [Orders -> Chains \union {NoChain}]
  BY DEF Inv, TypeOK
<1>2. PICK p \in Orders : p = chain[c].order /\ registry[p] = c
  BY DEF Stop, Inv, Linked
<1>3. /\ chain'[c].pc = "none" /\ \A d \in Chains \ {c} : chain'[d] = chain[d]
      /\ registry'[p] = NoChain /\ \A q \in Orders \ {p} : registry'[q] = registry[q]
  BY <1>1, <1>2 DEF Stop, NoTimer
<1>4. TypeOK'
  BY <1>1, <1>2 DEF Stop, Inv, TypeOK, NoTimer, Chain
<1>5. ASSUME NEW d \in Chains, chain'[d].pc # "none"
      PROVE  chain'[d].order \in Orders /\ registry'[chain'[d].order] = d
  <2>1. d # c /\ chain'[d] = chain[d]
    BY <1>3, <1>5
  <2>2. chain[d].order \in Orders /\ registry[chain[d].order] = d
    BY <2>1, <1>5 DEF Inv, Linked
  <2> QED  BY <2>1, <2>2, <1>2, <1>3
<1>6. ASSUME NEW q \in Orders, registry'[q] # NoChain
      PROVE  chain'[registry'[q]].pc # "none" /\ chain'[registry'[q]].order = q
  <2>1. q # p /\ registry'[q] = registry[q] /\ registry[q] \in Chains
    BY <1>1, <1>3, <1>6
  <2>2. chain[registry[q]].pc # "none" /\ chain[registry[q]].order = q
    BY <2>1, <1>6 DEF Inv, Linked
  <2>3. registry[q] # c
    BY <2>1, <2>2, <1>2
  <2> QED  BY <2>1, <2>2, <2>3, <1>3
<1> QED  BY <1>4, <1>5, <1>6 DEF Inv, Linked

\* The handlers around the poller write the row, and Swiggy moves on: neither
\* touches a timer.
LEMMA InvAround ==
    ASSUME Inv, NEW o \in Orders,
           SwiggyMoves(o) \/ RiderDelivers(o) \/ CancelCheck(o) \/ CancelWrite(o)
    PROVE  Inv'
<1>1. Linked'
  BY DEF SwiggyMoves, RiderDelivers, CancelCheck, CancelWrite, Inv, Linked
<1>2. TypeOK'
  BY DEF SwiggyMoves, RiderDelivers, CancelCheck, CancelWrite, Inv, TypeOK, Status, ACTIVE_STATUSES
<1> QED  BY <1>1, <1>2 DEF Inv

\* Every step keeps the registry and the chains linked.
LEMMA InvStep == Inv /\ [Next]_vars => Inv'
<1> SUFFICES ASSUME Inv, [Next]_vars PROVE Inv'
  OBVIOUS
<1>1. CASE UNCHANGED vars
  BY <1>1 DEF vars, Inv, TypeOK, Linked
<1>2. CASE Crash
  BY <1>2, PollerAssumption DEF Crash, Inv, TypeOK, Linked, NoTimer, Chain
<1>3. CASE \E c \in Chains : Rearm(c)
  BY <1>3, InvSchedule DEF Rearm
<1>4. CASE \E c \in Chains : Retry(c)
  BY <1>4, InvSchedule DEF Retry
<1> QED  BY <1>1, <1>2, <1>3, <1>4, InvTrack, InvPoll, InvStop, InvAround DEF Next, PollStep

\* What the links say of the chains of one order.
LEMMA LinkedIsExact == ASSUME Inv PROVE RegistryIsExact
<1> SUFFICES ASSUME NEW o \in Orders
             PROVE  ChainsOf(o) = IF registry[o] = NoChain THEN {} ELSE {registry[o]}
  BY DEF RegistryIsExact
<1>1. registry[o] \in Chains \union {NoChain}
  BY DEF Inv, TypeOK
<1>2. \A c \in ChainsOf(o) : registry[o] = c /\ c \in Chains
  BY DEF ChainsOf, Inv, Linked
<1>3. CASE registry[o] = NoChain
  BY <1>2, <1>3, PollerAssumption
<1>4. CASE registry[o] # NoChain
  <2>1. registry[o] \in ChainsOf(o)
    BY <1>1, <1>4 DEF ChainsOf, Inv, Linked
  <2> QED  BY <2>1, <1>2, <1>4
<1> QED  BY <1>3, <1>4

----------------------------------------------------------------------------
\* The poller's state has its types.
THEOREM TypeCorrect == Spec => []TypeOK
<1>1. Inv => TypeOK
  BY DEF Inv
<1> QED  BY <1>1, InvInit, InvStep, PTL DEF Spec

\* An order has at most one timer or poll and activePollers knows it, whatever
\* calls fail, callbacks raise, or restarts happen (poller.ts: schedule).
THEOREM OneChainPerOrder == Spec => []RegistryIsExact
<1>1. Inv => RegistryIsExact
  BY LinkedIsExact
<1> QED  BY <1>1, InvInit, InvStep, PTL DEF Spec
================================================================================
