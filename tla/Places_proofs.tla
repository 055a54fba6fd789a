--------------------------- MODULE Places_proofs ---------------------------
(***************************************************************************)
(* Proofs about the places that are offered for a handoff: the points      *)
(* chosen on a route, the stations of a running train, and the order of    *)
(* several stops.                                                          *)
(*                                                                         *)
(* Loops.  LoopIs, LoopsAgree: the values of a recursive function over the *)
(* places of a list are those of a loop, and two loops agree as far as     *)
(* they take the same steps.                                               *)
(*                                                                         *)
(* The choice of points, for any scores, any number of points and any      *)
(* bounds.  SortIs: sorting ranks every point, the earlier of two equal    *)
(* ones first.  RiseIs, SinkIs: a heap that is in order but for one place  *)
(* has that place one level up, or down, after a turn of its loop; so Push *)
(* and Pop leave it in order, HeapOfIs: it holds k of the best, and        *)
(* HeapSorts: its k points are worth what the first k of the sorted list   *)
(* are.  GridIsExact, SpacedIs: the points taken are apart from each       *)
(* other, and one that is not taken crowds a better one.  ChoiceIs puts    *)
(* these together.                                                         *)
(*                                                                         *)
(* The scores, for any answers.  ScoreIs, ScoresAre: a score is the rounded*)
(* sum of five shares, each with its bound.  EmptyIsWorse: an area without *)
(* a restaurant does not raise it.  CandidatesAre, RatedAre, ReachedAre:   *)
(* the candidates stay points on the route with such scores, stage by      *)
(* stage.                                                                  *)
(*                                                                         *)
(* The stations of a train, for any run, times and failures.  WindowIs:    *)
(* the window is a stretch of the run.  StationIs, OffersAre: the stations *)
(* offered are of that stretch, to be handed over at, and apart.  InTime,  *)
(* FoundByName: reached before the journey ends, with the time planned.    *)
(*                                                                         *)
(* The order of the stops of a ride, for any number of stops and any       *)
(* times.  SecondsAdd: the seconds of different legs, counted together,    *)
(* are the sum of them, so the solver compares orders by how long they     *)
(* take.  Walks, VisitIs: the nearest-first search stays among orders that *)
(* come to no stop twice, and is longer by one as long as it can go on.    *)
(*                                                                         *)
(* ScenesAreThemselves: where the services are put together, each part     *)
(* behaves as it does alone.                                               *)
(***************************************************************************)
EXTENDS MCGateway, FiniteSetTheorems, FunctionTheorems, SequenceTheorems, WellFoundedInduction, TLAPS

----------------------------------------------------------------------------
\* A set of numbers that is not empty has a least one.
LEMMA LeastOne ==
    ASSUME NEW S \in SUBSET Nat, S # {}
    PROVE  \E n \in S : \A m \in S : n <= m
<1> DEFINE R == {ss \in Nat \X Nat : ss[1] < ss[2]}
<1>1. IsWellFoundedOn(R, Nat)
  BY NatLessThanWellFounded, Zenon DEF OpToRel
<1> HIDE DEF R
<1>2. \E n \in S : \A m \in S : <<m, n>> \notin R
  BY <1>1, WFMin, Zenon
<1>3. \A m, n \in Nat : m < n => <<m, n>> \in R
  BY DEF R
<1>4. \A m, n \in S : <<m, n>> \notin R => n <= m
  BY <1>3
<1> QED  BY <1>2, <1>4, Zenon

\* A set that has 0, and a number when it has the one before, has them all.
LEMMA StepByStep ==
    ASSUME NEW N \in Nat, NEW S, 0 \in S, \A i \in 1 .. N : i - 1 \in S => i \in S
    PROVE  \A i \in 0 .. N : i \in S
<1> DEFINE out == {i \in 0 .. N : i \notin S}
<1> SUFFICES ASSUME out # {} PROVE FALSE
  OBVIOUS
<1>1. PICK n \in out : \A m \in out : n <= m
  <2>1. out \in SUBSET Nat
    OBVIOUS
  <2> HIDE DEF out
  <2> QED  BY <2>1, LeastOne
<1>2. n \in 1 .. N /\ n - 1 \in 0 .. N /\ n - 1 \notin out
  BY <1>1
<1> QED  BY <1>1, <1>2

\* The values a variable has in a loop over the numbers up to N.
Loops(N, V, b, G) == {f \in [0 .. N -> V] : f[0] = b /\ \A i \in 1 .. N : f[i] = G[i][f[i - 1]]}

\* Such a loop runs.
LEMMA LoopRuns ==
    ASSUME NEW N \in Nat, NEW V, NEW b \in V, NEW G \in [1 .. N -> [V -> V]]
    PROVE  Loops(N, V, b, G) # {}
<1> DEFINE Done(n) == \E f \in [0 .. n -> V] : f[0] = b /\ \A i \in 1 .. n : f[i] = G[i][f[i - 1]]
           S == {n \in Nat : Done(n)}
<1>1. 0 \in S
  <2> DEFINE f == [i \in 0 .. 0 |-> b]
  <2>1. f \in [0 .. 0 -> V] /\ f[0] = b /\ \A i \in 1 .. 0 : f[i] = G[i][f[i - 1]]
    OBVIOUS
  <2> HIDE DEF f
  <2> QED  BY <2>1
<1>2. ASSUME NEW n \in 1 .. N, n - 1 \in S PROVE n \in S
  <2>1. PICK f \in [0 .. n - 1 -> V] : f[0] = b /\ \A i \in 1 .. n - 1 : f[i] = G[i][f[i - 1]]
    BY <1>2
  <2> DEFINE g == [i \in 0 .. n |-> IF i = n THEN G[n][f[n - 1]] ELSE f[i]]
  <2>2. g \in [0 .. n -> V]
    BY <2>1
  <2>3. g[0] = b
    BY <2>1
  <2>4. \A i \in 1 .. n : g[i] = G[i][g[i - 1]]
    BY <2>1
  <2> HIDE DEF g
  <2> QED  BY <2>2, <2>3, <2>4
<1> HIDE DEF S
<1>3. \A i \in 0 .. N : i \in S
  <2>1. \A i \in 1 .. N : i - 1 \in S => i \in S
    BY <1>2
  <2> QED  BY <1>1, <2>1, StepByStep, Zenon
<1>4. N \in S
  BY <1>3
<1>5. Done(N)
  BY <1>4 DEF S
<1> QED  BY <1>5 DEF Loops

IsTable(f, N) == f = [i \in 0 .. N |-> f[i]]

\* A function that takes these steps while it has such values is one.
LEMMA LoopIs ==
    ASSUME NEW N \in Nat, NEW V, NEW b \in V, NEW G \in [1 .. N -> [V -> V]],
           NEW f, IsTable(f, N), f[0] = b,
           \A i \in 1 .. N : f[i - 1] \in V => f[i] = G[i][f[i - 1]]
    PROVE  f \in Loops(N, V, b, G)
<1> DEFINE S == {i \in 0 .. N : f[i] \in V}
<1>s. \A i \in 1 .. N : f[i - 1] \in V => f[i] \in V /\ f[i] = G[i][f[i - 1]]
  <2> SUFFICES ASSUME NEW i \in 1 .. N, f[i - 1] \in V PROVE f[i] \in V /\ f[i] = G[i][f[i - 1]]
    OBVIOUS
  <2>1. f[i] = G[i][f[i - 1]]
    OBVIOUS
  <2>2. G[i] \in [V -> V]
    OBVIOUS
  <2> QED  BY <2>1, <2>2
<1>1. 0 \in S /\ \A i \in 1 .. N : i - 1 \in S => i \in S
  BY <1>s
<1> HIDE DEF S
<1>2. \A i \in 0 .. N : i \in S
  BY <1>1, StepByStep
<1>3. \A i \in 0 .. N : f[i] \in V
  BY <1>2 DEF S
<1>4. f \in [0 .. N -> V]
  BY <1>3 DEF IsTable
<1>5. \A i \in 1 .. N : f[i] = G[i][f[i - 1]]
  <2>1. \A i \in 1 .. N : i - 1 \in 0 .. N
    OBVIOUS
  <2> QED  BY <1>3, <1>s, <2>1, Zenon
<1> QED  BY <1>4, <1>5 DEF Loops

\* Two loops have the same values as long as they take the same steps.
LEMMA LoopsAgree ==
    ASSUME NEW N \in Nat, NEW M \in Nat, N <= M, NEW V, NEW b, NEW G, NEW H,
           \A i \in 1 .. N, v \in V : G[i][v] = H[i][v],
           NEW f \in Loops(N, V, b, G), NEW g \in Loops(M, V, b, H)
    PROVE  \A i \in 0 .. N : f[i] = g[i]
<1> DEFINE S == {i \in 0 .. N : f[i] = g[i]}
<1>1. 0 \in S /\ \A i \in 1 .. N : i - 1 \in S => i \in S
  BY DEF Loops
<1> HIDE DEF S
<1>2. \A i \in 0 .. N : i \in S
  BY <1>1, StepByStep
<1> QED  BY <1>2 DEF S

----------------------------------------------------------------------------
\* Products, which the provers find hard.

LEMMA TimesMonotone ==
    \A w, a, b \in Nat : w * a \in Nat /\ (a <= b => w * a <= w * b)
OBVIOUS

LEMMA TimesReflects ==
    ASSUME NEW w \in Nat \ {0}, NEW a \in Nat, NEW b \in Nat, w * a < w * b
    PROVE  a < b
<1> SUFFICES ASSUME b <= a PROVE FALSE
  OBVIOUS
<1>1. w * b <= w * a /\ w * a \in Nat /\ w * b \in Nat
  BY TimesMonotone
<1> QED  BY <1>1

\* What can be compared.
Comparable(T) == \A t \in T : t.score \in Int /\ t.eta \in Int

\* Being better is a strict weak order.
LEMMA BetterIs ==
    ASSUME NEW T, Comparable(T)
    PROVE  /\ \A a, b \in T : Better(a, b) \in BOOLEAN
           /\ \A a, b \in T : Better(a, b) => ~Better(b, a)
           /\ \A a, b, c \in T : ~Better(a, b) /\ ~Better(b, c) => ~Better(a, c)
           /\ \A a, b, c \in T : Better(a, b) /\ ~Better(c, b) => Better(a, c)
           /\ \A a, b, c \in T : ~Better(b, a) /\ Better(b, c) => Better(a, c)
           /\ \A a, b \in T : ~Better(a, b) /\ ~Better(b, a) => a.score = b.score /\ a.eta = b.eta
<1> USE DEF Comparable, Better
<1>1. \A a, b \in T : Better(a, b) \in BOOLEAN
  OBVIOUS
<1>2. \A a, b \in T : Better(a, b) => ~Better(b, a)
  OBVIOUS
<1>3. \A a, b, c \in T : ~Better(a, b) /\ ~Better(b, c) => ~Better(a, c)
  OBVIOUS
<1>4. \A a, b, c \in T : Better(a, b) /\ ~Better(c, b) => Better(a, c)
  OBVIOUS
<1>5. \A a, b, c \in T : ~Better(b, a) /\ Better(b, c) => Better(a, c)
  OBVIOUS
<1>6. \A a, b \in T : ~Better(a, b) /\ ~Better(b, a) => a.score = b.score /\ a.eta = b.eta
  OBVIOUS
<1> HIDE DEF Comparable, Better
<1> QED  BY <1>1, <1>2, <1>3, <1>4, <1>5, <1>6

\* The numbers up to n.
LEMMA CountUp == \A n \in Nat : IsFiniteSet(1 .. n) /\ Cardinality(1 .. n) = n
<1> SUFFICES ASSUME NEW n \in Nat PROVE IsFiniteSet(1 .. n) /\ Cardinality(1 .. n) = n
  OBVIOUS
<1>1. 1 \in Int /\ n \in Int
  OBVIOUS
<1>2. IsFiniteSet(1 .. n) /\ Cardinality(1 .. n) = IF 1 > n THEN 0 ELSE n - 1 + 1
  BY <1>1, FS_Interval, Zenon
<1> QED  BY <1>2

\* In a finite set with a strict total order, the number of those before an
\* element and itself is its place.
LEMMA RanksAre ==
    ASSUME NEW S, IsFiniteSet(S), NEW R,
           \A x \in S : <<x, x>> \notin R,
           \A x, y, z \in S : <<x, y>> \in R /\ <<y, z>> \in R => <<x, z>> \in R,
           \A x, y \in S : x # y => <<x, y>> \in R \/ <<y, x>> \in R,
           NEW r, r = [x \in S |-> Cardinality({y \in S : <<y, x>> \in R}) + 1]
    PROVE  /\ r \in Surjection(S, 1 .. Cardinality(S))
           /\ \A x, y \in S : <<x, y>> \in R <=> r[x] < r[y]
<1> DEFINE N == Cardinality(S)
           below(x) == {y \in S : <<y, x>> \in R}
<1>1. N \in Nat /\ IsFiniteSet(1..N) /\ Cardinality(1..N) = N
  BY FS_CardinalityType, FS_Interval
<1>2. \A x \in S : /\ IsFiniteSet(below(x)) /\ Cardinality(below(x)) \in Nat
                   /\ Cardinality(below(x)) < N
  <2> SUFFICES ASSUME NEW x \in S
               PROVE  /\ IsFiniteSet(below(x)) /\ Cardinality(below(x)) \in Nat
                      /\ Cardinality(below(x)) < N
    OBVIOUS
  <2>1. below(x) \subseteq S /\ below(x) # S
    OBVIOUS
  <2> HIDE DEF below
  <2> QED  BY <2>1, <1>1, FS_Subset, FS_CardinalityType
<1>3. \A x, y \in S : <<x, y>> \in R => Cardinality(below(x)) < Cardinality(below(y))
  <2> SUFFICES ASSUME NEW x \in S, NEW y \in S, <<x, y>> \in R
               PROVE  Cardinality(below(x)) < Cardinality(below(y))
    OBVIOUS
  <2>1. below(x) \subseteq below(y) /\ x \in below(y) /\ x \notin below(x)
    OBVIOUS
  <2>2. /\ IsFiniteSet(below(y)) /\ Cardinality(below(y)) \in Nat
        /\ IsFiniteSet(below(x)) /\ Cardinality(below(x)) \in Nat
    BY <1>2
  <2> HIDE DEF below
  <2>3. Cardinality(below(x)) <= Cardinality(below(y)) /\ Cardinality(below(x)) # Cardinality(below(y))
    BY <2>1, <2>2, FS_Subset
  <2> QED  BY <2>2, <2>3
<1>d. \A x \in S : r[x] = Cardinality(below(x)) + 1
  OBVIOUS
<1>f. r = [x \in S |-> r[x]]
  OBVIOUS
<1> HIDE DEF below
<1>r. \A x \in S : r[x] = Cardinality(below(x)) + 1 /\ r[x] \in 1..N
  BY <1>1, <1>2, <1>d
<1>o. \A x, y \in S : <<x, y>> \in R => r[x] < r[y]
  <2> SUFFICES ASSUME NEW x \in S, NEW y \in S, <<x, y>> \in R PROVE r[x] < r[y]
    OBVIOUS
  <2>1. Cardinality(below(x)) < Cardinality(below(y))
    BY <1>3
  <2> QED  BY <2>1, <1>2, <1>r
<1>4. r \in Injection(S, 1..N)
  <2>1. r \in [S -> 1..N]
    BY <1>f, <1>r
  <2>2. \A x, y \in S : r[x] = r[y] => x = y
    <3> SUFFICES ASSUME NEW x \in S, NEW y \in S, r[x] = r[y], x # y PROVE FALSE
      OBVIOUS
    <3>1. r[x] < r[y] \/ r[y] < r[x]
      BY <1>o
    <3> QED  BY <3>1, <1>r
  <2> QED  BY <2>1, <2>2 DEF Injection, IsInjective
<1>5. r \in Surjection(S, 1..N)
  <2>1. Cardinality(S) = Cardinality(1..N)
    BY <1>1
  <2> HIDE DEF N
  <2> QED  BY <1>1, <1>4, <2>1, FS_Injection
<1>6. \A x, y \in S : r[x] < r[y] => <<x, y>> \in R
  <2> SUFFICES ASSUME NEW x \in S, NEW y \in S, r[x] < r[y], <<x, y>> \notin R PROVE FALSE
    OBVIOUS
  <2>1. x # y
    BY <1>r
  <2>2. r[y] < r[x]
    BY <2>1, <1>o
  <2>3. r[x] \in 1 .. N /\ r[y] \in 1 .. N
    BY <1>r
  <2> HIDE DEF N
  <2>4. ~(r[y] < r[x] /\ r[x] < r[y])
    BY <1>1, <2>3
  <2> QED  BY <2>2, <2>4
<1> QED  BY <1>5, <1>o, <1>6

\* An order of the places of a list, best first.
Sortings(items) ==
    {w \in [DOMAIN items -> DOMAIN items] :
        /\ \A i, j \in DOMAIN items : i < j => w[i] # w[j] /\ ~Better(items[w[j]], items[w[i]])
        /\ \A i \in DOMAIN items : \E j \in DOMAIN items : w[j] = i}

\* The sort lists every item once, and none before a better one.
LEMMA SortIs ==
    ASSUME NEW T, Comparable(T), NEW items \in Seq(T)
    PROVE  \E w \in Sortings(items) : BestFirst(items) = [n \in DOMAIN items |-> items[w[n]]]
<1> DEFINE N == Len(items)
           S == 1 .. N
           R == {p \in S \X S : Precedes(items, p[1], p[2])}
           r == [x \in S |-> Cardinality({y \in S : <<y, x>> \in R}) + 1]
           w == [n \in S |-> CHOOSE i \in S : Standing(items, i) = n]
<1>1. N \in Nat /\ DOMAIN items = S /\ \A i \in S : items[i] \in T
  OBVIOUS
<1>2. IsFiniteSet(S) /\ Cardinality(S) = N
  BY <1>1, CountUp
<1>3. \A x, y \in S : <<x, y>> \in R <=> Precedes(items, x, y)
  OBVIOUS
<1> HIDE DEF R
<1>b. /\ \A i, j \in S : Better(items[i], items[j]) => ~Better(items[j], items[i])
      /\ \A i, j, k \in S : ~Better(items[i], items[j]) /\ ~Better(items[j], items[k]) => ~Better(items[i], items[k])
      /\ \A i, j, k \in S : ~Better(items[j], items[i]) /\ Better(items[j], items[k]) => Better(items[i], items[k])
      /\ \A i, j, k \in S : Better(items[i], items[j]) /\ ~Better(items[k], items[j]) => Better(items[i], items[k])
  <2>1. /\ \A a, b \in T : Better(a, b) => ~Better(b, a)
        /\ \A a, b, c \in T : ~Better(a, b) /\ ~Better(b, c) => ~Better(a, c)
        /\ \A a, b, c \in T : Better(a, b) /\ ~Better(c, b) => Better(a, c)
        /\ \A a, b, c \in T : ~Better(b, a) /\ Better(b, c) => Better(a, c)
    BY BetterIs
  <2> HIDE DEF S
  <2> QED  BY <1>1, <2>1
<1>4. \A x \in S : <<x, x>> \notin R
  BY <1>b, <1>3 DEF Precedes
<1>5. \A x, y, z \in S : <<x, y>> \in R /\ <<y, z>> \in R => <<x, z>> \in R
  BY <1>b, <1>3 DEF Precedes
<1>6. \A x, y \in S : x # y => <<x, y>> \in R \/ <<y, x>> \in R
  BY <1>3 DEF Precedes
<1>7. r \in Surjection(S, 1 .. Cardinality(S)) /\ \A x, y \in S : <<x, y>> \in R <=> r[x] < r[y]
  <2> HIDE DEF S
  <2>1. r = [x \in S |-> Cardinality({y \in S : <<y, x>> \in R}) + 1]
    OBVIOUS
  <2> HIDE DEF r
  <2> QED  BY <1>2, <1>4, <1>5, <1>6, <2>1, RanksAre
<1>8. \A i \in S : r[i] = Standing(items, i)
  <2> SUFFICES ASSUME NEW i \in S PROVE r[i] = Standing(items, i)
    OBVIOUS
  <2>1. {y \in S : <<y, i>> \in R} = {j \in DOMAIN items : Precedes(items, j, i)}
    BY <1>1, <1>3
  <2> QED  BY <2>1 DEF Standing
<1> HIDE DEF r
<1>9. \A n \in S : w[n] \in S /\ r[w[n]] = n
  <2> SUFFICES ASSUME NEW n \in S PROVE w[n] \in S /\ r[w[n]] = n
    OBVIOUS
  <2>1. \E i \in S : r[i] = n
    BY <1>2, <1>7 DEF Surjection
  <2>2. \E i \in S : Standing(items, i) = n
    BY <1>8, <2>1
  <2>3. w[n] \in S /\ Standing(items, w[n]) = n
    BY <2>2
  <2> QED  BY <1>8, <2>3
<1>10. BestFirst(items) = [n \in DOMAIN items |-> items[w[n]]]
  BY <1>1 DEF BestFirst
<1>11. w \in [S -> S]
  BY <1>9
<1> HIDE DEF w
<1>12. \A i, j \in S : i < j => w[i] # w[j] /\ ~Better(items[w[j]], items[w[i]])
  <2> SUFFICES ASSUME NEW i \in S, NEW j \in S, i < j PROVE w[i] # w[j] /\ ~Better(items[w[j]], items[w[i]])
    OBVIOUS
  <2>1. w[i] \in S /\ w[j] \in S /\ r[w[i]] < r[w[j]]
    BY <1>9
  <2>2. Precedes(items, w[i], w[j])
    BY <1>3, <1>7, <2>1
  <2> QED  BY <1>b, <2>1, <2>2 DEF Precedes
<1>13. \A i \in S : \E j \in S : w[j] = i
  <2> SUFFICES ASSUME NEW i \in S PROVE \E j \in S : w[j] = i
    OBVIOUS
  <2>1. r[i] \in S
    BY <1>2, <1>7 DEF Surjection
  <2>2. w[r[i]] \in S /\ r[w[r[i]]] = r[i]
    BY <1>9, <2>1
  <2>3. w[r[i]] = i
    <3> DEFINE k == w[r[i]]
    <3>1. k \in S /\ r[k] = r[i] /\ r[i] \in Int
      BY <2>1, <2>2
    <3> HIDE DEF k
    <3>2. k # i => <<k, i>> \in R \/ <<i, k>> \in R
      BY <1>6, <3>1
    <3>3. k # i => r[k] < r[i] \/ r[i] < r[k]
      BY <1>7, <3>1, <3>2
    <3> QED  BY <3>1, <3>3 DEF k
  <2> QED  BY <2>1, <2>3
<1>14. w \in Sortings(items)
  BY <1>1, <1>11, <1>12, <1>13, Zenon DEF Sortings
<1> QED  BY <1>10, <1>14

\* No n + 1 things are among n.
LEMMA NoSqueeze ==
    ASSUME NEW n \in Nat, NEW f \in [1 .. n + 1 -> 1 .. n]
    PROVE  \E i, j \in 1 .. n + 1 : i < j /\ f[i] = f[j]
<1> DEFINE S == 1 .. n + 1  U == 1 .. n
<1>1. IsFiniteSet(S) /\ IsFiniteSet(U) /\ Cardinality(S) = n + 1 /\ Cardinality(U) = n
  BY CountUp
<1>2. f \in [S -> U] /\ Cardinality(U) < Cardinality(S)
  BY <1>1
<1> HIDE DEF S, U
<1>3. \E x, y \in S : x # y /\ f[x] = f[y]
  BY <1>1, <1>2, FS_PigeonHole
<1> QED  BY <1>3 DEF S

\* Of two lists of places of which each names a place once and neither a worse one
\* first, the one that leaves out none better than what it has is as good as the
\* whole at each of its places.
LEMMA TopIsSame ==
    ASSUME NEW T, Comparable(T), NEW items \in Seq(T), NEW w \in Sortings(items),
           NEW k \in 1 .. Len(items), NEW g \in [1 .. k -> DOMAIN items],
           \A i, j \in 1 .. k : i < j => g[i] # g[j] /\ ~Better(items[g[j]], items[g[i]]),
           \A x \in DOMAIN items : \/ \E q \in 1 .. k : g[q] = x
                                   \/ \A q \in 1 .. k : ~Better(items[x], items[g[q]]),
           NEW i \in 1 .. k
    PROVE  items[g[i]].score = items[w[i]].score /\ items[g[i]].eta = items[w[i]].eta
<1> DEFINE D == DOMAIN items
           B(x, y) == Better(items[x], items[y])
<1>1. Len(items) \in Nat /\ D = 1 .. Len(items) /\ k \in Nat /\ i \in Nat /\ 1 <= i /\ i <= k
      /\ 1 .. k \subseteq D /\ \A x \in D : items[x] \in T /\ x \in Int
  OBVIOUS
<1>q. \A q \in 1 .. i : q \in 1 .. k /\ q \in D /\ (q < i \/ q = i)
  BY <1>1
<1>w. /\ w \in [D -> D] /\ \A x, y \in D : x < y => w[x] # w[y] /\ ~B(w[y], w[x])
      /\ \A x \in D : \E j \in D : w[j] = x
  BY DEF Sortings
<1>g. /\ g \in [1 .. k -> D] /\ \A x, y \in 1 .. k : x < y => g[x] # g[y] /\ ~B(g[y], g[x])
      /\ \A x \in D : (\E q \in 1 .. k : g[q] = x) \/ \A q \in 1 .. k : ~B(x, g[q])
  OBVIOUS
<1>b. /\ \A x, y \in D : B(x, y) => ~B(y, x)
      /\ \A x, y, z \in D : ~B(x, y) /\ ~B(y, z) => ~B(x, z)
      /\ \A x, y, z \in D : B(x, y) /\ ~B(z, y) => B(x, z)
      /\ \A x, y, z \in D : ~B(y, x) /\ B(y, z) => B(x, z)
      /\ \A x, y \in D : ~B(x, y) /\ ~B(y, x) => items[x].score = items[y].score /\ items[x].eta = items[y].eta
  <2>1. /\ \A a, b \in T : Better(a, b) => ~Better(b, a)
        /\ \A a, b, c \in T : ~Better(a, b) /\ ~Better(b, c) => ~Better(a, c)
        /\ \A a, b, c \in T : Better(a, b) /\ ~Better(c, b) => Better(a, c)
        /\ \A a, b, c \in T : ~Better(b, a) /\ Better(b, c) => Better(a, c)
        /\ \A a, b \in T : ~Better(a, b) /\ ~Better(b, a) => a.score = b.score /\ a.eta = b.eta
    BY BetterIs
  <2> HIDE DEF D
  <2> QED  BY <1>1, <2>1
<1> HIDE DEF B, D
<1>2. g[i] \in D /\ w[i] \in D
  BY <1>1, <1>w, <1>g
<1>3. ASSUME B(g[i], w[i]) PROVE FALSE
  <2> DEFINE at(q) == CHOOSE j \in D : w[j] = g[q]
             f == [q \in 1 .. i |-> at(q)]
  <2>1. \A q \in 1 .. i : at(q) \in D /\ w[at(q)] = g[q] /\ q \in 1 .. k
    <3> SUFFICES ASSUME NEW q \in 1 .. i PROVE at(q) \in D /\ w[at(q)] = g[q] /\ q \in 1 .. k
      OBVIOUS
    <3>1. q \in 1 .. k /\ g[q] \in D
      BY <1>q, <1>g
    <3>2. \E j \in D : w[j] = g[q]
      BY <1>w, <3>1
    <3> QED  BY <3>1, <3>2
  <2> HIDE DEF at
  <2>2. \A q \in 1 .. i : at(q) \in 1 .. i - 1
    <3>s. \A q \in 1 .. i : at(q) \in D /\ at(q) < i => at(q) \in 1 .. i - 1
      BY <1>1
    <3> SUFFICES ASSUME NEW q \in 1 .. i, ~(at(q) < i) PROVE FALSE
      BY <2>1, <3>s
    <3> DEFINE p == at(q)
    <3>0. p \in D /\ w[p] = g[q] /\ q \in 1 .. k /\ g[q] \in D /\ p \in Int /\ q \in Int /\ i \in 1 .. k /\ i \in D
      BY <1>1, <1>g, <2>1
    <3> HIDE DEF p
    <3>1. ~B(g[i], g[q])
      BY <1>1, <1>b, <1>g, <1>2, <3>0
    <3>2. B(g[q], w[i])
      BY <1>b, <1>2, <1>3, <3>0, <3>1
    <3>3. ~B(w[p], w[i])
      <4>1. p = i \/ i < p
        BY <1>1, <3>0 DEF p
      <4>2. p = i => ~B(w[p], w[i])
        BY <1>b, <1>2
      <4> QED  BY <1>w, <3>0, <4>1, <4>2
    <3> QED  BY <3>0, <3>2, <3>3
  <2>3. \A q, r \in 1 .. i : q < r => f[q] # f[r]
    BY <1>1, <1>g, <2>1
  <2>4. f \in [1 .. i -> 1 .. i - 1]
    BY <2>2
  <2> HIDE DEF f
  <2>5. i - 1 \in Nat /\ i - 1 + 1 = i
    BY <1>1
  <2>6. \E q, r \in 1 .. i : q < r /\ f[q] = f[r]
    <3> DEFINE n == i - 1
    <3>1. n \in Nat /\ f \in [1 .. n + 1 -> 1 .. n] /\ n + 1 = i
      BY <2>4, <2>5
    <3> HIDE DEF n
    <3> QED  BY <3>1, NoSqueeze
  <2> QED  BY <2>3, <2>6
<1>4. ASSUME B(w[i], g[i]) PROVE FALSE
  <2> DEFINE at(q) == CHOOSE j \in 1 .. k : g[j] = w[q]
             f == [q \in 1 .. i |-> at(q)]
  <2>0. \A q \in 1 .. i : q \in D /\ w[q] \in D /\ B(w[q], g[i])
    <3> SUFFICES ASSUME NEW q \in 1 .. i PROVE q \in D /\ w[q] \in D /\ B(w[q], g[i])
      OBVIOUS
    <3>1. q \in D /\ i \in D /\ w[q] \in D /\ (q < i \/ q = i)
      BY <1>1, <1>q, <1>w
    <3>2. ~B(w[i], w[q])
      BY <1>b, <1>w, <3>1
    <3> QED  BY <1>b, <1>2, <1>4, <3>1, <3>2
  <2>1. \A q \in 1 .. i : at(q) \in 1 .. k /\ g[at(q)] = w[q]
    BY <1>1, <1>g, <2>0
  <2> HIDE DEF at
  <2>2. \A q \in 1 .. i : at(q) \in 1 .. i - 1
    <3>s. \A q \in 1 .. i : at(q) \in 1 .. k /\ at(q) < i => at(q) \in 1 .. i - 1
      BY <1>1
    <3> SUFFICES ASSUME NEW q \in 1 .. i, ~(at(q) < i) PROVE FALSE
      BY <2>1, <3>s
    <3> DEFINE p == at(q)
    <3>0. p \in 1 .. k /\ g[p] = w[q] /\ w[q] \in D /\ i \in 1 .. k /\ (p = i \/ i < p)
      BY <1>1, <2>0, <2>1
    <3> HIDE DEF p
    <3>1. ~B(g[p], g[i])
      BY <1>b, <1>g, <3>0
    <3> QED  BY <2>0, <3>0, <3>1
  <2>3. \A q, r \in 1 .. i : q < r => f[q] # f[r]
    <3>1. \A q, r \in 1 .. i : q < r => w[q] # w[r]
      BY <1>1, <1>w
    <3> QED  BY <2>1, <3>1
  <2>4. f \in [1 .. i -> 1 .. i - 1]
    BY <2>2
  <2> HIDE DEF f
  <2>5. i - 1 \in Nat /\ i - 1 + 1 = i
    BY <1>1
  <2>6. \E q, r \in 1 .. i : q < r /\ f[q] = f[r]
    <3> DEFINE n == i - 1
    <3>1. n \in Nat /\ f \in [1 .. n + 1 -> 1 .. n] /\ n + 1 = i
      BY <2>4, <2>5
    <3> HIDE DEF n
    <3> QED  BY <3>1, NoSqueeze
  <2> QED  BY <2>3, <2>6
<1> QED  BY <1>2, <1>3, <1>4, <1>b

\* A loop has in each turn what the turn before lets it have.
Turns(f, N, W, b, G) ==
    /\ IsTable(f, N) /\ f[0] = b
    /\ \A i \in 1 .. N : f[i] = G[i][f[i - 1]] /\ f[i - 1] \in W[i - 1]
    /\ \A i \in 0 .. N : f[i] \in W[i]

\* Such a loop exists if each turn passes on what it has.
LEMMA LoopHas ==
    ASSUME NEW N \in Nat, NEW W, NEW b \in W[0], NEW G,
           \A i \in 1 .. N : \A v \in W[i - 1] : G[i][v] \in W[i]
    PROVE  \E f : Turns(f, N, W, b, G)
<1> DEFINE V == UNION {W[i] : i \in 0 .. N}
           H == [i \in 1 .. N |-> [v \in V |-> IF v \in W[i - 1] THEN G[i][v] ELSE b]]
<1>1. b \in V
  OBVIOUS
<1>2. \A i \in 1 .. N : i - 1 \in 0 .. N /\ i \in 0 .. N
  OBVIOUS
<1>3. H \in [1 .. N -> [V -> V]]
  <2> SUFFICES ASSUME NEW i \in 1 .. N, NEW v \in V
               PROVE  (IF v \in W[i - 1] THEN G[i][v] ELSE b) \in V
    OBVIOUS
  <2>1. CASE v \in W[i - 1]
    <3>1. G[i][v] \in W[i] /\ i \in 0 .. N
      BY <1>2, <2>1
    <3> QED  BY <2>1, <3>1
  <2> QED  BY <1>1, <2>1
<1>4. \A i \in 1 .. N : \A v \in W[i - 1] : H[i][v] = G[i][v]
  BY <1>2
<1> HIDE DEF V, H
<1>5. PICK f \in Loops(N, V, b, H) : TRUE
  BY <1>1, <1>3, LoopRuns, Zenon
<1>6. f \in [0 .. N -> V] /\ f[0] = b /\ \A i \in 1 .. N : f[i] = H[i][f[i - 1]]
  BY <1>5 DEF Loops
<1> DEFINE S == {i \in 0 .. N : f[i] \in W[i]}
<1>7. \A i \in 0 .. N : f[i] \in W[i]
  <2>1. 0 \in S
    BY <1>6
  <2>2. \A i \in 1 .. N : i - 1 \in S => i \in S
    BY <1>2, <1>4, <1>6
  <2> HIDE DEF S
  <2>3. \A i \in 0 .. N : i \in S
    BY <2>1, <2>2, StepByStep
  <2> QED  BY <2>3 DEF S
<1>8. \A i \in 1 .. N : f[i] = G[i][f[i - 1]] /\ f[i - 1] \in W[i - 1]
  BY <1>2, <1>4, <1>6, <1>7
<1>9. IsTable(f, N)
  BY <1>6 DEF IsTable
<1> QED  BY <1>6, <1>7, <1>8, <1>9 DEF Turns

\* A loop of n turns that goes down from n, or rests, rests in the end.
LEMMA Settles ==
    ASSUME NEW n \in Nat, NEW s, NEW rank, NEW Rests,
           \A i \in 0 .. n : rank[i] \in 1 .. n,
           \A i \in 1 .. n : i - 1 \in Rests => i \in Rests,
           \A i \in 1 .. n : i - 1 \in Rests \/ rank[i] < rank[i - 1]
    PROVE  n \in Rests
<1> DEFINE S == {i \in 0 .. n : i \in Rests \/ rank[i] <= n - i}
<1>1. 0 \in S
  BY 0 \in 0 .. n
<1>2. ASSUME NEW i \in 1 .. n, i - 1 \in S PROVE i \in S
  <2>1. i - 1 \in 0 .. n /\ i \in 0 .. n /\ rank[i - 1] \in 1 .. n /\ rank[i] \in 1 .. n
    OBVIOUS
  <2>2. i \in Rests \/ rank[i] < rank[i - 1]
    OBVIOUS
  <2>3. i - 1 \in Rests \/ rank[i - 1] <= n - (i - 1)
    BY <1>2
  <2>4. i \in Rests \/ rank[i] <= n - i
    BY <2>1, <2>2, <2>3
  <2> QED  BY <2>1, <2>4
<1> HIDE DEF S
<1>3. n \in S
  <2>1. \A i \in 0 .. n : i \in S
    BY <1>1, <1>2, StepByStep
  <2> QED  BY <2>1
<1>4. rank[n] \in 1 .. n
  OBVIOUS
<1> QED  BY <1>3, <1>4 DEF S

----------------------------------------------------------------------------
\* The places of items are weakly ordered.
Weak(items) ==
    /\ \A i, j \in DOMAIN items : Less(items, i, j) => ~Less(items, j, i)
    /\ \A i, j, k \in DOMAIN items : ~Less(items, i, j) /\ ~Less(items, j, k) => ~Less(items, i, k)

\* Scores with their times are weakly ordered, so the comparison of the heap is.
LEMMA LessIs == ASSUME NEW T, Comparable(T), NEW items \in Seq(T) PROVE Weak(items)
<1>1. \A i \in DOMAIN items : items[i] \in T
  OBVIOUS
<1>2. /\ \A a, b \in T : Better(a, b) => ~Better(b, a)
      /\ \A a, b, c \in T : ~Better(a, b) /\ ~Better(b, c) => ~Better(a, c)
  BY BetterIs
<1>3. \A i, j, k \in DOMAIN items : ~Less(items, i, j) /\ ~Less(items, j, k) => ~Less(items, i, k)
  BY <1>1, <1>2 DEF Less
<1>4. \A i, j \in DOMAIN items : Less(items, i, j) => ~Less(items, j, i)
  BY <1>1, <1>2 DEF Less
<1> QED  BY <1>3, <1>4 DEF Weak

\* A heap of the items at the places R, each once.
Holds(h, R) == /\ h \in Seq(R) /\ \A i, j \in 1 .. Len(h) : h[i] = h[j] => i = j
               /\ \A x \in R : \E j \in 1 .. Len(h) : h[j] = x

\* No child is less than its parent.
InOrder(items, h) == \A j \in 2 .. Len(h) : ~Less(items, h[j], h[j \div 2])

Exchanges(s, h, i, j) ==
    /\ Len(s) = Len(h) /\ s[i] = h[j] /\ s[j] = h[i]
    /\ \A x \in 1 .. Len(h) : x # i /\ x # j => s[x] = h[x]

\* Two items of a heap exchanged: it holds what it held.
LEMMA SwapIs ==
    ASSUME NEW R, NEW h, Holds(h, R), NEW i \in 1 .. Len(h), NEW j \in 1 .. Len(h)
    PROVE  Holds(Swapped(h, i, j), R) /\ Exchanges(Swapped(h, i, j), h, i, j)
<1> DEFINE s == Swapped(h, i, j)
           N == Len(h)
<1>1. h \in Seq(R) /\ N \in Nat /\ DOMAIN h = 1 .. N /\ h[i] \in R /\ h[j] \in R
  BY DEF Holds
<1>2. s \in Seq(R) /\ Len(s) = N
  BY <1>1 DEF Swapped
<1>3. s[i] = h[j] /\ s[j] = h[i] /\ \A x \in 1 .. N : x # i /\ x # j => s[x] = h[x]
  BY <1>1 DEF Swapped
<1> HIDE DEF s, N
<1>4. \A x, y \in 1 .. N : s[x] = s[y] => x = y
  <2>1. \A x, y \in 1 .. N : h[x] = h[y] => x = y
    BY DEF Holds, N
  <2> QED  BY <1>3, <2>1 DEF N
<1>5. \A x \in R : \E y \in 1 .. N : s[y] = x
  <2>1. \A x \in R : \E y \in 1 .. N : h[y] = x
    BY DEF Holds, N
  <2>2. \A y \in 1 .. N : \E z \in 1 .. N : s[z] = h[y]
    BY <1>3 DEF N
  <2> QED  BY <2>1, <2>2
<1> QED  BY <1>2, <1>3, <1>4, <1>5 DEF Holds, Exchanges, s, N

\* A heap where only the item at x may be less than its parent.
Rising(items, h, x) ==
    /\ \A j \in 2 .. Len(h) : j # x => ~Less(items, h[j], h[j \div 2])
    /\ x > 1 => \A j \in 2 .. Len(h) : j \div 2 = x => ~Less(items, h[j], h[x \div 2])

Risen(items, R, N) == {t \in [heap : Seq(R), index : 1 .. N] :
                          Holds(t.heap, R) /\ Len(t.heap) = N /\ Rising(items, t.heap, t.index)}

\* A parent is before its child.
LEMMA Halves == \A j \in Nat : j >= 2 => j \div 2 \in Nat /\ 1 <= j \div 2 /\ j \div 2 < j
OBVIOUS

\* A turn of bubbleUp leaves only the item it moved to out of order, higher up, or
\* none at all.
LEMMA RiseIs ==
    ASSUME NEW items, Weak(items), NEW R, R \subseteq DOMAIN items, NEW N \in Nat, NEW t \in Risen(items, R, N)
    PROVE  /\ Rise(items, t) \in Risen(items, R, N)
           /\ Rise(items, t) = t => InOrder(items, t.heap)
           /\ Rise(items, t) = t \/ Rise(items, t).index < t.index
<1> DEFINE h == t.heap  x == t.index  p == x \div 2
           L(i, j) == Less(items, i, j)
<1>1. /\ Holds(h, R) /\ Len(h) = N /\ Rising(items, h, x) /\ x \in 1 .. N /\ h \in Seq(R)
      /\ t = [heap |-> h, index |-> x]
  BY DEF Risen
<1>2. \A j \in 1 .. N : h[j] \in R /\ h[j] \in DOMAIN items
  BY <1>1
<1>3. \A j \in 2 .. N : j \div 2 \in 1 .. N /\ j \div 2 < j /\ j \in 1 .. N
  BY Halves
<1>w. /\ \A i, j \in R : L(i, j) => ~L(j, i)
      /\ \A i, j, k \in R : ~L(i, j) /\ ~L(j, k) => ~L(i, k)
  BY DEF Weak
<1>r. /\ \A j \in 2 .. N : j # x => ~L(h[j], h[j \div 2])
      /\ x > 1 => \A j \in 2 .. N : j \div 2 = x => ~L(h[j], h[p])
  BY <1>1 DEF Rising
<1> HIDE DEF h, x, L
<1>4. CASE ~(x > 1 /\ L(h[x], h[p]))
  <2>1. Rise(items, t) = t
    BY <1>4 DEF Rise, h, x, L
  <2>2. InOrder(items, h)
    BY <1>1, <1>4, <1>r DEF InOrder, L
  <2> QED  BY <2>1, <2>2 DEF h
<1>5. CASE x > 1 /\ L(h[x], h[p])
  <2> DEFINE s == Swapped(h, x, p)
  <2>0. x \in 2 .. N /\ p \in 1 .. N /\ p < x
    BY <1>1, <1>3, <1>5
  <2> HIDE DEF p
  <2>1. Rise(items, t) = [heap |-> s, index |-> p]
    BY <1>5 DEF Rise, h, x, p, L
  <2>2. /\ Holds(s, R) /\ Len(s) = N /\ s[x] = h[p] /\ s[p] = h[x]
        /\ \A y \in 1 .. N : y # x /\ y # p => s[y] = h[y]
    <3>1. Holds(h, R) /\ x \in 1 .. Len(h) /\ p \in 1 .. Len(h) /\ Len(h) = N
      BY <1>1, <2>0
    <3>2. Holds(s, R) /\ Exchanges(s, h, x, p)
      BY <3>1, SwapIs
    <3> HIDE DEF s
    <3> QED  BY <3>1, <3>2 DEF Exchanges
  <2> HIDE DEF s
  <2>3. ASSUME NEW j \in 2 .. N, j # p PROVE ~L(s[j], s[j \div 2])
    <3> DEFINE q == j \div 2
    <3>0. q \in 1 .. N /\ q < j /\ j \in 1 .. N /\ x \in 1 .. N
      BY <1>3, <2>0
    <3>1. CASE j = x
      <4>1. q = p
        BY <3>1 DEF p
      <4> QED  BY <1>2, <1>5, <1>w, <2>0, <2>2, <3>0, <3>1, <4>1
    <3>2. CASE j # x /\ q = x
      <4>1. ~L(h[j], h[p])
        BY <1>5, <1>r, <3>2 DEF p
      <4> QED  BY <2>2, <2>3, <3>0, <3>2, <4>1
    <3>3. CASE j # x /\ q = p
      <4>1. ~L(h[j], h[p])
        BY <1>r, <3>3 DEF p
      <4>2. ~L(h[p], h[x])
        BY <1>2, <1>5, <1>w, <2>0, <3>0
      <4>3. ~L(h[j], h[x])
        BY <1>2, <1>w, <2>0, <3>0, <4>1, <4>2
      <4> QED  BY <2>2, <2>3, <3>0, <3>3, <4>3
    <3>4. CASE j # x /\ q # x /\ q # p
      <4>1. ~L(h[j], h[q])
        BY <1>r, <3>4
      <4> QED  BY <2>2, <2>3, <3>0, <3>4, <4>1
    <3> QED  BY <3>1, <3>2, <3>3, <3>4
  <2>4. ASSUME p > 1, NEW j \in 2 .. N, j \div 2 = p PROVE ~L(s[j], s[p \div 2])
    <3> DEFINE q == p \div 2
    <3>0. p \in 2 .. N /\ q \in 1 .. N /\ q < p /\ j \in 1 .. N /\ x \in 1 .. N /\ j # p
      BY <1>3, <2>0, <2>4
    <3>1. s[q] = h[q] /\ ~L(h[p], h[q])
      BY <1>r, <2>0, <2>2, <3>0
    <3> HIDE DEF q
    <3>2. CASE j = x
      BY <2>2, <3>1, <3>2 DEF q
    <3>3. CASE j # x
      <4>1. s[j] = h[j] /\ ~L(h[j], h[p])
        BY <1>r, <2>2, <2>4, <3>0, <3>3
      <4> QED  BY <1>2, <1>w, <2>0, <3>0, <3>1, <4>1 DEF q
    <3> QED  BY <3>2, <3>3
  <2>5. Rising(items, s, p)
    BY <2>2, <2>3, <2>4 DEF Rising, L
  <2>6. [heap |-> s, index |-> p] \in Risen(items, R, N)
    <3>1. s \in Seq(R)
      BY <2>2 DEF Holds
    <3> QED  BY <2>0, <2>2, <2>5, <3>1 DEF Risen
  <2>7. Rise(items, t).index < t.index /\ Rise(items, t) # t
    <3>1. Rise(items, t).index = p /\ t.index = x /\ p # x
      BY <2>0, <2>1 DEF x
    <3> QED  BY <2>0, <3>1
  <2> QED  BY <2>1, <2>6, <2>7
<1> QED  BY <1>4, <1>5

\* After bubbleUp a heap that was in order but for its last item is in order.
LEMMA BubbleUpIs ==
    ASSUME NEW items, Weak(items), NEW R, R \subseteq DOMAIN items, NEW h, Holds(h, R), h # <<>>,
           Rising(items, h, Len(h))
    PROVE  /\ Holds(BubbleUp(items, h), R) /\ Len(BubbleUp(items, h)) = Len(h)
           /\ InOrder(items, BubbleUp(items, h))
<1> DEFINE N == Len(h)
           V == Risen(items, R, N)
           b == [heap |-> h, index |-> N]
           W == [i \in 0 .. N |-> V]
           G == [i \in 1 .. N |-> [v \in V |-> Rise(items, v)]]
           step(f) == [n \in 0 .. N |-> IF n = 0 THEN b ELSE Rise(items, f[n - 1])]
           s == CHOOSE f : f = step(f)
<1>1. N \in Nat /\ N \in 1 .. N /\ h \in Seq(R)
  BY DEF Holds
<1>2. b \in V
  BY <1>1 DEF Risen
<1>3. BubbleUp(items, h) = s[N].heap
  BY DEF BubbleUp
<1>4. \A v \in V : /\ Rise(items, v) \in V /\ (Rise(items, v) = v => InOrder(items, v.heap))
                   /\ Rise(items, v) = v \/ Rise(items, v).index < v.index
  BY <1>1, RiseIs
<1>5. \A v \in V : v.index \in 1 .. N /\ Holds(v.heap, R) /\ Len(v.heap) = N
  BY DEF Risen
<1> HIDE DEF V, b
<1>6. \A i \in 1 .. N, v \in V : G[i][v] = Rise(items, v)
  OBVIOUS
<1>7. \A i \in 0 .. N : W[i] = V
  OBVIOUS
<1> HIDE DEF s, N, W, G
<1>8. PICK f : Turns(f, N, W, b, G)
  <2>1. b \in W[0] /\ \A i \in 1 .. N : \A v \in W[i - 1] : G[i][v] \in W[i]
    BY <1>1, <1>2, <1>4, <1>6, <1>7
  <2> QED  BY <1>1, <2>1, LoopHas
<1>9. f = step(f)
  <2>1. IsTable(f, N) /\ f[0] = b /\ \A i \in 1 .. N : f[i] = Rise(items, f[i - 1])
    BY <1>1, <1>6, <1>7, <1>8 DEF Turns
  <2>2. \A i \in 0 .. N : f[i] = step(f)[i]
    BY <1>1, <2>1
  <2> QED  BY <2>1, <2>2, Zenon DEF IsTable
<1>10. s = step(s)
  BY <1>9, Zenon DEF s
<1>11. s[0] = b /\ \A i \in 1 .. N : s[i] = Rise(items, s[i - 1])
  <2>1. \A i \in 0 .. N : s[i] = IF i = 0 THEN b ELSE Rise(items, s[i - 1])
    BY <1>10, Zenon
  <2> QED  BY <1>1, <2>1
<1>12. \A i \in 0 .. N : s[i] \in V
  <2> DEFINE S == {i \in 0 .. N : s[i] \in V}
  <2>1. 0 \in S /\ \A i \in 1 .. N : i - 1 \in S => i \in S
    BY <1>1, <1>2, <1>4, <1>11
  <2> HIDE DEF S
  <2>2. \A i \in 0 .. N : i \in S
    BY <1>1, <2>1, StepByStep
  <2> QED  BY <2>2 DEF S
<1> DEFINE Rests == {i \in 0 .. N : Rise(items, s[i]) = s[i]}
           rank == [i \in 0 .. N |-> s[i].index]
<1>13. N \in Rests
  <2>0. \A i \in 1 .. N : i - 1 \in 0 .. N /\ i \in 0 .. N
    BY <1>1
  <2>1. \A i \in 0 .. N : rank[i] \in 1 .. N
    BY <1>5, <1>12
  <2>2. \A i \in 1 .. N : i - 1 \in Rests => i \in Rests
    BY <1>11, <2>0
  <2>3. \A i \in 1 .. N : i - 1 \in Rests \/ rank[i] < rank[i - 1]
    <3> SUFFICES ASSUME NEW i \in 1 .. N PROVE i - 1 \in Rests \/ rank[i] < rank[i - 1]
      OBVIOUS
    <3>1. s[i] = Rise(items, s[i - 1]) /\ s[i - 1] \in V /\ i - 1 \in 0 .. N /\ i \in 0 .. N
      BY <1>11, <1>12, <2>0
    <3>2. Rise(items, s[i - 1]) = s[i - 1] \/ Rise(items, s[i - 1]).index < s[i - 1].index
      BY <1>4, <3>1
    <3> QED  BY <3>1, <3>2
  <2> HIDE DEF Rests, rank
  <2> QED  BY <1>1, <2>1, <2>2, <2>3, Settles
<1>14. s[N] \in V /\ Rise(items, s[N]) = s[N]
  BY <1>1, <1>12, <1>13
<1> QED  BY <1>3, <1>4, <1>5, <1>14 DEF N

\* An item more in the heap.
LEMMA PushIs ==
    ASSUME NEW items, Weak(items), NEW R, NEW i, i \notin R, R \union {i} \subseteq DOMAIN items,
           NEW h, Holds(h, R), InOrder(items, h)
    PROVE  /\ Holds(Push(items, h, i), R \union {i}) /\ Len(Push(items, h, i)) = Len(h) + 1
           /\ InOrder(items, Push(items, h, i))
<1> DEFINE g == Append(h, i)
           N == Len(h)
           Q == R \union {i}
<1>1. h \in Seq(R) /\ N \in Nat /\ DOMAIN h = 1 .. N /\ \A j \in 1 .. N : h[j] \in R
  BY DEF Holds
<1>2. g \in Seq(Q) /\ Len(g) = N + 1 /\ g[N + 1] = i /\ (\A j \in 1 .. N : g[j] = h[j]) /\ g # <<>>
  BY <1>1
<1> HIDE DEF g
<1>3. Holds(g, Q)
  <2>1. \A x, y \in 1 .. N : h[x] = h[y] => x = y
    BY DEF Holds
  <2>2. \A x \in R : \E y \in 1 .. N : h[y] = x
    BY DEF Holds
  <2>3. \A x, y \in 1 .. N + 1 : g[x] = g[y] => x = y
    <3> SUFFICES ASSUME NEW x \in 1 .. N + 1, NEW y \in 1 .. N + 1, g[x] = g[y] PROVE x = y
      OBVIOUS
    <3>1. (x \in 1 .. N \/ x = N + 1) /\ (y \in 1 .. N \/ y = N + 1)
      BY <1>1
    <3> QED  BY <1>1, <1>2, <2>1, <3>1
  <2>4. \A x \in Q : \E y \in 1 .. N + 1 : g[y] = x
    <3> SUFFICES ASSUME NEW x \in Q PROVE \E y \in 1 .. N + 1 : g[y] = x
      OBVIOUS
    <3>1. \A y \in 1 .. N : y \in 1 .. N + 1
      BY <1>1
    <3>2. N + 1 \in 1 .. N + 1
      BY <1>1
    <3> QED  BY <1>2, <2>2, <3>1, <3>2
  <2> QED  BY <1>2, <2>3, <2>4 DEF Holds
<1>4. Rising(items, g, N + 1)
  <2>1. \A j \in 2 .. N + 1 : j # N + 1 => ~Less(items, g[j], g[j \div 2])
    <3> SUFFICES ASSUME NEW j \in 2 .. N + 1, j # N + 1 PROVE ~Less(items, g[j], g[j \div 2])
      OBVIOUS
    <3>1. j \in 2 .. N /\ j \in 1 .. N /\ j \div 2 \in 1 .. N
      BY <1>1
    <3>2. ~Less(items, h[j], h[j \div 2])
      BY <3>1 DEF InOrder
    <3> QED  BY <1>2, <3>1, <3>2
  <2>2. \A j \in 2 .. N + 1 : j \div 2 # N + 1
    BY <1>1
  <2> QED  BY <1>2, <2>1, <2>2 DEF Rising
<1>5. Push(items, h, i) = BubbleUp(items, g)
  BY DEF Push, g
<1>6. Q \subseteq DOMAIN items
  OBVIOUS
<1> HIDE DEF Q
<1>7. Holds(BubbleUp(items, g), Q) /\ Len(BubbleUp(items, g)) = N + 1 /\ InOrder(items, BubbleUp(items, g))
  BY <1>2, <1>3, <1>4, <1>6, BubbleUpIs
<1> QED  BY <1>5, <1>7 DEF Q

\* A heap where only the children of x may be less than their parent.
Sinking(items, h, x) ==
    /\ \A j \in 2 .. Len(h) : j \div 2 # x => ~Less(items, h[j], h[j \div 2])
    /\ x > 1 => \A j \in 2 .. Len(h) : j \div 2 = x => ~Less(items, h[j], h[x \div 2])

Sunk(items, R, N) == {t \in [heap : Seq(R), index : 1 .. N] :
                         Holds(t.heap, R) /\ Len(t.heap) = N /\ Sinking(items, t.heap, t.index)}

\* The least of an item and its children.
LEMMA SmallestIs ==
    ASSUME NEW items, Weak(items), NEW R, R \subseteq DOMAIN items, NEW N \in Nat, NEW t \in Sunk(items, R, N)
    PROVE  /\ Smallest(items, t) \in {t.index, 2 * t.index, 2 * t.index + 1} /\ Smallest(items, t) \in 1 .. N
           /\ Smallest(items, t) # t.index => Less(items, t.heap[Smallest(items, t)], t.heap[t.index])
           /\ \A j \in 2 .. N : j \div 2 = t.index => ~Less(items, t.heap[j], t.heap[Smallest(items, t)])
<1> DEFINE h == t.heap  x == t.index
           L(i, j) == Less(items, i, j)
           y == IF 2 * x <= N /\ L(h[2 * x], h[x]) THEN 2 * x ELSE x
           z == IF 2 * x + 1 <= N /\ L(h[2 * x + 1], h[y]) THEN 2 * x + 1 ELSE y
<1>1. /\ Holds(h, R) /\ Len(h) = N /\ x \in 1 .. N /\ h \in Seq(R)
      /\ \A j \in 1 .. N : h[j] \in R
  BY DEF Sunk
<1>w. /\ \A i, j \in R : L(i, j) => ~L(j, i)
      /\ \A i, j, k \in R : ~L(i, j) /\ ~L(j, k) => ~L(i, k)
  BY DEF Weak
<1>2. Smallest(items, t) = z
  BY <1>1 DEF Smallest
<1> HIDE DEF h, x, L
<1>3. /\ z \in {x, 2 * x, 2 * x + 1} /\ z \in 1 .. N /\ y \in {x, 2 * x} /\ y \in 1 .. N
  BY <1>1
<1>4. z # x => L(h[z], h[x])
  <2>1. y # x => L(h[y], h[x])
    OBVIOUS
  <2>2. z # y => L(h[z], h[y])
    OBVIOUS
  <2>3. h[x] \in R /\ h[y] \in R /\ h[z] \in R
    BY <1>1, <1>3
  <2> HIDE DEF y, z
  <2>4. ASSUME z # y, y # x PROVE L(h[z], h[x])
    <3>1. ~L(h[y], h[z]) /\ L(h[y], h[x])
      BY <1>w, <2>1, <2>2, <2>3, <2>4
    <3> QED  BY <1>w, <2>2, <2>3, <2>4, <3>1
  <2> QED  BY <2>1, <2>2, <2>4
<1>5. \A j \in 2 .. N : j \div 2 = x => ~L(h[j], h[z])
  <2> SUFFICES ASSUME NEW j \in 2 .. N, j \div 2 = x PROVE ~L(h[j], h[z])
    OBVIOUS
  <2>0. j \in 1 .. N /\ (j = 2 * x \/ j = 2 * x + 1)
    BY <1>1
  <2>1. h[j] \in R /\ h[x] \in R /\ h[y] \in R /\ h[z] \in R
    BY <1>1, <1>3, <2>0
  <2>2. z # y => ~L(h[y], h[z])
    BY <1>w, <2>1
  <2>3. L(h[y], h[y]) => FALSE
    BY <1>w, <2>1
  <2>4. CASE j = 2 * x
    <3>1. ~L(h[j], h[y])
      <4>1. CASE y = 2 * x
        BY <2>3, <2>4, <4>1
      <4>2. CASE y # 2 * x
        BY <1>1, <2>0, <2>4, <4>2
      <4> QED  BY <4>1, <4>2
    <3> HIDE DEF y
    <3>2. z = y \/ (z = 2 * x + 1 /\ L(h[z], h[y]))
      OBVIOUS
    <3> HIDE DEF z
    <3>3. ASSUME L(h[z], h[y]) PROVE ~L(h[j], h[z])
      <4>1. ~L(h[y], h[z])
        BY <1>w, <2>1, <3>3
      <4> QED  BY <1>w, <2>1, <3>1, <4>1
    <3> QED  BY <3>1, <3>2, <3>3
  <2>5. CASE j = 2 * x + 1
    <3> HIDE DEF y
    <3>1. CASE z = j
      <4>1. L(h[z], h[z]) => FALSE
        BY <1>w, <2>1
      <4> QED  BY <3>1, <4>1
    <3>2. CASE z # j
      <4>1. j <= N /\ z # 2 * x + 1
        BY <2>5, <3>2
      <4>2. ~L(h[2 * x + 1], h[y]) /\ z = y
        BY <2>5, <4>1
      <4> QED  BY <2>5, <4>2
    <3> QED  BY <3>1, <3>2
  <2> QED  BY <2>0, <2>4, <2>5
<1> QED  BY <1>2, <1>3, <1>4, <1>5 DEF h, x, L

\* A turn of bubbleDown leaves only the item it moved to out of order, lower down,
\* or none at all.
LEMMA SinkIs ==
    ASSUME NEW items, Weak(items), NEW R, R \subseteq DOMAIN items, NEW N \in Nat, NEW t \in Sunk(items, R, N)
    PROVE  /\ Sink(items, t) \in Sunk(items, R, N)
           /\ Sink(items, t) = t => InOrder(items, t.heap)
           /\ Sink(items, t) = t \/ Sink(items, t).index > t.index
<1> DEFINE h == t.heap  x == t.index  m == Smallest(items, t)
           L(i, j) == Less(items, i, j)
<1>1. /\ Holds(h, R) /\ Len(h) = N /\ Sinking(items, h, x) /\ x \in 1 .. N /\ h \in Seq(R)
      /\ t = [heap |-> h, index |-> x]
  BY DEF Sunk
<1>2. \A j \in 1 .. N : h[j] \in R /\ h[j] \in DOMAIN items
  BY <1>1
<1>3. \A j \in 2 .. N : j \div 2 \in 1 .. N /\ j \div 2 < j /\ j \in 1 .. N
  BY Halves
<1>w. /\ \A i, j \in R : L(i, j) => ~L(j, i)
      /\ \A i, j, k \in R : ~L(i, j) /\ ~L(j, k) => ~L(i, k)
  BY DEF Weak
<1>r. /\ \A j \in 2 .. N : j \div 2 # x => ~L(h[j], h[j \div 2])
      /\ x > 1 => \A j \in 2 .. N : j \div 2 = x => ~L(h[j], h[x \div 2])
  BY <1>1 DEF Sinking
<1>m. /\ m \in {x, 2 * x, 2 * x + 1} /\ m \in 1 .. N
      /\ m # x => L(h[m], h[x])
      /\ \A j \in 2 .. N : j \div 2 = x => ~L(h[j], h[m])
  BY SmallestIs
<1>s. Sink(items, t) = IF m = x THEN t ELSE [heap |-> Swapped(h, x, m), index |-> m]
  BY DEF Sink
<1> HIDE DEF h, x, L, m
<1>4. CASE m = x
  <2>1. \A j \in 2 .. N : ~L(h[j], h[j \div 2])
    BY <1>r, <1>m, <1>4
  <2>2. InOrder(items, h)
    BY <1>1, <2>1 DEF InOrder, L
  <2> QED  BY <1>4, <1>s, <2>2 DEF h
<1>5. CASE m # x
  <2> DEFINE s == Swapped(h, x, m)
  <2>0. /\ x \in Int /\ m \in 2 .. N /\ x < m /\ m \div 2 = x /\ x \in 1 .. N /\ m \in 1 .. N
        /\ L(h[m], h[x]) /\ ~L(h[x], h[m])
    BY <1>1, <1>2, <1>5, <1>m, <1>w
  <2>1. Sink(items, t) = [heap |-> s, index |-> m]
    BY <1>5, <1>s
  <2>2. /\ Holds(s, R) /\ Len(s) = N /\ s[x] = h[m] /\ s[m] = h[x]
        /\ \A y \in 1 .. N : y # x /\ y # m => s[y] = h[y]
    <3>1. Holds(h, R) /\ x \in 1 .. Len(h) /\ m \in 1 .. Len(h) /\ Len(h) = N
      BY <1>1, <2>0
    <3>2. Holds(s, R) /\ Exchanges(s, h, x, m)
      BY <3>1, SwapIs
    <3> HIDE DEF s
    <3> QED  BY <3>1, <3>2 DEF Exchanges
  <2> HIDE DEF s
  <2>3. ASSUME NEW j \in 2 .. N, j \div 2 # m PROVE ~L(s[j], s[j \div 2])
    <3> DEFINE q == j \div 2
    <3>0. q \in 1 .. N /\ q < j /\ j \in 1 .. N /\ q # m
      BY <1>3, <2>3
    <3>1. CASE j = m
      <4>1. q = x
        BY <2>0, <3>1
      <4> QED  BY <2>0, <2>2, <3>1, <4>1
    <3>2. CASE j # m /\ q = x
      <4>1. ~L(h[j], h[m]) /\ j # x
        BY <1>m, <3>0, <3>2
      <4> QED  BY <2>2, <3>0, <3>2, <4>1
    <3>3. CASE j # m /\ q # x /\ j = x
      <4>1. ~L(h[m], h[q])
        <5>1. x > 1 /\ x \div 2 = q
          BY <3>3
        <5> QED  BY <1>r, <2>0, <5>1
      <4>2. s[q] = h[q] /\ s[x] = h[m]
        BY <2>2, <3>0, <3>3
      <4> QED  BY <3>3, <4>1, <4>2
    <3>4. CASE j # m /\ q # x /\ j # x
      <4>1. ~L(h[j], h[q])
        BY <1>r, <3>4
      <4> QED  BY <2>2, <3>0, <3>4, <4>1
    <3> QED  BY <3>1, <3>2, <3>3, <3>4
  <2>4. ASSUME NEW j \in 2 .. N, j \div 2 = m PROVE ~L(s[j], s[m \div 2])
    <3>1. j \in 1 .. N /\ j # m /\ j # x
      BY <1>3, <2>0, <2>4
    <3>2. ~L(h[j], h[m])
      BY <1>r, <2>0, <2>4
    <3> QED  BY <2>0, <2>2, <3>1, <3>2
  <2>5. Sinking(items, s, m)
    BY <2>2, <2>3, <2>4 DEF Sinking, L
  <2>6. [heap |-> s, index |-> m] \in Sunk(items, R, N)
    <3>1. s \in Seq(R)
      BY <2>2 DEF Holds
    <3> QED  BY <2>0, <2>2, <2>5, <3>1 DEF Sunk
  <2>7. Sink(items, t).index > t.index /\ Sink(items, t) # t
    <3>1. Sink(items, t).index = m /\ t.index = x /\ m # x
      BY <2>0, <2>1 DEF x
    <3> QED  BY <2>0, <3>1
  <2> QED  BY <2>1, <2>6, <2>7
<1> QED  BY <1>4, <1>5

\* After bubbleDown a heap that was in order but for its root is in order.
LEMMA BubbleDownIs ==
    ASSUME NEW items, Weak(items), NEW R, R \subseteq DOMAIN items, NEW h, Holds(h, R), h # <<>>,
           Sinking(items, h, 1)
    PROVE  /\ Holds(BubbleDown(items, h), R) /\ Len(BubbleDown(items, h)) = Len(h)
           /\ InOrder(items, BubbleDown(items, h))
<1> DEFINE N == Len(h)
           V == Sunk(items, R, N)
           b == [heap |-> h, index |-> 1]
           W == [i \in 0 .. N |-> V]
           G == [i \in 1 .. N |-> [v \in V |-> Sink(items, v)]]
           step(f) == [n \in 0 .. N |-> IF n = 0 THEN b ELSE Sink(items, f[n - 1])]
           s == CHOOSE f : f = step(f)
<1>1. N \in Nat /\ 1 \in 1 .. N /\ h \in Seq(R)
  BY DEF Holds
<1>2. b \in V
  BY <1>1 DEF Sunk
<1>3. BubbleDown(items, h) = s[N].heap
  BY DEF BubbleDown
<1>4. \A v \in V : /\ Sink(items, v) \in V /\ (Sink(items, v) = v => InOrder(items, v.heap))
                   /\ Sink(items, v) = v \/ Sink(items, v).index > v.index
  BY <1>1, SinkIs
<1>5. \A v \in V : v.index \in 1 .. N /\ Holds(v.heap, R) /\ Len(v.heap) = N
  BY DEF Sunk
<1> HIDE DEF V, b
<1>6. \A i \in 1 .. N, v \in V : G[i][v] = Sink(items, v)
  OBVIOUS
<1>7. \A i \in 0 .. N : W[i] = V
  OBVIOUS
<1> HIDE DEF s, N, W, G
<1>8. PICK f : Turns(f, N, W, b, G)
  <2>1. b \in W[0] /\ \A i \in 1 .. N : \A v \in W[i - 1] : G[i][v] \in W[i]
    BY <1>1, <1>2, <1>4, <1>6, <1>7
  <2> QED  BY <1>1, <2>1, LoopHas
<1>9. f = step(f)
  <2>1. IsTable(f, N) /\ f[0] = b /\ \A i \in 1 .. N : f[i] = Sink(items, f[i - 1])
    BY <1>1, <1>6, <1>7, <1>8 DEF Turns
  <2>2. \A i \in 0 .. N : f[i] = step(f)[i]
    BY <1>1, <2>1
  <2> QED  BY <2>1, <2>2, Zenon DEF IsTable
<1>10. s = step(s)
  BY <1>9, Zenon DEF s
<1>11. s[0] = b /\ \A i \in 1 .. N : s[i] = Sink(items, s[i - 1])
  <2>1. \A i \in 0 .. N : s[i] = IF i = 0 THEN b ELSE Sink(items, s[i - 1])
    BY <1>10, Zenon
  <2> QED  BY <1>1, <2>1
<1>12. \A i \in 0 .. N : s[i] \in V
  <2> DEFINE S == {i \in 0 .. N : s[i] \in V}
  <2>1. 0 \in S /\ \A i \in 1 .. N : i - 1 \in S => i \in S
    BY <1>1, <1>2, <1>4, <1>11
  <2> HIDE DEF S
  <2>2. \A i \in 0 .. N : i \in S
    BY <1>1, <2>1, StepByStep
  <2> QED  BY <2>2 DEF S
<1> DEFINE Rests == {i \in 0 .. N : Sink(items, s[i]) = s[i]}
           rank == [i \in 0 .. N |-> N + 1 - s[i].index]
<1>13. N \in Rests
  <2>0. \A i \in 1 .. N : i - 1 \in 0 .. N /\ i \in 0 .. N
    BY <1>1
  <2>1. \A i \in 0 .. N : rank[i] \in 1 .. N
    BY <1>1, <1>5, <1>12
  <2>2. \A i \in 1 .. N : i - 1 \in Rests => i \in Rests
    BY <1>11, <2>0
  <2>3. \A i \in 1 .. N : i - 1 \in Rests \/ rank[i] < rank[i - 1]
    <3> SUFFICES ASSUME NEW i \in 1 .. N PROVE i - 1 \in Rests \/ rank[i] < rank[i - 1]
      OBVIOUS
    <3>1. s[i] = Sink(items, s[i - 1]) /\ s[i - 1] \in V /\ i - 1 \in 0 .. N /\ i \in 0 .. N
      BY <1>11, <1>12, <2>0
    <3>2. Sink(items, s[i - 1]) = s[i - 1] \/ Sink(items, s[i - 1]).index > s[i - 1].index
      BY <1>4, <3>1
    <3>3. s[i].index \in 1 .. N /\ s[i - 1].index \in 1 .. N
      BY <1>5, <1>12, <3>1
    <3> QED  BY <1>1, <3>1, <3>2, <3>3
  <2> HIDE DEF Rests, rank
  <2> QED  BY <1>1, <2>1, <2>2, <2>3, Settles
<1>14. s[N] \in V /\ Sink(items, s[N]) = s[N]
  BY <1>1, <1>12, <1>13
<1> QED  BY <1>3, <1>4, <1>5, <1>14 DEF N


\* The heap without its root.
LEMMA PopIs ==
    ASSUME NEW items, Weak(items), NEW R, R \subseteq DOMAIN items,
           NEW h, Holds(h, R), h # <<>>, InOrder(items, h)
    PROVE  /\ Holds(Pop(items, h), R \ {h[1]}) /\ Len(Pop(items, h)) = Len(h) - 1
           /\ InOrder(items, Pop(items, h)) /\ h[1] \in R
<1> DEFINE N == Len(h)
           Q == R \ {h[1]}
           g == [Front(h) EXCEPT ![1] = Last(h)]
<1>1. /\ h \in Seq(R) /\ N \in Nat /\ N >= 1 /\ \A j \in 1 .. N : h[j] \in R
      /\ \A x, y \in 1 .. N : h[x] = h[y] => x = y
      /\ \A x \in R : \E y \in 1 .. N : h[y] = x
  BY DEF Holds
<1>2. h[1] \in R /\ Q \subseteq DOMAIN items
  BY <1>1
<1>3. CASE N = 1
  <2>1. Q = {}
    <3>1. \A x \in R : x = h[1]
      BY <1>1, <1>3
    <3> QED  BY <3>1
  <2>2. Pop(items, h) = <<>>
    BY <1>3 DEF Pop
  <2>3. Holds(<<>>, Q) /\ InOrder(items, <<>>)
    BY <2>1 DEF Holds, InOrder
  <2> QED  BY <1>1, <1>2, <1>3, <2>2, <2>3
<1>4. CASE N # 1
  <2>0. Pop(items, h) = BubbleDown(items, g)
    BY <1>4 DEF Pop
  <2>n. N \in Nat /\ N >= 1
    BY <1>1
  <2>1. Front(h) = [j \in 1 .. N - 1 |-> h[j]]
    BY <1>1, <1>4 DEF Front
  <2>l. Last(h) = h[N]
    BY DEF Last
  <2> HIDE DEF N
  <2>m. N - 1 \in Nat /\ N - 1 > 0
    BY <1>4, <2>n
  <2>f. g = [j \in 1 .. N - 1 |-> IF j = 1 THEN h[N] ELSE h[j]]
    <3> DEFINE F == Front(h)
    <3>1. F = [j \in 1 .. N - 1 |-> h[j]] /\ g = [F EXCEPT ![1] = h[N]]
      BY <2>1, <2>l
    <3> HIDE DEF F, g
    <3> QED  BY <3>1
  <2> HIDE DEF g
  <2>2. Len(g) = N - 1 /\ g[1] = h[N] /\ \A j \in 2 .. N - 1 : g[j] = h[j]
    BY <2>f, <2>m
  <2>3. \A j \in 1 .. N - 1 : g[j] \in Q
    <3> SUFFICES ASSUME NEW j \in 1 .. N - 1 PROVE g[j] \in Q
      OBVIOUS
    <3>1. CASE j = 1
      BY <1>1, <1>4, <2>2, <3>1
    <3>2. CASE j # 1
      BY <1>1, <1>4, <2>2, <3>2
    <3> QED  BY <3>1, <3>2
  <2>4. g \in Seq(Q) /\ g # <<>>
    <3>1. g \in [1 .. N - 1 -> Q]
      BY <2>f, <2>3
    <3>2. g \in Seq(Q)
      BY <2>m, <3>1
    <3> QED  BY <2>2, <2>m, <3>2
  <2>5. Holds(g, Q)
    <3>1. \A x, y \in 1 .. N - 1 : g[x] = g[y] => x = y
      BY <1>1, <1>4, <2>2
    <3>2. \A x \in Q : \E y \in 1 .. N - 1 : g[y] = x
      <4> SUFFICES ASSUME NEW x \in Q PROVE \E y \in 1 .. N - 1 : g[y] = x
        OBVIOUS
      <4>1. PICK y \in 1 .. N : h[y] = x
        BY <1>1
      <4>2. y # 1
        BY <4>1
      <4>3. CASE y = N
        <5>1. 1 \in 1 .. N - 1 /\ g[1] = x
          BY <1>1, <1>4, <2>2, <4>1, <4>3
        <5> QED  BY <5>1
      <4>4. CASE y # N
        <5>1. y \in 1 .. N - 1 /\ y \in 2 .. N - 1
          BY <2>n, <4>1, <4>2, <4>4
        <5>2. g[y] = x
          BY <2>2, <4>1, <5>1
        <5> QED  BY <5>1, <5>2
      <4> QED  BY <4>3, <4>4
    <3> QED  BY <2>2, <2>4, <3>1, <3>2 DEF Holds
  <2>6. Sinking(items, g, 1)
    <3> SUFFICES ASSUME NEW j \in 2 .. N - 1, j \div 2 # 1 PROVE ~Less(items, g[j], g[j \div 2])
      BY <2>2 DEF Sinking
    <3>1. j \div 2 \in 2 .. N - 1 /\ j \in 2 .. N
      BY <2>n
    <3>2. ~Less(items, h[j], h[j \div 2])
      BY <3>1 DEF InOrder, N
    <3> QED  BY <2>2, <3>1, <3>2
  <2> HIDE DEF Q
  <2>7. Holds(BubbleDown(items, g), Q) /\ Len(BubbleDown(items, g)) = Len(g) /\ InOrder(items, BubbleDown(items, g))
    BY <1>2, <2>4, <2>5, <2>6, BubbleDownIs
  <2> QED  BY <1>2, <2>0, <2>2, <2>7 DEF Q, N
<1> QED  BY <1>3, <1>4

\* The root is the worst.
LEMMA RootIs ==
    ASSUME NEW items, Weak(items), NEW R, R \subseteq DOMAIN items, NEW h, Holds(h, R), InOrder(items, h)
    PROVE  \A j \in 1 .. Len(h) : ~Less(items, h[j], h[1])
<1> DEFINE N == Len(h)
           S == {n \in 0 .. N : \A j \in 1 .. n : ~Less(items, h[j], h[1])}
<1>1. N \in Nat /\ \A j \in 1 .. N : h[j] \in DOMAIN items
  BY DEF Holds
<1>w. /\ \A i, j \in DOMAIN items : Less(items, i, j) => ~Less(items, j, i)
      /\ \A i, j, k \in DOMAIN items : ~Less(items, i, j) /\ ~Less(items, j, k) => ~Less(items, i, k)
  BY DEF Weak
<1>2. 0 \in S
  BY <1>1
<1>3. ASSUME NEW n \in 1 .. N, n - 1 \in S PROVE n \in S
  <2>1. \A j \in 1 .. n - 1 : ~Less(items, h[j], h[1])
    BY <1>3
  <2>2. ~Less(items, h[n], h[1])
    <3>1. CASE n = 1
      BY <1>1, <1>w, <3>1
    <3>2. CASE n # 1
      <4>1. n \in 2 .. N /\ n \div 2 \in 1 .. n - 1 /\ n \div 2 \in 1 .. N /\ 1 \in 1 .. N
        BY <1>1, <3>2
      <4>2. ~Less(items, h[n], h[n \div 2])
        BY <4>1 DEF InOrder
      <4> QED  BY <1>1, <1>w, <2>1, <4>1, <4>2
    <3> QED  BY <3>1, <3>2
  <2> QED  BY <1>1, <2>1, <2>2
<1> HIDE DEF S
<1>4. N \in S
  <2>1. \A n \in 0 .. N : n \in S
    BY <1>1, <1>2, <1>3, StepByStep
  <2> QED  BY <1>1, <2>1
<1> QED  BY <1>4 DEF S

\* A heap of the k best of the first n items, or of all of them.
TopOf(items, k, n, h, R) ==
    /\ R \subseteq 1 .. n /\ Holds(h, R) /\ InOrder(items, h)
    /\ (Len(h) = n /\ n <= k /\ R = 1 .. n) \/ Len(h) = k
    /\ \A x \in (1 .. n) \ R, y \in R : ~Less(items, y, x)

\* One more item offered: the heap holds the k best of one item more.
LEMMA OfferIs ==
    ASSUME NEW items, Weak(items), NEW N \in Nat, DOMAIN items = 1 .. N, NEW k \in Nat \ {0},
           NEW n \in 1 .. N, NEW h, NEW R, TopOf(items, k, n - 1, h, R)
    PROVE  \E Q : TopOf(items, k, n, Offer(items, k, h, n), Q)
<1>1. /\ R \subseteq 1 .. n - 1 /\ Holds(h, R) /\ InOrder(items, h)
      /\ (Len(h) = n - 1 /\ n - 1 <= k /\ R = 1 .. n - 1) \/ Len(h) = k
      /\ \A x \in (1 .. n - 1) \ R, y \in R : ~Less(items, y, x)
  BY DEF TopOf
<1>2. /\ R \subseteq DOMAIN items /\ n \notin R /\ R \union {n} \subseteq DOMAIN items /\ Len(h) \in Nat
      /\ n \in DOMAIN items /\ 1 .. n = (1 .. n - 1) \union {n} /\ h \in Seq(R)
  <2>1. h \in Seq(R)
    BY <1>1 DEF Holds
  <2> QED  BY <1>1, <2>1
<1>w. /\ \A i, j \in DOMAIN items : Less(items, i, j) => ~Less(items, j, i)
      /\ \A i, j, l \in DOMAIN items : ~Less(items, i, j) /\ ~Less(items, j, l) => ~Less(items, i, l)
  BY DEF Weak
<1>3. CASE Len(h) < k
  <2>1. Len(h) = n - 1 /\ R = 1 .. n - 1 /\ n <= k
    BY <1>1, <1>2, <1>3
  <2>2. Offer(items, k, h, n) = Push(items, h, n)
    BY <1>3 DEF Offer
  <2>3. /\ Holds(Push(items, h, n), R \union {n}) /\ Len(Push(items, h, n)) = Len(h) + 1
        /\ InOrder(items, Push(items, h, n))
    BY <1>1, <1>2, PushIs
  <2>4. R \union {n} = 1 .. n /\ Len(h) + 1 = n
    BY <1>2, <2>1
  <2>5. TopOf(items, k, n, Push(items, h, n), 1 .. n)
    BY <2>1, <2>3, <2>4 DEF TopOf
  <2> QED  BY <2>2, <2>5
<1>4. CASE Len(h) = k
  <2> DEFINE r == h[1]
  <2>1. h # <<>> /\ r \in R /\ \A y \in R : ~Less(items, y, r)
    <3>0. Len(h) >= 1 /\ 1 \in 1 .. Len(h)
      BY <1>2, <1>4
    <3>1. r \in R /\ h # <<>>
      BY <1>2, <3>0
    <3>2. \A y \in R : \E j \in 1 .. Len(h) : h[j] = y
      BY <1>1 DEF Holds
    <3>3. \A j \in 1 .. Len(h) : ~Less(items, h[j], r)
      BY <1>1, <1>2, RootIs
    <3> QED  BY <3>1, <3>2, <3>3
  <2>2. CASE Less(items, r, n)
    <3> DEFINE g == Pop(items, h)  Q == R \ {r}
    <3>1. Holds(g, Q) /\ Len(g) = k - 1 /\ InOrder(items, g)
      BY <1>1, <1>2, <1>4, <2>1, PopIs
    <3>2. Offer(items, k, h, n) = Push(items, g, n)
      BY <1>2, <1>4, <2>2 DEF Offer, Less
    <3>3. n \notin Q /\ Q \union {n} \subseteq DOMAIN items
      BY <1>2
    <3> HIDE DEF g, Q
    <3>4. Holds(Push(items, g, n), Q \union {n}) /\ Len(Push(items, g, n)) = k /\ InOrder(items, Push(items, g, n))
      <4>1. /\ Holds(Push(items, g, n), Q \union {n}) /\ Len(Push(items, g, n)) = Len(g) + 1
            /\ InOrder(items, Push(items, g, n))
        BY <3>1, <3>3, PushIs
      <4> QED  BY <3>1, <4>1
    <3>5. \A x \in (1 .. n) \ (Q \union {n}), y \in Q \union {n} : ~Less(items, y, x)
      <4> SUFFICES ASSUME NEW x \in (1 .. n) \ (Q \union {n}), NEW y \in Q \union {n} PROVE ~Less(items, y, x)
        OBVIOUS
      <4>1. /\ x \in DOMAIN items /\ y \in DOMAIN items /\ r \in DOMAIN items
            /\ x = r \/ x \in (1 .. n - 1) \ R
            /\ y = n \/ y \in R
        BY <1>2, <2>1 DEF Q
      <4>2. ~Less(items, r, x)
        BY <1>1, <1>w, <2>1, <4>1
      <4>3. CASE y \in R
        <5>1. CASE x = r
          BY <2>1, <4>3, <5>1
        <5>2. CASE x # r
          BY <1>1, <4>1, <4>3, <5>2
        <5> QED  BY <5>1, <5>2
      <4>4. CASE y = n
        <5>1. ~Less(items, n, r)
          BY <1>2, <1>w, <2>2, <4>1
        <5> QED  BY <1>2, <1>w, <4>1, <4>2, <4>4, <5>1
      <4> QED  BY <4>1, <4>3, <4>4
    <3>6. Q \union {n} \subseteq 1 .. n
      BY <1>1, <1>2 DEF Q
    <3>7. TopOf(items, k, n, Push(items, g, n), Q \union {n})
      BY <3>4, <3>5, <3>6 DEF TopOf
    <3> QED  BY <3>2, <3>7
  <2>3. CASE ~Less(items, r, n)
    <3>1. Offer(items, k, h, n) = h
      BY <1>2, <1>4, <2>3 DEF Offer, Less
    <3>2. \A x \in (1 .. n) \ R, y \in R : ~Less(items, y, x)
      <4> SUFFICES ASSUME NEW x \in (1 .. n) \ R, NEW y \in R PROVE ~Less(items, y, x)
        OBVIOUS
      <4>1. x = n \/ x \in (1 .. n - 1) \ R
        BY <1>2
      <4>2. CASE x = n
        BY <1>2, <1>w, <2>1, <2>3, <4>2
      <4> QED  BY <1>1, <4>1, <4>2
    <3>3. TopOf(items, k, n, h, R)
      BY <1>1, <1>2, <1>4, <3>2 DEF TopOf
    <3> QED  BY <3>1, <3>3
  <2> QED  BY <2>2, <2>3
<1> QED  BY <1>1, <1>2, <1>3, <1>4

\* What the heap has in the end.
LEMMA HeapOfIs ==
    ASSUME NEW items, Weak(items), NEW N \in Nat, DOMAIN items = 1 .. N, Len(items) = N, NEW k \in Nat \ {0}
    PROVE  \E R : TopOf(items, k, N, HeapOf(items, k), R)
<1> DEFINE b == <<>>
           W == [n \in 0 .. N |-> {h \in Seq(1 .. N) : \E R : TopOf(items, k, n, h, R)}]
           G == [n \in 1 .. N |-> [v \in W[n - 1] |-> Offer(items, k, v, n)]]
           step(f) == [n \in 0 .. N |-> IF n = 0 THEN <<>> ELSE Offer(items, k, f[n - 1], n)]
           s == CHOOSE f : f = step(f)
<1>1. HeapOf(items, k) = s[N]
  BY DEF HeapOf
<1>2. b \in W[0]
  <2>1. Holds(<<>>, {}) /\ InOrder(items, <<>>)
    BY DEF Holds, InOrder
  <2>2. {} = 1 .. 0 /\ Len(<<>>) = 0 /\ 0 <= k
    OBVIOUS
  <2>3. TopOf(items, k, 0, <<>>, {})
    <3>1. \A x \in (1 .. 0) \ {}, y \in {} : ~Less(items, y, x)
      OBVIOUS
    <3>2. {} \subseteq 1 .. 0
      OBVIOUS
    <3> QED  BY <2>1, <2>2, <3>1, <3>2 DEF TopOf
  <2>4. <<>> \in Seq(1 .. N) /\ 0 \in 0 .. N
    OBVIOUS
  <2> QED  BY <2>3, <2>4
<1>3. \A n \in 1 .. N : n - 1 \in 0 .. N /\ n \in 0 .. N
  OBVIOUS
<1>4. \A n \in 1 .. N : \A v \in W[n - 1] : Offer(items, k, v, n) \in W[n]
  <2> SUFFICES ASSUME NEW n \in 1 .. N, NEW v \in W[n - 1] PROVE Offer(items, k, v, n) \in W[n]
    OBVIOUS
  <2>1. PICK R : TopOf(items, k, n - 1, v, R)
    BY <1>3
  <2>2. PICK Q : TopOf(items, k, n, Offer(items, k, v, n), Q)
    BY <2>1, OfferIs
  <2>3. Offer(items, k, v, n) \in Seq(Q) /\ Q \subseteq 1 .. N
    BY <2>2 DEF TopOf, Holds
  <2>4. Offer(items, k, v, n) \in Seq(1 .. N)
    <3> DEFINE o == Offer(items, k, v, n)  D == 1 .. N
    <3>1. o \in Seq(Q) /\ Q \subseteq D
      BY <2>3
    <3> HIDE DEF o, D
    <3>2. o \in Seq(D)
      BY <3>1
    <3> QED  BY <3>2 DEF o, D
  <2> QED  BY <1>3, <2>2, <2>4
<1>5. \A n \in 1 .. N : \A v \in W[n - 1] : G[n][v] = Offer(items, k, v, n)
  OBVIOUS
<1> HIDE DEF b, W, G, s
<1>6. PICK f : Turns(f, N, W, b, G)
  <2>1. \A n \in 1 .. N : \A v \in W[n - 1] : G[n][v] \in W[n]
    BY <1>4, <1>5
  <2> QED  BY <1>2, <2>1, LoopHas
<1>7. f = step(f)
  <2>1. IsTable(f, N) /\ f[0] = b /\ \A n \in 1 .. N : f[n] = Offer(items, k, f[n - 1], n)
    BY <1>5, <1>6 DEF Turns
  <2>2. \A n \in 0 .. N : f[n] = step(f)[n]
    BY <2>1 DEF b
  <2> QED  BY <2>1, <2>2, Zenon DEF IsTable
<1>8. s = step(s)
  BY <1>7, Zenon DEF s
<1>9. s[0] = b /\ \A n \in 1 .. N : s[n] = Offer(items, k, s[n - 1], n)
  <2>1. \A n \in 0 .. N : s[n] = IF n = 0 THEN <<>> ELSE Offer(items, k, s[n - 1], n)
    BY <1>8, Zenon
  <2> QED  BY <2>1 DEF b
<1> DEFINE S == {n \in 0 .. N : s[n] \in W[n]}
<1>10. N \in S
  <2>1. 0 \in S /\ \A n \in 1 .. N : n - 1 \in S => n \in S
    BY <1>2, <1>3, <1>4, <1>9
  <2> HIDE DEF S
  <2>2. \A n \in 0 .. N : n \in S
    BY <2>1, StepByStep
  <2> QED  BY <2>2
<1>11. N \in 0 .. N /\ s[N] \in W[N]
  BY <1>10
<1> QED  BY <1>1, <1>11 DEF W

\* What can be said of the k best that the heap found.
\* Of a list of more than k, the places of k in the order in which they are
\* returned; none left out is better than one of them.
Bests(items, k) ==
    {g \in [1 .. k -> DOMAIN items] :
        /\ \A i, j \in 1 .. k : i < j => g[i] # g[j] /\ ~Better(items[g[j]], items[g[i]])
        /\ \A x \in DOMAIN items : \/ \E q \in 1 .. k : g[q] = x
                                   \/ \A q \in 1 .. k : ~Better(items[x], items[g[q]])}

\* What selectTopK returns is k of the best, the best of them first.
LEMMA TopKIs ==
    ASSUME NEW T, Comparable(T), NEW items \in Seq(T), NEW k \in Nat \ {0}, Len(items) > k
    PROVE  \E g \in Bests(items, k) : SelectTopK(items, k) = [n \in 1 .. k |-> items[g[n]]]
<1> DEFINE N == Len(items)
           h == HeapOf(items, k)
           tops == [n \in DOMAIN h |-> items[h[n]]]
<1>1. N \in Nat /\ DOMAIN items = 1 .. N /\ Weak(items) /\ \A x \in 1 .. N : items[x] \in T
  BY LessIs
<1>2. PICK R : TopOf(items, k, N, h, R)
  BY <1>1, HeapOfIs
<1>3. /\ R \subseteq 1 .. N /\ h \in Seq(R) /\ Len(h) = k /\ DOMAIN h = 1 .. k
      /\ \A i, j \in 1 .. k : h[i] = h[j] => i = j
      /\ \A x \in R : \E j \in 1 .. k : h[j] = x
      /\ \A x \in (1 .. N) \ R, y \in R : ~Better(items[x], items[y])
  <2>1. /\ R \subseteq 1 .. N /\ Holds(h, R) /\ (N <= k \/ Len(h) = k)
        /\ \A x \in (1 .. N) \ R, y \in R : ~Less(items, y, x)
    BY <1>2 DEF TopOf
  <2> HIDE DEF h
  <2>2. Len(h) = k /\ h \in Seq(R)
    BY <1>1, <2>1 DEF Holds
  <2>3. DOMAIN h = 1 .. k
    BY <2>2
  <2> QED  BY <2>1, <2>2, <2>3 DEF Holds, Less
<1>4. SelectTopK(items, k) = BestFirst(tops)
  BY <1>1 DEF SelectTopK
<1> HIDE DEF h
<1>5. tops \in Seq(T) /\ DOMAIN tops = 1 .. k /\ \A n \in 1 .. k : tops[n] = items[h[n]] /\ h[n] \in R
  <2>1. \A n \in 1 .. k : h[n] \in R /\ items[h[n]] \in T
    <3>1. \A n \in 1 .. k : h[n] \in R
      BY <1>3
    <3>2. \A x \in R : items[x] \in T
      BY <1>1, <1>3
    <3> QED  BY <3>1, <3>2
  <2>2. tops \in [1 .. k -> T]
    BY <1>3, <2>1
  <2> QED  BY <1>3, <2>1, <2>2
<1> HIDE DEF tops
<1>6. PICK w \in Sortings(tops) : BestFirst(tops) = [n \in DOMAIN tops |-> tops[w[n]]]
  BY <1>5, SortIs
<1>7. /\ w \in [1 .. k -> 1 .. k]
      /\ \A i, j \in 1 .. k : i < j => w[i] # w[j] /\ ~Better(tops[w[j]], tops[w[i]])
      /\ \A i \in 1 .. k : \E j \in 1 .. k : w[j] = i
  BY <1>5 DEF Sortings
<1> DEFINE g == [n \in 1 .. k |-> h[w[n]]]
<1>8. \A n \in 1 .. k : g[n] = h[w[n]] /\ w[n] \in 1 .. k /\ g[n] \in R /\ tops[w[n]] = items[g[n]]
  BY <1>5, <1>7
<1>9. g \in [1 .. k -> DOMAIN items]
  BY <1>1, <1>3, <1>8
<1>10. SelectTopK(items, k) = [n \in 1 .. k |-> items[g[n]]]
  BY <1>4, <1>5, <1>6, <1>8
<1> HIDE DEF g
<1>11. \A i, j \in 1 .. k : i < j => g[i] # g[j] /\ ~Better(items[g[j]], items[g[i]])
  <2> SUFFICES ASSUME NEW i \in 1 .. k, NEW j \in 1 .. k, i < j
               PROVE  g[i] # g[j] /\ ~Better(items[g[j]], items[g[i]])
    OBVIOUS
  <2>1. w[i] # w[j] /\ ~Better(tops[w[j]], tops[w[i]])
    BY <1>7
  <2>2. g[i] # g[j]
    BY <1>3, <1>8, <2>1
  <2> QED  BY <1>8, <2>1, <2>2
<1>12. \A x \in 1 .. N : \/ \E q \in 1 .. k : g[q] = x
                         \/ \A q \in 1 .. k : ~Better(items[x], items[g[q]])
  <2> SUFFICES ASSUME NEW x \in 1 .. N
               PROVE  (\E q \in 1 .. k : g[q] = x) \/ \A q \in 1 .. k : ~Better(items[x], items[g[q]])
    OBVIOUS
  <2>1. CASE x \in R
    <3>1. PICK j \in 1 .. k : h[j] = x
      BY <1>3, <2>1
    <3>2. PICK q \in 1 .. k : w[q] = j
      BY <1>7
    <3> QED  BY <1>8, <3>1, <3>2
  <2>2. CASE x \notin R
    BY <1>3, <1>8, <2>2
  <2> QED  BY <2>1, <2>2
<1>13. g \in Bests(items, k)
  BY <1>1, <1>9, <1>11, <1>12 DEF Bests
<1> QED  BY <1>10, <1>13

\* The heap finds the same points as sorting does: for every k, the k points of
\* selectTopK are worth, place by place, what the first k of the sorted list are.
THEOREM HeapSorts == ASSUME NEW T, Comparable(T), NEW items \in Seq(T) PROVE HeapIsSort(items)
<1> SUFFICES ASSUME NEW k \in 1 .. Len(items), NEW i \in 1 .. k
             PROVE  /\ SelectTopK(items, k)[i].score = BestFirst(items)[i].score
                    /\ SelectTopK(items, k)[i].eta = BestFirst(items)[i].eta
  BY Zenon DEF HeapIsSort
<1>1. Len(items) \in Nat /\ k \in Nat \ {0} /\ DOMAIN items = 1 .. Len(items) /\ i \in DOMAIN items
  OBVIOUS
<1>2. CASE Len(items) <= k
  <2>1. SelectTopK(items, k) = BestFirst(items)
    BY <1>1, <1>2 DEF SelectTopK
  <2> QED  BY <2>1
<1>3. CASE Len(items) > k
  <2>1. PICK g \in Bests(items, k) : SelectTopK(items, k) = [n \in 1 .. k |-> items[g[n]]]
    BY <1>1, <1>3, TopKIs
  <2>2. PICK w \in Sortings(items) : BestFirst(items) = [n \in DOMAIN items |-> items[w[n]]]
    BY SortIs
  <2>3. /\ g \in [1 .. k -> DOMAIN items]
        /\ \A x, y \in 1 .. k : x < y => g[x] # g[y] /\ ~Better(items[g[y]], items[g[x]])
        /\ \A x \in DOMAIN items : \/ \E q \in 1 .. k : g[q] = x
                                   \/ \A q \in 1 .. k : ~Better(items[x], items[g[q]])
    BY Zenon DEF Bests
  <2>4. items[g[i]].score = items[w[i]].score /\ items[g[i]].eta = items[w[i]].eta
    BY <2>3, TopIsSame
  <2>5. SelectTopK(items, k)[i] = items[g[i]] /\ BestFirst(items)[i] = items[w[i]]
    BY <1>1, <2>1, <2>2
  <2> QED  BY <2>4, <2>5
<1> QED  BY <1>1, <1>2, <1>3

Placed(T) == \A t \in T : t.lat \in Int /\ t.lng \in Int

\* A square below another is of a number between its roots.
LEMMA SquaresGrow == \A x, m \in Int : m >= 0 /\ x * x < m * m => -m < x /\ x < m
<1> SUFFICES ASSUME NEW x \in Int, NEW m \in Int, m >= 0, x * x < m * m PROVE -m < x /\ x < m
  OBVIOUS
<1>1. ASSUME x >= m PROVE FALSE
  <2>1. x * x >= m * x /\ m * x >= m * m
    BY <1>1
  <2> QED  BY <2>1
<1>2. ASSUME x <= -m PROVE FALSE
  <2> DEFINE y == -x
  <2>1. y \in Int /\ y >= m /\ y * y = x * x
    BY <1>2
  <2> HIDE DEF y
  <2>2. y * y >= m * y /\ m * y >= m * m
    BY <2>1
  <2> QED  BY <2>1, <2>2
<1> QED  BY <1>1, <1>2

\* A square is a natural number.
LEMMA SquareIsNat == \A x \in Int : x * x \in Nat
OBVIOUS

\* Up to 800 m the grid compares all that are too close.
LEMMA GridIsExact ==
    ASSUME NEW a, NEW b, a.lat \in Int, a.lng \in Int, b.lat \in Int, b.lng \in Int,
           NEW m \in 0 .. 8, Within(a, b, m)
    PROVE  Neighbours(a, b, m)
<1> DEFINE x == b.lat - a.lat  y == b.lng - a.lng
<1>1. x \in Int /\ y \in Int /\ m \in Int /\ m >= 0 /\ m * m \in Nat
  OBVIOUS
<1>2. Apart2(a, b) = x * x + y * y
  BY DEF Apart2
<1>3. x * x < m * m /\ y * y < m * m
  <2>1. x * x \in Nat /\ y * y \in Nat
    BY <1>1, SquareIsNat
  <2>2. x * x + y * y < m * m
    BY <1>2 DEF Within
  <2> HIDE DEF x, y
  <2> QED  BY <1>1, <2>1, <2>2
<1> HIDE DEF x, y
<1>4. -m < x /\ x < m /\ -m < y /\ y < m
  BY <1>1, <1>3, SquaresGrow
<1>5. m \in 1 .. 8
  BY <1>1, <1>4
<1> DEFINE R(z) == z \div m  C(z) == (100 * z) \div (88 * m)
<1>6. R(b.lat) - R(a.lat) \in -1 .. 1
  <2>1. m = 1 \/ m = 2 \/ m = 3 \/ m = 4 \/ m = 5 \/ m = 6 \/ m = 7 \/ m = 8
    BY <1>5
  <2> QED  BY <1>4, <2>1 DEF x
<1>7. C(b.lng) - C(a.lng) \in -1 .. 1
  <2> DEFINE u == 100 * a.lng  v == 100 * b.lng  n == 88 * m
  <2>0. u \in Int /\ v \in Int /\ a.lng \in Int /\ b.lng \in Int
    OBVIOUS
  <2>1. m = 1 \/ m = 2 \/ m = 3 \/ m = 4 \/ m = 5 \/ m = 6 \/ m = 7 \/ m = 8
    BY <1>5
  <2>2. n \in {88, 176, 264, 352, 440, 528, 616, 704}
    BY <2>1
  <2>3. -n < v - u /\ v - u < n
    BY <1>4, <2>0, <2>1 DEF y
  <2> HIDE DEF u, v, n
  <2>4. v \div n - u \div n \in -1 .. 1
    BY <2>0, <2>2, <2>3
  <2> QED  BY <2>4 DEF u, v, n
<1> QED  BY <1>6, <1>7 DEF Neighbours, Cell

\* Two points are as near to each other either way.
LEMMA WithinIsSymmetric ==
    ASSUME NEW T, Placed(T), NEW m
    PROVE  \A a, b \in T : Within(a, b, m) => Within(b, a, m)
<1> SUFFICES ASSUME NEW a \in T, NEW b \in T PROVE Apart2(a, b) = Apart2(b, a)
  BY DEF Within
<1>1. a.lat \in Int /\ a.lng \in Int /\ b.lat \in Int /\ b.lng \in Int
  BY DEF Placed
<1>2. \A u, v \in Int : (u - v) * (u - v) = (v - u) * (v - u)
  OBVIOUS
<1> QED  BY <1>1, <1>2 DEF Apart2

----------------------------------------------------------------------------
\* What a list is after one more item.
LEMMA AppendsTo ==
    ASSUME NEW T, NEW v \in Seq(T), NEW t \in T
    PROVE  /\ Append(v, t) \in Seq(T) /\ Len(Append(v, t)) = Len(v) + 1 /\ Append(v, t)[Len(v) + 1] = t
           /\ \A i \in 1 .. Len(v) : Append(v, t)[i] = v[i]
           /\ ToSet(Append(v, t)) = ToSet(v) \union {t}
<1> DEFINE g == Append(v, t)  n == Len(v)
<1>1. n \in Nat /\ g \in Seq(T) /\ Len(g) = n + 1 /\ g[n + 1] = t /\ (\A i \in 1 .. n : g[i] = v[i])
      /\ DOMAIN g = 1 .. n + 1 /\ DOMAIN v = 1 .. n
  OBVIOUS
<1> HIDE DEF g, n
<1>2. ToSet(g) = {g[i] : i \in 1 .. n + 1} /\ ToSet(v) = {v[i] : i \in 1 .. n}
  BY <1>1 DEF ToSet
<1>3. 1 .. n + 1 = (1 .. n) \union {n + 1}
  BY <1>1
<1>4. ToSet(g) = ToSet(v) \union {t}
  BY <1>1, <1>2, <1>3
<1> QED  BY <1>1, <1>4 DEF g, n

\* What of a list is in a set.
LEMMA OnlyIs ==
    ASSUME NEW T, NEW list \in Seq(T), NEW Z
    PROVE  Only(list, Z) \in Seq(T) /\ ToSet(Only(list, Z)) = ToSet(list) \intersect Z
<1> DEFINE N == Len(list)
           b == <<>>
           next(v, n) == IF list[n] \in Z THEN Append(v, list[n]) ELSE v
           W == [n \in 0 .. N |-> {v \in Seq(T) : ToSet(v) = {list[i] : i \in 1 .. n} \intersect Z}]
           G == [n \in 1 .. N |-> [v \in W[n - 1] |-> next(v, n)]]
           step(f) == [n \in 0 .. N |-> IF n = 0 THEN <<>> ELSE IF list[n] \in Z THEN Append(f[n - 1], list[n]) ELSE f[n - 1]]
           s == CHOOSE f : f = step(f)
<1>0. N \in Nat /\ (\A n \in 1 .. N : n - 1 \in 0 .. N /\ n \in 0 .. N /\ list[n] \in T) /\ ToSet(list) = {list[i] : i \in 1 .. N}
  BY DEF ToSet
<1>1. Only(list, Z) = s[N]
  BY DEF Only
<1>2. b \in W[0]
  BY <1>0 DEF ToSet
<1>4. \A n \in 1 .. N : \A v \in W[n - 1] : next(v, n) \in W[n]
  <2> SUFFICES ASSUME NEW n \in 1 .. N, NEW v \in W[n - 1] PROVE next(v, n) \in W[n]
    OBVIOUS
  <2>1. v \in Seq(T) /\ ToSet(v) = {list[i] : i \in 1 .. n - 1} \intersect Z
    BY <1>0
  <2>2. {list[i] : i \in 1 .. n} = {list[i] : i \in 1 .. n - 1} \union {list[n]}
    <3>1. 1 .. n = (1 .. n - 1) \union {n}
      BY <1>0
    <3> QED  BY <3>1
  <2>3. ToSet(Append(v, list[n])) = ToSet(v) \union {list[n]} /\ Append(v, list[n]) \in Seq(T)
    BY <1>0, <2>1, AppendsTo
  <2>4. next(v, n) \in Seq(T) /\ ToSet(next(v, n)) = {list[i] : i \in 1 .. n} \intersect Z
    BY <2>1, <2>2, <2>3
  <2> HIDE DEF next
  <2> QED  BY <1>0, <2>4
<1>5. \A n \in 1 .. N : \A v \in W[n - 1] : G[n][v] = next(v, n)
  OBVIOUS
<1> HIDE DEF b, W, G, s, N
<1>6. PICK f : Turns(f, N, W, b, G)
  <2>1. \A n \in 1 .. N : \A v \in W[n - 1] : G[n][v] \in W[n]
    BY <1>4, <1>5
  <2> QED  BY <1>0, <1>2, <2>1, LoopHas
<1>7. f = step(f)
  <2>1. IsTable(f, N) /\ f[0] = b /\ \A n \in 1 .. N : f[n] = next(f[n - 1], n)
    BY <1>5, <1>6 DEF Turns
  <2>2. \A n \in 0 .. N : f[n] = step(f)[n]
    BY <1>0, <2>1 DEF b
  <2> QED  BY <2>1, <2>2, Zenon DEF IsTable
<1>8. s = step(s)
  BY <1>7, Zenon DEF s
<1>9. s[0] = b /\ \A n \in 1 .. N : s[n] = next(s[n - 1], n)
  <2>1. \A n \in 0 .. N : s[n] = IF n = 0 THEN <<>> ELSE next(s[n - 1], n)
    BY <1>8, Zenon
  <2> HIDE DEF next
  <2>2. 0 \in 0 .. N /\ \A n \in 1 .. N : n \in 0 .. N /\ n # 0
    BY <1>0
  <2> QED  BY <2>1, <2>2, Zenon DEF b
<1> DEFINE S == {n \in 0 .. N : s[n] \in W[n]}
<1>10. N \in S
  <2>1. 0 \in S /\ \A n \in 1 .. N : n - 1 \in S => n \in S
    BY <1>0, <1>2, <1>4, <1>9
  <2> HIDE DEF S
  <2>2. \A n \in 0 .. N : n \in S
    BY <1>0, <2>1, StepByStep
  <2> QED  BY <1>0, <2>2
<1>11. N \in 0 .. N /\ s[N] \in W[N]
  BY <1>10
<1> QED  BY <1>0, <1>1, <1>11 DEF W

\* The points taken of the first n of a list: some, apart from each other, in their
\* order, and the others crowd a better one or came when all were taken.
Spaced(items, max, meters, n, r) ==
    /\ Len(r) <= max
    /\ n > 0 => r # <<>>
    /\ \A i \in DOMAIN r : \E m \in 1 .. n : r[i] = items[m]
    /\ \A i, j \in DOMAIN r : i < j => ~Within(r[i], r[j], meters) /\ ~Better(r[j], r[i])
    /\ \A m \in 1 .. n : \/ \E i \in DOMAIN r : r[i] = items[m]
                         \/ \E i \in DOMAIN r : Within(items[m], r[i], meters) /\ ~Better(items[m], r[i])
                         \/ Len(r) = max /\ \A i \in DOMAIN r : ~Better(items[m], r[i])

\* The grid, where it is used, compares all that are too close.
Exact(T, meters, grid) == grid => \A a, b \in T : Within(a, b, meters) => Neighbours(a, b, meters)

\* One more item of the list: what is taken stays apart, and what is not taken
\* crowds a better one or comes too late.
LEMMA TakeIs ==
    ASSUME NEW T, Comparable(T), Placed(T), NEW items \in Seq(T), NEW meters, NEW grid, Exact(T, meters, grid),
           \A i, j \in DOMAIN items : i < j => ~Better(items[j], items[i]),
           NEW max \in Nat \ {0}, NEW n \in 1 .. Len(items), NEW r \in Seq(T), Spaced(items, max, meters, n - 1, r)
    PROVE  /\ Take(r, items[n], max, meters, grid) \in Seq(T)
           /\ Spaced(items, max, meters, n, Take(r, items[n], max, meters, grid))
<1> DEFINE p == items[n]  L == Len(r)  D == DOMAIN r
<1>0. /\ L \in Nat /\ D = 1 .. L /\ n \in Nat /\ n \in DOMAIN items /\ p \in T /\ \A i \in D : r[i] \in T
      /\ \A m \in 1 .. n - 1 : m < n /\ m \in DOMAIN items
      /\ \A m \in 1 .. n : m \in 1 .. n - 1 \/ m = n
      /\ 1 .. n - 1 \subseteq 1 .. n /\ n \in 1 .. n /\ n > 0
  OBVIOUS
<1>1. /\ L <= max /\ (n - 1 > 0 => r # <<>>)
      /\ \A i \in D : \E m \in 1 .. n - 1 : r[i] = items[m]
      /\ \A i, j \in D : i < j => ~Within(r[i], r[j], meters) /\ ~Better(r[j], r[i])
      /\ \A m \in 1 .. n - 1 : \/ \E i \in D : r[i] = items[m]
                               \/ \E i \in D : Within(items[m], r[i], meters) /\ ~Better(items[m], r[i])
                               \/ L = max /\ \A i \in D : ~Better(items[m], r[i])
  BY DEF Spaced
<1>b. \A i \in D : ~Better(p, r[i])
  <2> SUFFICES ASSUME NEW i \in D PROVE ~Better(p, r[i])
    OBVIOUS
  <2>1. PICK m \in 1 .. n - 1 : r[i] = items[m]
    BY <1>1
  <2> QED  BY <1>0, <2>1
<1>c. TooClose(p, r, meters, grid) <=> \E i \in D : Within(p, r[i], meters)
  BY <1>0 DEF TooClose, Exact
<1> HIDE DEF p, L, D
<1>2. CASE L >= max \/ TooClose(p, r, meters, grid)
  <2>1. Take(r, p, max, meters, grid) = r
    BY <1>2 DEF Take, L
  <2>2. r # <<>>
    <3>2. L # 0
      <4>1. ASSUME L = 0 PROVE FALSE
        <5>1. D = {} /\ ~(L >= max)
          BY <1>0, <4>1
        <5> QED  BY <1>2, <1>c, <5>1
      <4> QED  BY <4>1
    <3> QED  BY <3>2 DEF L
  <2>3. \A m \in 1 .. n : \/ \E i \in D : r[i] = items[m]
                          \/ \E i \in D : Within(items[m], r[i], meters) /\ ~Better(items[m], r[i])
                          \/ L = max /\ \A i \in D : ~Better(items[m], r[i])
    <3>1. \/ \E i \in D : Within(p, r[i], meters) /\ ~Better(p, r[i])
          \/ L = max /\ \A i \in D : ~Better(p, r[i])
      <4>1. CASE L >= max
        BY <1>0, <1>1, <1>b, <4>1
      <4>2. CASE TooClose(p, r, meters, grid)
        BY <1>b, <1>c, <4>2
      <4> QED  BY <1>2, <4>1, <4>2
    <3> QED  BY <1>0, <1>1, <3>1 DEF p
  <2>4. \A i \in D : \E m \in 1 .. n : r[i] = items[m]
    BY <1>0, <1>1
  <2>5. Spaced(items, max, meters, n, r)
    BY <1>1, <2>2, <2>3, <2>4 DEF Spaced, L, D
  <2> QED  BY <2>1, <2>5 DEF p
<1>3. CASE L < max /\ ~TooClose(p, r, meters, grid)
  <2> DEFINE g == Append(r, p)  E == 1 .. L + 1
  <2>1. Take(r, p, max, meters, grid) = g
    BY <1>0, <1>3 DEF Take, L
  <2>2. /\ g \in Seq(T) /\ Len(g) = L + 1 /\ g[L + 1] = p /\ (\A i \in D : g[i] = r[i]) /\ DOMAIN g = E
    <3>1. /\ g \in Seq(T) /\ Len(g) = L + 1 /\ g[L + 1] = p /\ \A i \in 1 .. L : g[i] = r[i]
      BY <1>0, AppendsTo DEF L
    <3> HIDE DEF g
    <3> QED  BY <1>0, <3>1
  <2> HIDE DEF g
  <2>3. D \subseteq E /\ L + 1 \in E /\ (\A i \in E : i \in D \/ i = L + 1) /\ \A i \in D : i < L + 1 /\ i \in Int
    BY <1>0
  <2>w. \A i \in D : ~Within(r[i], p, meters)
    <3>1. \A i \in D : ~Within(p, r[i], meters)
      BY <1>3, <1>c
    <3> QED  BY <1>0, <3>1, WithinIsSymmetric
  <2> HIDE DEF E
  <2>4. Len(g) <= max /\ g # <<>>
    <3>1. Len(g) # 0
      BY <1>0, <2>2
    <3> QED  BY <1>0, <1>3, <2>2, <3>1
  <2>5. \A i \in E : \E m \in 1 .. n : g[i] = items[m]
    BY <1>0, <1>1, <2>2, <2>3 DEF p
  <2>6. \A i, j \in E : i < j => ~Within(g[i], g[j], meters) /\ ~Better(g[j], g[i])
    <3> SUFFICES ASSUME NEW i \in E, NEW j \in E, i < j PROVE ~Within(g[i], g[j], meters) /\ ~Better(g[j], g[i])
      OBVIOUS
    <3>1. i \in D
      BY <1>0, <2>3
    <3>2. CASE j \in D
      BY <1>1, <2>2, <3>1, <3>2
    <3>3. CASE j = L + 1
      BY <1>b, <2>2, <2>w, <3>1, <3>3
    <3> QED  BY <2>3, <3>2, <3>3
  <2>7. \A m \in 1 .. n : \/ \E i \in E : g[i] = items[m]
                          \/ \E i \in E : Within(items[m], g[i], meters) /\ ~Better(items[m], g[i])
                          \/ Len(g) = max /\ \A i \in E : ~Better(items[m], g[i])
    <3> SUFFICES ASSUME NEW m \in 1 .. n
                 PROVE  \/ \E i \in E : g[i] = items[m]
                        \/ \E i \in E : Within(items[m], g[i], meters) /\ ~Better(items[m], g[i])
      OBVIOUS
    <3>1. CASE m = n
      BY <2>2, <2>3, <3>1 DEF p
    <3>2. CASE m \in 1 .. n - 1
      <4>1. \/ \E i \in D : r[i] = items[m]
            \/ \E i \in D : Within(items[m], r[i], meters) /\ ~Better(items[m], r[i])
        <5>1. L # max
          BY <1>0, <1>3
        <5> QED  BY <1>1, <3>2, <5>1
      <4> QED  BY <2>2, <2>3, <4>1
    <3> QED  BY <1>0, <3>1, <3>2
  <2>8. Spaced(items, max, meters, n, g)
    BY <2>2, <2>4, <2>5, <2>6, <2>7 DEF Spaced
  <2> QED  BY <2>1, <2>2, <2>8 DEF p
<1> QED  BY <1>0, <1>2, <1>3

\* So it is for what selectSpacedPoints takes of the whole list.
LEMMA SpacedIs ==
    ASSUME NEW T, Comparable(T), Placed(T), NEW items \in Seq(T), NEW meters,
           Exact(T, meters, Len(items) > GeohashThreshold),
           \A i, j \in DOMAIN items : i < j => ~Better(items[j], items[i]), NEW max \in Nat \ {0}
    PROVE  /\ SelectSpacedPoints(items, max, meters) \in Seq(T)
           /\ Spaced(items, max, meters, Len(items), SelectSpacedPoints(items, max, meters))
<1> DEFINE N == Len(items)
           b == <<>>
           grid == N > GeohashThreshold
           next(v, n) == Take(v, items[n], max, meters, grid)
           W == [n \in 0 .. N |-> {v \in Seq(T) : Spaced(items, max, meters, n, v)}]
           G == [n \in 1 .. N |-> [v \in W[n - 1] |-> next(v, n)]]
           step(f) == [n \in 0 .. N |-> IF n = 0 THEN <<>> ELSE next(f[n - 1], n)]
           s == CHOOSE f : f = step(f)
<1>0. N \in Nat /\ \A n \in 1 .. N : n - 1 \in 0 .. N /\ n \in 0 .. N
  OBVIOUS
<1>1. SelectSpacedPoints(items, max, meters) = s[N]
  BY DEF SelectSpacedPoints
<1>2. b \in W[0]
  <2>1. DOMAIN <<>> = {} /\ 1 .. 0 = {} /\ Len(<<>>) = 0 /\ <<>> \in Seq(T)
    OBVIOUS
  <2>2. Spaced(items, max, meters, 0, <<>>)
    BY <2>1, SMTT(30) DEF Spaced
  <2> QED  BY <1>0, <2>1, <2>2
<1>4. \A n \in 1 .. N : \A v \in W[n - 1] : next(v, n) \in W[n]
  <2> SUFFICES ASSUME NEW n \in 1 .. N, NEW v \in W[n - 1] PROVE next(v, n) \in W[n]
    OBVIOUS
  <2>1. v \in Seq(T) /\ Spaced(items, max, meters, n - 1, v)
    BY <1>0
  <2>2. next(v, n) \in Seq(T) /\ Spaced(items, max, meters, n, next(v, n))
    BY <2>1, TakeIs
  <2> HIDE DEF next
  <2> QED  BY <1>0, <2>2
<1>5. \A n \in 1 .. N : \A v \in W[n - 1] : G[n][v] = next(v, n)
  OBVIOUS
<1> HIDE DEF b, W, G, s, N, next
<1>6. PICK f : Turns(f, N, W, b, G)
  <2>1. \A n \in 1 .. N : \A v \in W[n - 1] : G[n][v] \in W[n]
    BY <1>4, <1>5
  <2> QED  BY <1>0, <1>2, <2>1, LoopHas
<1>7. f = step(f)
  <2>1. IsTable(f, N) /\ f[0] = b /\ \A n \in 1 .. N : f[n] = next(f[n - 1], n)
    BY <1>5, <1>6 DEF Turns
  <2>2. \A n \in 0 .. N : f[n] = step(f)[n]
    BY <1>0, <2>1 DEF b
  <2> QED  BY <2>1, <2>2, Zenon DEF IsTable
<1>8. s = step(s)
  BY <1>7, Zenon DEF s
<1>9. s[0] = b /\ \A n \in 1 .. N : s[n] = next(s[n - 1], n)
  <2>1. \A n \in 0 .. N : s[n] = IF n = 0 THEN <<>> ELSE next(s[n - 1], n)
    BY <1>8, Zenon
  <2>2. 0 \in 0 .. N /\ \A n \in 1 .. N : n \in 0 .. N /\ n # 0
    BY <1>0
  <2> QED  BY <2>1, <2>2, Zenon DEF b
<1> DEFINE S == {n \in 0 .. N : s[n] \in W[n]}
<1>10. N \in S
  <2>1. 0 \in S /\ \A n \in 1 .. N : n - 1 \in S => n \in S
    BY <1>0, <1>2, <1>4, <1>9
  <2> HIDE DEF S
  <2>2. \A n \in 0 .. N : n \in S
    BY <1>0, <2>1, StepByStep
  <2> QED  BY <1>0, <2>2
<1>11. N \in 0 .. N /\ s[N] \in W[N]
  BY <1>10
<1>12. s[N] \in Seq(T) /\ Spaced(items, max, meters, N, s[N])
  BY <1>11 DEF W
<1> QED  BY <1>1, <1>12 DEF N

\* The sorted list has the items of the list, none after a worse one.
LEMMA BestIs ==
    ASSUME NEW T, Comparable(T), NEW items \in Seq(T)
    PROVE  /\ BestFirst(items) \in Seq(T) /\ Len(BestFirst(items)) = Len(items)
           /\ ToSet(BestFirst(items)) = ToSet(items)
           /\ \A i, j \in DOMAIN BestFirst(items) : i < j => ~Better(BestFirst(items)[j], BestFirst(items)[i])
<1> DEFINE N == Len(items)  D == 1 .. N  best == BestFirst(items)
<1>1. N \in Nat /\ DOMAIN items = D /\ \A i \in D : items[i] \in T
  OBVIOUS
<1>2. PICK w \in Sortings(items) : best = [n \in DOMAIN items |-> items[w[n]]]
  BY SortIs
<1>3. /\ w \in [D -> D] /\ (\A i, j \in D : i < j => ~Better(items[w[j]], items[w[i]]))
      /\ \A i \in D : \E j \in D : w[j] = i
  BY <1>1 DEF Sortings
<1> HIDE DEF best, D
<1>4. best \in [D -> T] /\ \A n \in D : best[n] = items[w[n]] /\ w[n] \in D
  BY <1>1, <1>2, <1>3
<1>5. best \in Seq(T) /\ Len(best) = N /\ DOMAIN best = D
  BY <1>1, <1>4 DEF D
<1>6. ToSet(best) = ToSet(items)
  <2>1. ToSet(best) = {best[n] : n \in D} /\ ToSet(items) = {items[n] : n \in D}
    BY <1>1, <1>5 DEF ToSet
  <2> QED  BY <1>3, <1>4, <2>1
<1>7. \A i, j \in D : i < j => ~Better(best[j], best[i])
  BY <1>3, <1>4
<1> QED  BY <1>5, <1>6, <1>7 DEF best

\* The numbers of the configuration.
LEMMA SearchNumbers ==
    /\ MaxPoints \in Nat \ {0} /\ MinScore \in Int /\ TopKHeapThreshold \in Nat /\ GeohashThreshold \in Nat
    /\ PoolSize \in Nat \ {0} /\ PoolSize >= MaxPoints
<1>1. /\ MaxPoints \in Nat \ {0} /\ MinScore \in Int /\ TopKHeapThreshold \in Nat /\ GeohashThreshold \in Nat
      /\ TopKPoolMultiplier \in Nat
  BY SearchAssumption
<1> DEFINE q == MaxPoints * TopKPoolMultiplier
<1>2. q \in Nat
  BY <1>1
<1>3. PoolSize = IF MaxPoints > q THEN MaxPoints ELSE q
  BY DEF PoolSize, Most
<1> HIDE DEF q
<1> QED  BY <1>1, <1>2, <1>3

\* Some points are eligible if there are any.
LEMMA EligibleIs ==
    ASSUME NEW T, Comparable(T), NEW points \in Seq(T)
    PROVE  /\ Eligible(points) \in Seq(T) /\ ToSet(Eligible(points)) \subseteq ToSet(points)
           /\ points # <<>> => Eligible(points) # <<>>
<1> DEFINE passing == Only(points, {p \in ToSet(points) : p.score >= MinScore})
           best == BestFirst(points)
           few == Most(1, Least(MaxPoints, 3))
           m == Least(Len(best), few)
<1>1. passing \in Seq(T) /\ ToSet(passing) \subseteq ToSet(points)
  BY OnlyIs
<1>2. best \in Seq(T) /\ Len(best) = Len(points) /\ ToSet(best) = ToSet(points)
  BY BestIs
<1>3. Eligible(points) = IF passing # <<>> THEN passing ELSE SubSeq(best, 1, m)
  BY DEF Eligible
<1> HIDE DEF passing, best
<1>4. few \in Nat /\ few >= 1
  BY SearchNumbers DEF Most, Least
<1> HIDE DEF few
<1>5. m \in Nat /\ m <= Len(best) /\ (points # <<>> => m >= 1)
  <2>1. Len(best) \in Nat /\ (points # <<>> => Len(best) >= 1)
    BY <1>2
  <2> QED  BY <1>4, <2>1 DEF Least
<1> HIDE DEF m
<1> DEFINE cut == SubSeq(best, 1, m)
<1>6. cut \in Seq(T) /\ Len(cut) = m /\ DOMAIN cut = 1 .. m /\ \A i \in 1 .. m : cut[i] = best[i] /\ i \in DOMAIN best
  BY <1>2, <1>5
<1> HIDE DEF cut
<1>7. ToSet(cut) \subseteq ToSet(best) /\ (points # <<>> => cut # <<>>)
  BY <1>5, <1>6 DEF ToSet
<1> QED  BY <1>1, <1>2, <1>3, <1>6, <1>7 DEF cut

\* Of a list: its best in order, and how many the rest have before them.
Ranking(items, r) ==
    /\ ToSet(r) \subseteq ToSet(items) /\ (items # <<>> => r # <<>>)
    /\ \A i, j \in DOMAIN r : i < j => ~Better(r[j], r[i])
    /\ \A p \in ToSet(items) \ ToSet(r) : Cardinality({i \in DOMAIN items : ~Better(p, items[i])}) > PoolSize
    /\ Len(r) <= Most(TopKHeapThreshold, PoolSize)

\* The pool that the heap selects is a ranking of its list.
LEMMA SelectIs ==
    ASSUME NEW T, Comparable(T), NEW items \in Seq(T), Len(items) > PoolSize
    PROVE  SelectTopK(items, PoolSize) \in Seq(T) /\ Ranking(items, SelectTopK(items, PoolSize))
<1> DEFINE k == PoolSize  r == SelectTopK(items, k)  N == Len(items)
<1>0. k \in Nat \ {0} /\ N \in Nat /\ DOMAIN items = 1 .. N /\ N > k /\ \A x \in 1 .. N : items[x] \in T
  BY SearchNumbers
<1> HIDE DEF k
<1>1. PICK g \in Bests(items, k) : r = [n \in 1 .. k |-> items[g[n]]]
  <2>1. Len(items) > k
    BY DEF k
  <2> QED  BY <1>0, <2>1, TopKIs
<1>2. /\ g \in [1 .. k -> 1 .. N]
      /\ \A i, j \in 1 .. k : i < j => g[i] # g[j] /\ ~Better(items[g[j]], items[g[i]])
      /\ \A x \in 1 .. N : \/ \E q \in 1 .. k : g[q] = x
                           \/ \A q \in 1 .. k : ~Better(items[x], items[g[q]])
  BY <1>0 DEF Bests
<1> HIDE DEF r, N
<1>3. r \in [1 .. k -> T] /\ \A n \in 1 .. k : r[n] = items[g[n]] /\ g[n] \in 1 .. N
  BY <1>0, <1>1, <1>2
<1>4. r \in Seq(T) /\ Len(r) = k /\ DOMAIN r = 1 .. k /\ r # <<>>
  BY <1>0, <1>3
<1>5. ToSet(r) \subseteq ToSet(items)
  BY <1>0, <1>3, <1>4 DEF ToSet
<1>6. \A i, j \in DOMAIN r : i < j => ~Better(r[j], r[i])
  BY <1>2, <1>3, <1>4
<1>7. ASSUME NEW p \in ToSet(items) \ ToSet(r)
      PROVE  Cardinality({i \in DOMAIN items : ~Better(p, items[i])}) > k
  <2> DEFINE C == {i \in DOMAIN items : ~Better(p, items[i])}
             D == 1 .. k + 1
  <2>1. PICK x \in 1 .. N : items[x] = p
    BY <1>0 DEF ToSet
  <2>2. \A q \in 1 .. k : g[q] # x
    <3>1. \A q \in 1 .. k : r[q] \in ToSet(r)
      BY <1>4 DEF ToSet
    <3> QED  BY <1>3, <2>1, <3>1
  <2>3. \A q \in 1 .. k : ~Better(p, items[g[q]])
    BY <1>2, <2>1, <2>2
  <2>4. ~Better(p, p)
    <3>1. p \in T
      BY <1>0, <2>1
    <3> QED  BY <3>1, BetterIs
  <2> DEFINE f == [q \in D |-> IF q = k + 1 THEN x ELSE g[q]]
  <2>5. f \in [D -> C]
    <3> SUFFICES ASSUME NEW q \in D PROVE (IF q = k + 1 THEN x ELSE g[q]) \in C
      OBVIOUS
    <3>1. q = k + 1 \/ q \in 1 .. k
      BY <1>0
    <3> QED  BY <1>0, <1>3, <2>1, <2>3, <2>4, <3>1
  <2>6. \A i, j \in D : f[i] = f[j] => i = j
    <3> SUFFICES ASSUME NEW i \in D, NEW j \in D, i < j PROVE f[i] # f[j]
      BY <1>0
    <3>1. i \in 1 .. k /\ (j = k + 1 \/ j \in 1 .. k) /\ i # k + 1
      BY <1>0
    <3> QED  BY <1>0, <1>2, <2>2, <3>1
  <2>7. IsFiniteSet(C)
    <3>1. IsFiniteSet(1 .. N) /\ C \subseteq 1 .. N
      BY <1>0, CountUp
    <3> QED  BY <3>1, FS_Subset
  <2>8. IsFiniteSet(D) /\ Cardinality(D) = k + 1
    BY <1>0, CountUp
  <2> HIDE DEF C, D, f
  <2>9. f \in Injection(D, C)
    BY <2>5, <2>6 DEF Injection, IsInjective
  <2>10. Cardinality(D) <= Cardinality(C) /\ Cardinality(C) \in Nat
    BY <2>7, <2>9, FS_Injection, FS_CardinalityType
  <2>11. Cardinality(C) > k
    BY <1>0, <2>8, <2>10
  <2> QED  BY <2>11 DEF C
<1>8. Len(r) <= Most(TopKHeapThreshold, PoolSize)
  BY <1>0, <1>4, SearchNumbers DEF Most, k
<1> QED  BY <1>4, <1>5, <1>6, <1>7, <1>8 DEF Ranking, r, k

\* So is the ranked list, sorted or selected.
LEMMA RankedIs ==
    ASSUME NEW T, Comparable(T), NEW items \in Seq(T), NEW r,
           r = IF Len(items) > TopKHeapThreshold THEN SelectTopK(items, PoolSize) ELSE BestFirst(items)
    PROVE  r \in Seq(T) /\ Ranking(items, r)
<1>0. Len(items) \in Nat /\ PoolSize \in Nat \ {0} /\ TopKHeapThreshold \in Nat
  BY SearchNumbers
<1>1. CASE Len(items) > TopKHeapThreshold /\ Len(items) > PoolSize
  BY <1>1, SelectIs
<1>2. CASE ~(Len(items) > TopKHeapThreshold /\ Len(items) > PoolSize)
  <2>1. r = BestFirst(items)
    BY <1>0, <1>2 DEF SelectTopK
  <2>2. /\ r \in Seq(T) /\ Len(r) = Len(items) /\ ToSet(r) = ToSet(items)
        /\ \A i, j \in DOMAIN r : i < j => ~Better(r[j], r[i])
    BY <2>1, BestIs
  <2>3. Len(r) <= Most(TopKHeapThreshold, PoolSize)
    BY <1>0, <1>2, <2>2 DEF Most
  <2>4. items # <<>> => r # <<>>
    BY <1>0, <2>2
  <2> QED  BY <2>2, <2>3, <2>4 DEF Ranking
<1> QED  BY <1>1, <1>2

\* The grid is not used, or compares all that are too close.
GridFits(meters) == Most(TopKHeapThreshold, PoolSize) <= GeohashThreshold \/ meters <= 8

\* Few points, apart from each other and in order, and none left out that is better
\* than one chosen, unless it crowds a better one or was cut from the pool
\* (filterAndRankPoints).
THEOREM ChoiceIs ==
    ASSUME NEW T, Comparable(T), Placed(T), NEW points \in Seq(T), NEW meters \in Nat, GridFits(meters)
    PROVE  /\ FilterAndRankPoints(points, meters) \in Seq(T)
           /\ ToSet(FilterAndRankPoints(points, meters)) \subseteq ToSet(points)
           /\ ChoiceIsOf(points, meters, FilterAndRankPoints(points, meters))
<1> DEFINE eligible == Eligible(points)
           ranked == IF Len(eligible) > TopKHeapThreshold THEN SelectTopK(eligible, PoolSize) ELSE BestFirst(eligible)
           choice == SelectSpacedPoints(ranked, MaxPoints, meters)
<1>1. eligible \in Seq(T) /\ ToSet(eligible) \subseteq ToSet(points) /\ (points # <<>> => eligible # <<>>)
  BY EligibleIs
<1>2. FilterAndRankPoints(points, meters) = choice
  BY DEF FilterAndRankPoints
<1> HIDE DEF eligible
<1>3. ranked \in Seq(T) /\ Ranking(eligible, ranked)
  BY <1>1, RankedIs
<1> HIDE DEF ranked
<1>4. /\ ToSet(ranked) \subseteq ToSet(eligible) /\ (eligible # <<>> => ranked # <<>>)
      /\ \A i, j \in DOMAIN ranked : i < j => ~Better(ranked[j], ranked[i])
      /\ \A p \in ToSet(eligible) \ ToSet(ranked) :
            Cardinality({i \in DOMAIN eligible : ~Better(p, eligible[i])}) > PoolSize
      /\ Len(ranked) <= Most(TopKHeapThreshold, PoolSize)
  BY <1>3 DEF Ranking
<1>5. Exact(T, meters, Len(ranked) > GeohashThreshold)
  <2> SUFFICES ASSUME Len(ranked) > GeohashThreshold, NEW a \in T, NEW b \in T, Within(a, b, meters)
               PROVE  Neighbours(a, b, meters)
    BY DEF Exact
  <2>1. Len(ranked) \in Nat /\ Most(TopKHeapThreshold, PoolSize) \in Nat /\ GeohashThreshold \in Nat
    BY <1>3, SearchNumbers DEF Most
  <2>2. meters \in 0 .. 8
    BY <1>4, <2>1 DEF GridFits
  <2>3. a.lat \in Int /\ a.lng \in Int /\ b.lat \in Int /\ b.lng \in Int
    BY DEF Placed
  <2> QED  BY <2>2, <2>3, GridIsExact
<1>6. choice \in Seq(T) /\ Spaced(ranked, MaxPoints, meters, Len(ranked), choice)
  BY <1>3, <1>4, <1>5, SearchNumbers, SpacedIs
<1> HIDE DEF choice
<1>7. /\ Len(choice) <= MaxPoints
      /\ Len(ranked) > 0 => choice # <<>>
      /\ \A i \in DOMAIN choice : \E m \in 1 .. Len(ranked) : choice[i] = ranked[m]
      /\ \A i, j \in DOMAIN choice : i < j => ~Within(choice[i], choice[j], meters) /\ ~Better(choice[j], choice[i])
      /\ \A m \in 1 .. Len(ranked) :
            \/ \E i \in DOMAIN choice : choice[i] = ranked[m]
            \/ \E i \in DOMAIN choice : Within(ranked[m], choice[i], meters) /\ ~Better(ranked[m], choice[i])
            \/ Len(choice) = MaxPoints /\ \A i \in DOMAIN choice : ~Better(ranked[m], choice[i])
  BY <1>6 DEF Spaced
<1>8. Len(ranked) \in Nat /\ DOMAIN ranked = 1 .. Len(ranked) /\ (ranked # <<>> => Len(ranked) > 0)
  BY <1>3
<1>9. ToSet(choice) \subseteq ToSet(ranked)
  BY <1>7, <1>8 DEF ToSet
<1>10. \A i \in DOMAIN choice : choice[i] \in ToSet(choice)
  BY DEF ToSet
<1>11. \A q \in ToSet(choice) : \E i \in DOMAIN choice : q = choice[i]
  BY DEF ToSet
<1>12. ASSUME NEW p \in ToSet(eligible) \ ToSet(choice)
       PROVE  \/ \E q \in ToSet(choice) : Within(p, q, meters) /\ ~Better(p, q)
              \/ Len(choice) = MaxPoints /\ \A q \in ToSet(choice) : ~Better(p, q)
              \/ Cardinality({i \in DOMAIN eligible : ~Better(p, eligible[i])}) > PoolSize
  <2>1. CASE p \in ToSet(ranked)
    <3>1. PICK m \in 1 .. Len(ranked) : p = ranked[m]
      BY <1>8, <2>1 DEF ToSet
    <3>2. ~\E i \in DOMAIN choice : choice[i] = p
      BY <1>10
    <3>3. \/ \E i \in DOMAIN choice : Within(p, choice[i], meters) /\ ~Better(p, choice[i])
          \/ Len(choice) = MaxPoints /\ \A i \in DOMAIN choice : ~Better(p, choice[i])
      BY <1>7, <3>1, <3>2
    <3> QED  BY <1>10, <1>11, <3>3
  <2>2. CASE p \notin ToSet(ranked)
    BY <1>4, <2>2
  <2> QED  BY <2>1, <2>2
<1>13. points # <<>> => choice # <<>>
  BY <1>1, <1>4, <1>7, <1>8
<1>14. ToSet(choice) \subseteq ToSet(eligible) /\ ToSet(choice) \subseteq ToSet(points)
  BY <1>1, <1>4, <1>9
<1>15. ChoiceIsOf(points, meters, choice)
  BY <1>7, <1>12, <1>13, <1>14, Zenon DEF ChoiceIsOf, eligible
<1> QED  BY <1>2, <1>6, <1>14, <1>15

\* Division, rounded as Math.round does.
LEMMA DivIs ==
    ASSUME NEW x \in Nat, NEW y \in Nat \ {0}
    PROVE  x \div y \in Nat /\ y * (x \div y) <= x /\ x < y * (x \div y + 1)
OBVIOUS

\* Division does not lose the order.
LEMMA DivGrows ==
    ASSUME NEW x \in Nat, NEW z \in Nat, x <= z, NEW y \in Nat \ {0}
    PROVE  x \div y <= z \div y
<1> DEFINE p == x \div y  q == z \div y
<1>1. p \in Nat /\ y * p <= x
  BY DivIs
<1>2. q \in Nat /\ z < y * (q + 1)
  BY DivIs
<1> HIDE DEF p, q
<1>3. y * p \in Nat /\ y * (q + 1) \in Nat
  BY <1>1, <1>2, TimesMonotone
<1>4. p < q + 1
  BY <1>1, <1>2, <1>3, TimesReflects
<1>5. p <= q
  BY <1>1, <1>2, <1>4
<1> QED  BY <1>5 DEF p, q

\* Neither does the rounded one.
LEMMA RoundGrows ==
    ASSUME NEW n \in Nat, NEW m \in Nat, n <= m, NEW d \in Nat \ {0}
    PROVE  RoundDiv(n, d) \in Nat /\ RoundDiv(n, d) <= RoundDiv(m, d)
<1> DEFINE x == 2 * n + d  z == 2 * m + d  y == 2 * d
<1>1. x \in Nat /\ z \in Nat /\ x <= z /\ y \in Nat \ {0}
  OBVIOUS
<1>2. RoundDiv(n, d) = x \div y /\ RoundDiv(m, d) = z \div y
  BY DEF RoundDiv
<1> HIDE DEF x, y, z
<1> QED  BY <1>1, <1>2, DivIs, DivGrows

\* A share of at most 100 parts is at most 100.
LEMMA ShareIs ==
    ASSUME NEW d \in Nat \ {0}, NEW n \in Nat, n <= d * 100
    PROVE  RoundDiv(n, d) \in 0 .. 100
<1> DEFINE x == 2 * n + d  y == 2 * d  q == x \div y
<1>1. x \in Nat /\ y \in Nat \ {0} /\ x < y * 101
  OBVIOUS
<1>2. RoundDiv(n, d) = q
  BY DEF RoundDiv
<1> HIDE DEF x, y
<1>3. q \in Nat /\ y * q <= x
  BY <1>1, DivIs
<1> HIDE DEF q
<1>4. y * q \in Nat /\ y * 101 \in Nat
  BY <1>1, <1>3, TimesMonotone
<1>5. q < 101
  BY <1>1, <1>3, <1>4, TimesReflects
<1> QED  BY <1>2, <1>3, <1>5

----------------------------------------------------------------------------
\* What is known of a place that may be chosen.
Cands == [lat : Int, lng : Int, type : DOMAIN TypeBonus, dwell : Nat, along : Int, safety : 0 .. 100,
          count : Nat, risk : BOOLEAN, reach : OrUnknown(Nat), ok : BOOLEAN, score : Int, eta : Int,
          station : OrUnknown(Nat)]

\* The shares of a score.
Known(c) == c.reach # Unknown /\ c.ok
Base(c)  == Most(c.count, 1)
Dense(c)  == Least(IF Known(c) THEN c.reach ELSE c.count, 10)
Shared(c) ==
    IF ~Known(c) THEN 300 * Least(c.count, 12) * Base(c)
    ELSE IF c.count > 0 THEN 9000 * Least(c.reach, Base(c)) ELSE 1125 * Least(c.reach, 8)
Shares(c) ==
    50 * Least(c.dwell, 180) * Base(c) + 540 * Dense(c) * Base(c) + Shared(c)
    + 72 * c.safety * Base(c) + 360 * TypeBonus[c.type] * Base(c)

\* A score is the rounded sum of its shares.
LEMMA ScoreIs == \A c : Score(c) = RoundDiv(Shares(c), 360 * Base(c))
BY Zenon DEF Score, Shares, Base, Dense, Known, Shared

\* The lesser of two.
LEMMA LeastIs == \A a, b \in Nat : Least(a, b) \in Nat /\ Least(a, b) <= a /\ Least(a, b) <= b /\ Least(0, b) = 0
BY DEF Least

\* Each share of a score has its bound.
LEMMA PartsAre ==
    ASSUME NEW c \in Cands
    PROVE  /\ Base(c) \in Nat \ {0} /\ Dense(c) \in 0 .. 10 /\ Shared(c) \in Nat /\ Shared(c) <= 9000 * Base(c)
           /\ Least(c.dwell, 180) \in 0 .. 180 /\ c.safety \in 0 .. 100 /\ TypeBonus[c.type] \in 0 .. 15
<1>1. c.count \in Nat /\ c.dwell \in Nat /\ c.reach \in OrUnknown(Nat) /\ c.safety \in 0 .. 100 /\ c.type \in DOMAIN TypeBonus
  BY DEF Cands
<1> DEFINE b == Base(c)  k == Least(c.count, 12)
<1>2. b \in Nat \ {0} /\ (c.count > 0 => b = c.count)
  BY <1>1 DEF Base, Most
<1>3. Known(c) => c.reach \in Nat
  BY <1>1 DEF Known, OrUnknown
<1>4. Dense(c) \in 0 .. 10
  BY <1>1, <1>3 DEF Dense, Least
<1>5. k \in 0 .. 12 /\ Least(c.dwell, 180) \in 0 .. 180
  BY <1>1 DEF Least
<1>6. Shared(c) = IF ~Known(c) THEN 300 * k * b ELSE IF c.count > 0 THEN 9000 * Least(c.reach, b) ELSE 1125 * Least(c.reach, 8)
  BY DEF Shared
<1>7. TypeBonus[c.type] \in 0 .. 15
  BY <1>1 DEF TypeBonus
<1> HIDE DEF b, k
<1>8. Shared(c) \in Nat /\ Shared(c) <= 9000 * b
  <2>1. CASE ~Known(c)
    <3>1. k * b \in Nat /\ k * b <= 12 * b
      BY <1>2, <1>5
    <3>2. 300 * k * b = 300 * (k * b)
      BY <1>2, <1>5
    <3> QED  BY <1>2, <1>6, <2>1, <3>1, <3>2
  <2>2. CASE Known(c) /\ c.count > 0
    <3>1. Least(c.reach, b) \in Nat /\ Least(c.reach, b) <= b
      BY <1>2, <1>3, <2>2, LeastIs
    <3> QED  BY <1>2, <1>6, <2>2, <3>1
  <2>3. CASE Known(c) /\ ~(c.count > 0)
    <3>1. Least(c.reach, 8) \in Nat /\ Least(c.reach, 8) <= 8
      BY <1>3, <2>3, LeastIs
    <3> QED  BY <1>2, <1>6, <2>3, <3>1
  <2> QED  BY <2>1, <2>2, <2>3
<1> QED  BY <1>1, <1>2, <1>4, <1>5, <1>7, <1>8 DEF b

\* A weighted share stays below its weighted bound.
LEMMA PartOf ==
    ASSUME NEW k \in Nat, NEW x \in Nat, NEW top \in Nat, x <= top, NEW b \in Nat
    PROVE  k * x * b \in Nat /\ k * x * b <= (k * top) * b
<1>1. k * x \in Nat /\ k * top \in Nat /\ k * x <= k * top
  BY TimesMonotone
<1> DEFINE p == k * x  q == k * top
<1> HIDE DEF p, q
<1>2. b * p \in Nat /\ b * p <= b * q
  BY <1>1, TimesMonotone DEF p, q
<1>3. p * b = b * p /\ q * b = b * q
  BY <1>1 DEF p, q
<1> QED  BY <1>2, <1>3 DEF p, q

\* A score is between 0 and 100.
LEMMA ScoresAre == ASSUME NEW c \in Cands PROVE Score(c) \in 0 .. 100
<1> DEFINE b == Base(c)  s == Shared(c)  d == Least(c.dwell, 180)  n == Dense(c)  bonus == TypeBonus[c.type]
           p1 == 50 * d * b  p2 == 540 * n * b  p4 == 72 * c.safety * b  p5 == 360 * bonus * b
<1>1. /\ b \in Nat \ {0} /\ n \in 0 .. 10 /\ s \in Nat /\ s <= 9000 * b
      /\ d \in 0 .. 180 /\ c.safety \in 0 .. 100 /\ bonus \in 0 .. 15
  BY PartsAre
<1>2. Score(c) = RoundDiv(p1 + p2 + s + p4 + p5, 360 * b)
  BY ScoreIs DEF Shares
<1> HIDE DEF b, s, d, n, bonus
<1>3. p1 \in Nat /\ p1 <= 9000 * b
  <2>1. 50 * d * b \in Nat /\ 50 * d * b <= (50 * 180) * b
    BY <1>1, PartOf
  <2> QED  BY <2>1
<1>4. p2 \in Nat /\ p2 <= 5400 * b
  <2>1. 540 * n * b \in Nat /\ 540 * n * b <= (540 * 10) * b
    BY <1>1, PartOf
  <2> QED  BY <2>1
<1>5. p4 \in Nat /\ p4 <= 7200 * b
  <2>1. 72 * c.safety * b \in Nat /\ 72 * c.safety * b <= (72 * 100) * b
    BY <1>1, PartOf
  <2> QED  BY <2>1
<1>6. p5 \in Nat /\ p5 <= 5400 * b
  <2>1. 360 * bonus * b \in Nat /\ 360 * bonus * b <= (360 * 15) * b
    BY <1>1, PartOf
  <2> QED  BY <2>1
<1> HIDE DEF p1, p2, p4, p5
<1> DEFINE x == p1 + p2 + s + p4 + p5  y == 360 * b
<1>7. x \in Nat /\ y \in Nat \ {0} /\ x <= y * 100
  BY <1>1, <1>3, <1>4, <1>5, <1>6
<1>8. Score(c) = RoundDiv(x, y)
  BY <1>2
<1> HIDE DEF x, y
<1> QED  BY <1>7, <1>8, ShareIs

\* An area without a restaurant does not raise a score.
LEMMA EmptyIsWorse ==
    ASSUME NEW c \in Cands, c.ok, c.reach = 0
    PROVE  Score(c) <= Score([c EXCEPT !.ok = FALSE])
<1> DEFINE e == [c EXCEPT !.ok = FALSE]
           b == Base(c)  d == Least(c.dwell, 180)  bonus == TypeBonus[c.type]
           p1 == 50 * d * b  p4 == 72 * c.safety * b  p5 == 360 * bonus * b
<1>1. /\ e \in Cands /\ e.count = c.count /\ e.dwell = c.dwell /\ e.safety = c.safety /\ e.type = c.type
      /\ ~e.ok
  BY DEF Cands
<1>2. Known(c) /\ c.reach \in Nat /\ c.count \in Nat
  BY SearchAssumption DEF Known, Cands
<1>3. b \in Nat \ {0} /\ d \in 0 .. 180 /\ c.safety \in 0 .. 100 /\ bonus \in 0 .. 15
  BY PartsAre
<1>4. Dense(e) \in 0 .. 10 /\ Shared(e) \in Nat
  BY <1>1, PartsAre
<1>5. Base(e) = b /\ Shares(e) = p1 + 540 * Dense(e) * b + Shared(e) + p4 + p5
  BY <1>1 DEF Shares, Base
<1>6. Dense(c) = 0 /\ Shared(c) = 0
  <2>1. Dense(c) = Least(0, 10)
    BY <1>2 DEF Dense
  <2>2. Shared(c) = IF c.count > 0 THEN 9000 * Least(0, b) ELSE 1125 * Least(0, 8)
    BY <1>2 DEF Shared
  <2>3. Least(0, 10) = 0 /\ Least(0, b) = 0 /\ Least(0, 8) = 0
    BY <1>3 DEF Least
  <2> HIDE DEF b
  <2> QED  BY <2>1, <2>2, <2>3
<1>7. Shares(c) = p1 + 540 * Dense(c) * b + Shared(c) + p4 + p5
  BY DEF Shares
<1> HIDE DEF e
<1>8. Score(c) = RoundDiv(Shares(c), 360 * b) /\ Score(e) = RoundDiv(Shares(e), 360 * b)
  BY <1>5, ScoreIs
<1> HIDE DEF b, d, bonus
<1>9. p1 \in Nat /\ p4 \in Nat /\ p5 \in Nat /\ 540 * Dense(e) * b \in Nat
  BY <1>3, <1>4, PartOf
<1> DEFINE p2 == 540 * Dense(e) * b
<1>10. 540 * Dense(c) * b = 0
  BY <1>3, <1>6
<1> HIDE DEF p1, p2, p4, p5
<1>11. Shares(c) \in Nat /\ Shares(e) \in Nat /\ Shares(c) <= Shares(e)
  <2>1. Shares(c) = p1 + p4 + p5
    BY <1>6, <1>7, <1>9, <1>10
  <2>2. Shares(e) = p1 + p2 + Shared(e) + p4 + p5 /\ p2 \in Nat
    BY <1>5, <1>9 DEF p2
  <2> QED  BY <1>4, <1>9, <2>1, <2>2
<1>12. 360 * b \in Nat \ {0}
  BY <1>3
<1>13. RoundDiv(Shares(c), 360 * b) <= RoundDiv(Shares(e), 360 * b)
  BY <1>11, <1>12, RoundGrows
<1> QED  BY <1>8, <1>13 DEF e

\* What a step keeps, the loop keeps.
LEMMA LoopKeeps ==
    ASSUME NEW N \in Nat, NEW W, NEW s, s[0] \in W[0],
           \A n \in 1 .. N : s[n - 1] \in W[n - 1] => s[n] \in W[n]
    PROVE  \A n \in 0 .. N : s[n] \in W[n]
<1> DEFINE S == {n \in 0 .. N : s[n] \in W[n]}
<1>1. 0 \in S /\ \A n \in 1 .. N : n - 1 \in S => n \in S
  OBVIOUS
<1> HIDE DEF S
<1>2. \A n \in 0 .. N : n \in S
  BY <1>1, StepByStep
<1> QED  BY <1>2 DEF S

\* A set of numbers that is not empty has a least one, which Min is.
LEMMA MinIs ==
    ASSUME NEW S \in SUBSET Nat, S # {}
    PROVE  Min(S) \in S
<1>1. \E x \in S : \A y \in S : x <= y
  BY LeastOne
<1> QED  BY <1>1, Zenon DEF Min

----------------------------------------------------------------------------
\* The geometry of a route.

\* A sign is -1, 0 or 1.
LEMMA SignIs ==
    \A n \in Int : Sign(n) \in {-1, 0, 1} /\ (n > 0 => Sign(n) = 1) /\ (n < 0 => Sign(n) = -1) /\ (n = 0 => Sign(n) = 0)
BY DEF Sign

\* A distance along an axis is not negative.
LEMMA AbsIs == \A n \in Int : Abs(n) \in Nat
<1> SUFFICES ASSUME NEW n \in Int PROVE Abs(n) \in Nat
  OBVIOUS
<1>1. CASE n > 0
  BY <1>1, SignIs DEF Abs
<1>2. CASE n < 0
  BY <1>2, SignIs DEF Abs
<1>3. CASE n = 0
  BY <1>3, SignIs DEF Abs
<1> QED  BY <1>1, <1>2, <1>3

\* A number with the sign of another is a number.
LEMMA SignedIs == \A n, m \in Int : n * Sign(m) \in Int
<1> SUFFICES ASSUME NEW n \in Int, NEW m \in Int PROVE n * Sign(m) \in Int
  OBVIOUS
<1>1. CASE Sign(m) = 1
  BY <1>1
<1>2. CASE Sign(m) = -1
  BY <1>2
<1>3. CASE Sign(m) = 0
  BY <1>3
<1> QED  BY <1>1, <1>2, <1>3, SignIs

\* What a point has.
LEMMA PointIs == \A p \in Points : p.lat \in Int /\ p.lng \in Int
BY DEF Points

\* A leg has a length.
LEMMA LegIs == \A a, b \in Points : Leg(a, b) \in Nat
<1> SUFFICES ASSUME NEW a \in Points, NEW b \in Points PROVE Leg(a, b) \in Nat
  OBVIOUS
<1> DEFINE x == b.lat - a.lat  y == b.lng - a.lng
<1>1. x \in Int /\ y \in Int
  BY PointIs
<1>2. Leg(a, b) = Abs(x) + Abs(y)
  BY DEF Leg
<1> HIDE DEF x, y
<1> QED  BY <1>1, <1>2, AbsIs

\* A point of a leg is a point.
LEMMA OnLegIs == \A a, b \in Points : \A n \in Int : OnLeg(a, b, n) \in Points
<1> SUFFICES ASSUME NEW a \in Points, NEW b \in Points, NEW n \in Int PROVE OnLeg(a, b, n) \in Points
  OBVIOUS
<1> DEFINE x == n * Sign(b.lat - a.lat)  y == n * Sign(b.lng - a.lng)
<1>1. x \in Int /\ y \in Int /\ a.lat \in Int /\ a.lng \in Int
  <2>1. b.lat - a.lat \in Int /\ b.lng - a.lng \in Int /\ a.lat \in Int /\ a.lng \in Int
    BY PointIs
  <2> QED  BY <2>1, SignedIs
<1>2. OnLeg(a, b, n) = [lat |-> a.lat + x, lng |-> a.lng + y]
  BY DEF OnLeg
<1> HIDE DEF x, y
<1> QED  BY <1>1, <1>2 DEF Points

\* The point of a leg nearest to another lies on the leg.
LEMMA ProjectIs ==
    ASSUME NEW p \in Points, NEW a \in Points, NEW b \in Points
    PROVE  ProjectOnSegment(p, a, b) \in 0 .. Leg(a, b)
<1> DEFINE x == (p.lat - a.lat) * Sign(b.lat - a.lat) + (p.lng - a.lng) * Sign(b.lng - a.lng)
<1>1. x \in Int
  <2>1. p.lat - a.lat \in Int /\ p.lng - a.lng \in Int /\ b.lat - a.lat \in Int /\ b.lng - a.lng \in Int
    BY PointIs
  <2>2. (p.lat - a.lat) * Sign(b.lat - a.lat) \in Int /\ (p.lng - a.lng) * Sign(b.lng - a.lng) \in Int
    BY <2>1, SignedIs
  <2> QED  BY <2>2
<1>2. ProjectOnSegment(p, a, b) = Clamp(x, 0, Leg(a, b))
  BY DEF ProjectOnSegment
<1> HIDE DEF x
<1>3. Leg(a, b) \in Nat
  BY LegIs
<1> QED  BY <1>1, <1>2, <1>3 DEF Clamp, Most, Least

\* The way along a route, leg by leg.
LegSteps(line, n) == [k \in 1 .. n |-> [v \in Nat |-> v + Leg(line[k], line[k + 1])]]

\* The way up to a point of the route is a loop over the legs before it.
LEMMA WayIs ==
    ASSUME NEW line \in Seq(Points), NEW i \in 1 .. Len(line)
    PROVE  \E f \in Loops(i - 1, Nat, 0, LegSteps(line, i - 1)) : Before(line, i) = f[i - 1]
<1> DEFINE n == i - 1
           G == LegSteps(line, n)
           step(f) == [k \in 0 .. n |-> IF k = 0 THEN 0 ELSE f[k - 1] + Leg(line[k], line[k + 1])]
           s == CHOOSE f : f = step(f)
<1>1. \A k \in 1 .. n : line[k] \in Points /\ line[k + 1] \in Points
  OBVIOUS
<1>2. Before(line, i) = s[n]
  BY Zenon DEF Before
<1>n. n \in Nat /\ n < Len(line)
  OBVIOUS
<1>3. \A k \in 1 .. n : Leg(line[k], line[k + 1]) \in Nat
  BY <1>1, LegIs
<1>4. G \in [1 .. n -> [Nat -> Nat]] /\ \A k \in 1 .. n, v \in Nat : G[k][v] = v + Leg(line[k], line[k + 1])
  BY <1>3 DEF LegSteps
<1> HIDE DEF G, s, n
<1>5. PICK f : f \in Loops(n, Nat, 0, G)
  <2>1. G \in [1 .. n -> [Nat -> Nat]] /\ 0 \in Nat
    BY <1>4
  <2>2. Loops(n, Nat, 0, G) # {}
    BY <1>n, <2>1, LoopRuns, Zenon
  <2> QED  BY <2>2
<1>6. f = step(f)
  <2>0. f \in [0 .. n -> Nat] /\ f[0] = 0 /\ \A k \in 1 .. n : f[k] = G[k][f[k - 1]]
    BY <1>5 DEF Loops
  <2>1. \A k \in 1 .. n : f[k] = f[k - 1] + Leg(line[k], line[k + 1])
    <3>1. \A k \in 1 .. n : k - 1 \in 0 .. n
      BY <1>n
    <3> QED  BY <1>4, <2>0, <3>1, ZenonT(30)
  <2>2. \A k \in 0 .. n : f[k] = step(f)[k]
    BY <1>n, <2>0, <2>1
  <2> QED  BY <2>0, <2>2
<1>7. s = step(s)
  BY <1>6, Zenon DEF s
<1>8. IsTable(s, n) /\ s[0] = 0 /\ \A k \in 1 .. n : s[k - 1] \in Nat => s[k] = G[k][s[k - 1]]
  <2>0. \A k \in 0 .. n : s[k] = IF k = 0 THEN 0 ELSE s[k - 1] + Leg(line[k], line[k + 1])
    BY <1>7, Zenon
  <2>1. s[0] = 0 /\ \A k \in 1 .. n : s[k] = s[k - 1] + Leg(line[k], line[k + 1])
    BY <1>n, <2>0, SMTT(30)
  <2>2. \A k \in 1 .. n : s[k - 1] \in Nat => s[k] = G[k][s[k - 1]]
    BY <1>4, <2>1
  <2>3. IsTable(s, n)
    BY <1>7 DEF IsTable
  <2> QED  BY <2>1, <2>2, <2>3
<1>9. s \in Loops(n, Nat, 0, G)
  <2>1. G \in [1 .. n -> [Nat -> Nat]] /\ 0 \in Nat
    BY <1>4
  <2> QED  BY <1>n, <1>8, <2>1, LoopIs, Zenon
<1> QED  BY <1>2, <1>9 DEF G, n

\* One leg more.
LEMMA LegByLeg ==
    ASSUME NEW line \in Seq(Points)
    PROVE  /\ line # <<>> => Before(line, 1) = 0
           /\ \A i \in 1 .. Len(line) : Before(line, i) \in Nat
           /\ \A i \in 1 .. Len(line) - 1 : Before(line, i + 1) = Before(line, i) + Leg(line[i], line[i + 1])
<1>0. Len(line) \in Nat
  OBVIOUS
<1>1. ASSUME line # <<>> PROVE Before(line, 1) = 0
  <2>1. 1 \in 1 .. Len(line) /\ 1 - 1 = 0
    BY <1>1
  <2>2. PICK f \in Loops(1 - 1, Nat, 0, LegSteps(line, 1 - 1)) : Before(line, 1) = f[1 - 1]
    BY <2>1, WayIs
  <2> QED  BY <2>1, <2>2 DEF Loops
<1>2. ASSUME NEW i \in 1 .. Len(line) PROVE Before(line, i) \in Nat
  <2>1. PICK f \in Loops(i - 1, Nat, 0, LegSteps(line, i - 1)) : Before(line, i) = f[i - 1]
    BY WayIs
  <2>2. f \in [0 .. i - 1 -> Nat] /\ i - 1 \in 0 .. i - 1
    BY DEF Loops
  <2> QED  BY <2>1, <2>2
<1>3. ASSUME NEW i \in 1 .. Len(line) - 1
      PROVE  Before(line, i + 1) = Before(line, i) + Leg(line[i], line[i + 1])
  <2> DEFINE n == i - 1  G == LegSteps(line, n)  H == LegSteps(line, i)
  <2>1. /\ n \in Nat /\ n <= i /\ i \in Nat /\ i - 1 = n /\ i + 1 - 1 = i
        /\ i \in 1 .. Len(line) /\ i + 1 \in 1 .. Len(line) /\ i \in 1 .. i /\ n \in 0 .. n
    BY <1>0
  <2>2. \A k \in 1 .. n, v \in Nat : G[k][v] = H[k][v]
    BY <2>1 DEF LegSteps
  <2>3. \A v \in Nat : H[i][v] = v + Leg(line[i], line[i + 1])
    BY <2>1 DEF LegSteps
  <2> HIDE DEF n, G, H
  <2>4. PICK f \in Loops(n, Nat, 0, G) : Before(line, i) = f[n]
    BY <2>1, WayIs DEF n, G
  <2>5. PICK g \in Loops(i, Nat, 0, H) : Before(line, i + 1) = g[i]
    <3>1. \E g \in Loops(i + 1 - 1, Nat, 0, LegSteps(line, i + 1 - 1)) : Before(line, i + 1) = g[i + 1 - 1]
      BY <2>1, WayIs
    <3> QED  BY <2>1, <3>1 DEF H
  <2>6. f[n] = g[n]
    <3>1. \A k \in 0 .. n : f[k] = g[k]
      BY <2>1, <2>2, LoopsAgree
    <3> QED  BY <2>1, <3>1
  <2>7. g[n] \in Nat /\ g[i] = H[i][g[n]]
    <3>1. n \in 0 .. i
      BY <2>1
    <3> QED  BY <2>1, <3>1 DEF Loops
  <2> QED  BY <2>1, <2>3, <2>4, <2>5, <2>6, <2>7
<1> QED  BY <1>1, <1>2, <1>3

\* The way grows.
LEMMA WayGrows ==
    ASSUME NEW line \in Seq(Points)
    PROVE  \A i \in 1 .. Len(line) : Before(line, i) <= Before(line, Len(line))
<1> DEFINE N == Len(line)  B(i) == Before(line, i)
           S == {n \in 0 .. N - 1 : \A i \in 1 .. n + 1 : B(i) <= B(n + 1)}
<1>0. N \in Nat
  OBVIOUS
<1>1. /\ \A i \in 1 .. N : B(i) \in Nat
      /\ \A i \in 1 .. N - 1 : B(i) <= B(i + 1)
  <2>1. \A i \in 1 .. N - 1 : line[i] \in Points /\ line[i + 1] \in Points
    OBVIOUS
  <2>2. \A i \in 1 .. N - 1 : Leg(line[i], line[i + 1]) \in Nat
    BY <2>1, LegIs
  <2>3. \A i \in 1 .. N : B(i) \in Nat
    BY LegByLeg
  <2>4. \A i \in 1 .. N - 1 : B(i + 1) = B(i) + Leg(line[i], line[i + 1]) /\ i \in 1 .. N
    BY <1>0, LegByLeg
  <2> HIDE DEF B, N
  <2> QED  BY <2>2, <2>3, <2>4
<1> HIDE DEF B, N
<1> SUFFICES ASSUME NEW x \in 1 .. N PROVE B(x) <= B(N)
  BY DEF B, N
<1>2. N - 1 \in Nat /\ x \in 1 .. N - 1 + 1 /\ N - 1 + 1 = N
  BY <1>0
<1>3. 0 \in S
  <2>1. \A i \in 1 .. 0 + 1 : i = 1
    OBVIOUS
  <2>2. B(1) \in Nat
    BY <1>1, <1>2
  <2> QED  BY <1>2, <2>1, <2>2
<1>4. ASSUME NEW n \in 1 .. N - 1, n - 1 \in S PROVE n \in S
  <2>1. n - 1 + 1 = n /\ \A i \in 1 .. n : B(i) <= B(n)
    BY <1>2, <1>4
  <2>2. \A i \in 1 .. n + 1 : (i = n + 1 \/ i \in 1 .. n) /\ i \in 1 .. N
    BY <1>0
  <2>3. B(n) \in Nat /\ B(n + 1) \in Nat /\ B(n) <= B(n + 1)
    BY <1>0, <1>1
  <2>4. \A i \in 1 .. n + 1 : B(i) <= B(n + 1)
    BY <1>1, <2>1, <2>2, <2>3
  <2> QED  BY <1>2, <2>4
<1> HIDE DEF S
<1>5. \A n \in 0 .. N - 1 : n \in S
  BY <1>2, <1>3, <1>4, StepByStep
<1>6. N - 1 \in S
  BY <1>2, <1>5
<1> QED  BY <1>2, <1>6 DEF S

\* The place of a point on the route is on the route.
LEMMA AlongIs ==
    ASSUME NEW line \in Seq(Points), line # <<>>, NEW p \in Points
    PROVE  DistanceAlongRoute(p, line) \in 0 .. Before(line, Len(line))
<1> DEFINE onto(i) == ProjectOnSegment(p, line[i], line[i + 1])
           off(i)  == Apart2(p, OnLeg(line[i], line[i + 1], onto(i)))
           nearest == {i \in Legs(line) : \A j \in Legs(line) : off(i) <= off(j)}
           i == Min(nearest)
           N == Len(line)
<1>0. N \in Nat \ {0} /\ N \in 1 .. N
  OBVIOUS
<1>1. DistanceAlongRoute(p, line) = IF nearest = {} THEN 0 ELSE Before(line, i) + onto(i)
  BY DEF DistanceAlongRoute
<1>2. nearest \subseteq 1 .. N - 1 /\ nearest \in SUBSET Nat
  BY DEF Legs
<1> HIDE DEF nearest
<1>3. Before(line, N) \in Nat
  BY <1>0, LegByLeg
<1>4. CASE nearest = {}
  BY <1>1, <1>3, <1>4
<1>5. CASE nearest # {}
  <2>1. i \in 1 .. N - 1
    BY <1>2, <1>5, MinIs
  <2> HIDE DEF i
  <2>2. line[i] \in Points /\ line[i + 1] \in Points /\ i \in 1 .. N /\ i + 1 \in 1 .. N
    BY <1>0, <2>1
  <2>3. onto(i) \in 0 .. Leg(line[i], line[i + 1])
    BY <2>2, ProjectIs
  <2>4. /\ Before(line, i) \in Nat /\ Before(line, i + 1) = Before(line, i) + Leg(line[i], line[i + 1])
        /\ Before(line, i + 1) <= Before(line, N)
    BY <2>1, <2>2, LegByLeg, WayGrows
  <2>5. Leg(line[i], line[i + 1]) \in Nat
    BY <2>2, LegIs
  <2> HIDE DEF onto
  <2> QED  BY <1>1, <1>3, <1>5, <2>3, <2>4, <2>5
<1> QED  BY <1>4, <1>5

\* The point at a distance within the route.
LEMMA InterpolateIs ==
    ASSUME NEW line \in Seq(Points), Len(line) > 1, NEW meters \in Nat, meters <= Before(line, Len(line))
    PROVE  InterpolateAlongRoute(meters, line) \in Points
<1> DEFINE S == {k \in Legs(line) : Before(line, k + 1) >= meters}
           i == Min(S)
           N == Len(line)
<1>0. N \in Nat /\ N > 1
  OBVIOUS
<1>1. S \subseteq 1 .. N - 1 /\ S \in SUBSET Nat
  BY DEF Legs
<1>2. S # {}
  <2>1. N - 1 \in Legs(line) /\ N - 1 + 1 = N
    BY <1>0 DEF Legs
  <2>2. Before(line, N) >= meters
    <3>1. Before(line, N) \in Nat
      BY <1>0, LegByLeg
    <3> QED  BY <3>1
  <2> QED  BY <2>1, <2>2
<1>3. InterpolateAlongRoute(meters, line) = OnLeg(line[i], line[i + 1], meters - Before(line, i))
  BY DEF InterpolateAlongRoute
<1> HIDE DEF S
<1>4. i \in 1 .. N - 1
  BY <1>1, <1>2, MinIs
<1> HIDE DEF i
<1>5. line[i] \in Points /\ line[i + 1] \in Points /\ Before(line, i) \in Nat
  BY <1>0, <1>4, LegByLeg
<1>6. meters - Before(line, i) \in Int
  BY <1>5
<1> QED  BY <1>3, <1>5, <1>6, OnLegIs

\* The routes that are analysed.
RouteSteps == [end : Points, says : Texts, meters : Nat, stops : Seq(Points)]

\* What a route that is analysed has.
LEMMA AnalysisIs ==
    ASSUME NEW a \in Analyses
    PROVE  /\ a.mode \in DOMAIN Pace /\ a.line \in Seq(Points) /\ a.steps \in Seq(RouteSteps)
           /\ a.jams \in Seq([from : Nat \ {0}, to : Nat \ {0}, speed : Speeds])
           /\ \A i \in DOMAIN a.jams : a.jams[i].from <= Len(a.line)
<1>1. DOMAIN Pace = {"bus", "train", "metro", "car", "bike", "walk"}
  BY DEF Pace
<1> QED  BY <1>1, AnalysesAssumption, Zenon DEF RouteSteps

\* A candidate is made of what it is asked to be made of.
LEMMA CandidateIs ==
    ASSUME NEW p \in Points, NEW type \in DOMAIN TypeBonus, NEW dwell \in Nat, NEW along \in Int, NEW count \in Nat
    PROVE  /\ Candidate(p, type, dwell, along, count) \in Cands
           /\ Candidate(p, type, dwell, along, count).along = along
           /\ Candidate(p, type, dwell, along, count).type = type
           /\ Candidate(p, type, dwell, along, count).lat = p.lat
           /\ Candidate(p, type, dwell, along, count).lng = p.lng
<1>1. p.lat \in Int /\ p.lng \in Int
  BY PointIs
<1>2. SafetyOf[type] \in 0 .. 100
  BY DEF SafetyOf, TypeBonus
<1>3. Unknown \in OrUnknown(Nat)
  BY DEF OrUnknown
<1> DEFINE safety == SafetyOf[type]
<1> HIDE DEF safety
<1>4. [lat |-> p.lat, lng |-> p.lng, type |-> type, dwell |-> dwell, along |-> along,
       safety |-> safety, count |-> count, risk |-> FALSE,
       reach |-> Unknown, ok |-> FALSE, score |-> 0, eta |-> 0, station |-> Unknown] \in Cands
  BY <1>1, <1>2, <1>3 DEF Cands, safety
<1> QED  BY <1>4 DEF Candidate, safety

\* The estimate of restaurants is between 1 and 15.
LEMMA CountIs == \A p : p.lat \in Int /\ p.lng \in Int => EstimateRestaurantCount(p) \in 1 .. 15
<1> SUFFICES ASSUME NEW p, p.lat \in Int, p.lng \in Int PROVE EstimateRestaurantCount(p) \in 1 .. 15
  OBVIOUS
<1> DEFINE x == 7 * p.lat + 3 * p.lng
<1>1. x \in Int /\ EstimateRestaurantCount(p) = (x % 15) + 1
  BY DEF EstimateRestaurantCount
<1> HIDE DEF x
<1>2. x % 15 \in 0 .. 14
  BY <1>1
<1> QED  BY <1>1, <1>2

\* Candidates that lie on the route, none of them a fallback.
OnRoute(a, v) == \A i \in DOMAIN v : v[i].along \in 0 .. Before(a.line, Len(a.line))
NoFallback(v) == \A i \in DOMAIN v : v[i].type # "dynamic"

\* The candidates of a step lie on the route, and none is a fallback point.
LEMMA StepGives ==
    ASSUME NEW a \in Analyses, a.line # <<>>, NEW step \in RouteSteps
    PROVE  OfStep(a, step) \in Seq(Cands) /\ OnRoute(a, OfStep(a, step)) /\ NoFallback(OfStep(a, step))
<1> DEFINE at(p) == DistanceAlongRoute(p, a.line)
           point(p, type, dwell, extra) == Candidate(p, type, dwell, at(p), EstimateRestaurantCount(p) + extra)
           dwell == IF a.mode = "train" THEN 120 ELSE 60
           way == 0 .. Before(a.line, Len(a.line))
<1>1. /\ step.end \in Points /\ step.says \in Texts /\ step.stops \in Seq(Points)
  BY DEF RouteSteps
<1>2. \A p \in Points : at(p) \in way
  BY AnalysisIs, AlongIs
<1>3. way \subseteq Int
  OBVIOUS
<1>4. ASSUME NEW p \in Points, NEW type \in DOMAIN TypeBonus \ {"dynamic"}, NEW d \in Nat, NEW extra \in Nat
      PROVE  /\ point(p, type, d, extra) \in Cands /\ point(p, type, d, extra).along \in way
             /\ point(p, type, d, extra).type # "dynamic"
  <2>1. at(p) \in way /\ at(p) \in Int
    BY <1>2, <1>3
  <2>2. EstimateRestaurantCount(p) + extra \in Nat
    BY CountIs, PointIs
  <2> HIDE DEF at, way
  <2> QED  BY <2>1, <2>2, CandidateIs
<1>5. dwell \in Nat /\ "stop" \in DOMAIN TypeBonus \ {"dynamic"}
  BY DEF TypeBonus
<1>6. \A x \in Texts : x \in DOMAIN DwellOf => x \in DOMAIN TypeBonus \ {"dynamic"} /\ DwellOf[x] \in Nat
  BY DEF Texts, DwellOf, TypeBonus
<1> DEFINE extra == IF step.says = "petrol_pump" THEN 2 ELSE 0
           first  == [i \in DOMAIN step.stops |-> point(step.stops[i], "stop", dwell, 0)]
           second == <<point(step.end, step.says, DwellOf[step.says], extra)>>
<1>7. OfStep(a, step) = IF a.mode \in Transit THEN first ELSE IF step.says \in DOMAIN DwellOf THEN second ELSE <<>>
  BY DEF OfStep
<1>8. extra \in Nat
  OBVIOUS
<1> HIDE DEF dwell, point, extra, way
<1>9. first \in Seq(Cands) /\ \A i \in DOMAIN first : first[i].along \in way /\ first[i].type # "dynamic"
  <2>1. DOMAIN step.stops = 1 .. Len(step.stops) /\ Len(step.stops) \in Nat /\ \A i \in DOMAIN step.stops : step.stops[i] \in Points
    BY <1>1
  <2>2. \A i \in 1 .. Len(step.stops) : /\ point(step.stops[i], "stop", dwell, 0) \in Cands
                                        /\ point(step.stops[i], "stop", dwell, 0).along \in way
                                        /\ point(step.stops[i], "stop", dwell, 0).type # "dynamic"
    BY <1>4, <1>5, <2>1
  <2> QED  BY <2>1, <2>2
<1>10. step.says \in DOMAIN DwellOf =>
          second \in Seq(Cands) /\ \A i \in DOMAIN second : second[i].along \in way /\ second[i].type # "dynamic"
  <2> SUFFICES ASSUME step.says \in DOMAIN DwellOf
               PROVE  second \in Seq(Cands) /\ \A i \in DOMAIN second : second[i].along \in way /\ second[i].type # "dynamic"
    OBVIOUS
  <2> DEFINE c == point(step.end, step.says, DwellOf[step.says], extra)
  <2>1. c \in Cands /\ c.along \in way /\ c.type # "dynamic"
    BY <1>1, <1>4, <1>6, <1>8
  <2> HIDE DEF c
  <2>2. <<c>> \in Seq(Cands) /\ \A i \in DOMAIN <<c>> : <<c>>[i] = c
    BY <2>1
  <2> QED  BY <2>1, <2>2 DEF c
<1> HIDE DEF first, second
<1> QED  BY <1>7, <1>9, <1>10 DEF OnRoute, NoFallback, way

\* Two such lists, one after the other, are such a list.
LEMMA Together ==
    ASSUME NEW a, NEW v \in Seq(Cands), NEW w \in Seq(Cands),
           OnRoute(a, v), NoFallback(v), OnRoute(a, w), NoFallback(w)
    PROVE  v \o w \in Seq(Cands) /\ OnRoute(a, v \o w) /\ NoFallback(v \o w)
<1> DEFINE u == v \o w
<1>1. /\ u \in Seq(Cands) /\ DOMAIN u = 1 .. Len(v) + Len(w)
      /\ \A i \in DOMAIN u : \/ i \in DOMAIN v /\ u[i] = v[i]
                             \/ i - Len(v) \in DOMAIN w /\ u[i] = w[i - Len(v)]
  OBVIOUS
<1> HIDE DEF u
<1> DEFINE way == 0 .. Before(a.line, Len(a.line))
<1>2. (\A i \in DOMAIN v : v[i].along \in way) /\ (\A i \in DOMAIN w : w[i].along \in way)
  BY DEF OnRoute
<1> HIDE DEF way
<1>3. \A i \in DOMAIN u : u[i].along \in way
  BY <1>1, <1>2
<1>4. NoFallback(u)
  BY <1>1 DEF NoFallback
<1> QED  BY <1>1, <1>3, <1>4 DEF OnRoute, way, u

\* So are the candidates of all steps.
LEMMA MarkedIs ==
    ASSUME NEW a \in Analyses, a.line # <<>>
    PROVE  Marked(a) \in Seq(Cands) /\ OnRoute(a, Marked(a)) /\ NoFallback(Marked(a))
<1> DEFINE N == Len(a.steps)
           b == <<>>
           next(v, n) == v \o OfStep(a, a.steps[n])
           ok == {v \in Seq(Cands) : OnRoute(a, v) /\ NoFallback(v)}
           W == [n \in 0 .. N |-> ok]
           G == [n \in 1 .. N |-> [v \in ok |-> next(v, n)]]
           step(f) == [n \in 0 .. N |-> IF n = 0 THEN <<>> ELSE f[n - 1] \o OfStep(a, a.steps[n])]
           s == CHOOSE f : f = step(f)
<1>0. N \in Nat /\ \A n \in 1 .. N : n - 1 \in 0 .. N /\ n \in 0 .. N /\ a.steps[n] \in RouteSteps
  <2>1. a.steps \in Seq(RouteSteps)
    BY AnalysisIs
  <2> QED  BY <2>1
<1>1. Marked(a) = s[N]
  BY DEF Marked
<1>2. b \in ok
  BY DEF OnRoute, NoFallback
<1>3. \A n \in 0 .. N : W[n] = ok
  OBVIOUS
<1>4. \A n \in 1 .. N : \A v \in ok : next(v, n) \in ok /\ G[n][v] = next(v, n)
  <2> SUFFICES ASSUME NEW n \in 1 .. N, NEW v \in ok PROVE next(v, n) \in ok
    OBVIOUS
  <2> DEFINE w == OfStep(a, a.steps[n])
  <2>1. w \in Seq(Cands) /\ OnRoute(a, w) /\ NoFallback(w)
    BY <1>0, StepGives
  <2> HIDE DEF w
  <2>2. v \o w \in Seq(Cands) /\ OnRoute(a, v \o w) /\ NoFallback(v \o w)
    BY <2>1, Together
  <2> QED  BY <2>2 DEF w
<1> HIDE DEF b, W, G, s, N, ok
<1>6. PICK f : Turns(f, N, W, b, G)
  <2>1. \A n \in 1 .. N : \A v \in W[n - 1] : G[n][v] \in W[n]
    BY <1>0, <1>3, <1>4
  <2>2. b \in W[0]
    BY <1>0, <1>2, <1>3
  <2> QED  BY <1>0, <2>1, <2>2, LoopHas
<1>7. f = step(f)
  <2>1. IsTable(f, N) /\ f[0] = b /\ \A n \in 1 .. N : f[n] = G[n][f[n - 1]] /\ f[n - 1] \in ok
    BY <1>0, <1>3, <1>6 DEF Turns
  <2> HIDE DEF next
  <2>2. \A n \in 1 .. N : f[n] = next(f[n - 1], n)
    BY <1>4, <2>1
  <2>3. \A n \in 0 .. N : f[n] = IF n = 0 THEN <<>> ELSE next(f[n - 1], n)
    BY <1>0, <2>1, <2>2 DEF b
  <2>4. \A n \in 0 .. N : f[n] = step(f)[n]
    BY <2>3, Zenon DEF next
  <2> QED  BY <2>1, <2>4, Zenon DEF IsTable
<1>8. s = step(s)
  BY <1>7, Zenon DEF s
<1>9. s[0] = b /\ \A n \in 1 .. N : s[n] = next(s[n - 1], n)
  <2>1. \A n \in 0 .. N : s[n] = IF n = 0 THEN <<>> ELSE next(s[n - 1], n)
    BY <1>8, Zenon
  <2> HIDE DEF next
  <2> QED  BY <1>0, <2>1 DEF b
<1> HIDE DEF next
<1>10. s[N] \in W[N]
  <2>1. s[0] \in W[0] /\ \A n \in 1 .. N : s[n - 1] \in W[n - 1] => s[n] \in W[n]
    BY <1>0, <1>2, <1>3, <1>4, <1>9
  <2>2. \A n \in 0 .. N : s[n] \in W[n]
    BY <1>0, <2>1, LoopKeeps
  <2> QED  BY <1>0, <2>2
<1>11. s[N] \in ok
  BY <1>0, <1>3, <1>10
<1> QED  BY <1>1, <1>11 DEF ok

\* A fallback point keeps 300 m from the candidates before it.
Clear(v) == \A i, j \in DOMAIN v : i < j /\ v[j].type = "dynamic" => ~Within(v[i], v[j], 3)

\* Candidates have a place.
LEMMA PlacedAre == Placed(Cands)
BY DEF Placed, Cands

\* A fallback point more: all lie on the route, and it keeps its distance.
LEMMA FallbackGives ==
    ASSUME NEW a \in Analyses, Len(a.line) > 1, NEW meters \in Nat, meters <= Before(a.line, Len(a.line)),
           NEW found \in Seq(Cands), OnRoute(a, found), Clear(found), NEW grid
    PROVE  LET now == AddFallback(found, meters, a.line, grid)
           IN  now \in Seq(Cands) /\ OnRoute(a, now) /\ Clear(now)
<1> DEFINE p == InterpolateAlongRoute(meters, a.line)
           c == Candidate(p, "dynamic", DwellOf.dynamic, meters, EstimateRestaurantCount(p))
           now == AddFallback(found, meters, a.line, grid)
           far == ~TooClose(p, found, 3, grid)
<1>1. now = IF far THEN Append(found, c) ELSE found
  BY DEF AddFallback
<1>2. p \in Points
  BY AnalysisIs, InterpolateIs
<1> HIDE DEF p
<1>3. c \in Cands /\ c.along = meters /\ c.lat = p.lat /\ c.lng = p.lng
  <2>1. "dynamic" \in DOMAIN TypeBonus /\ DwellOf.dynamic \in Nat
    BY DEF TypeBonus, DwellOf
  <2>2. EstimateRestaurantCount(p) \in Nat
    BY <1>2, CountIs, PointIs
  <2> QED  BY <1>2, <2>1, <2>2, CandidateIs
<1> HIDE DEF c, now
<1>4. CASE ~far
  BY <1>1, <1>4 DEF now
<1>5. CASE far
  <2>1. /\ now \in Seq(Cands) /\ Len(now) = Len(found) + 1 /\ now[Len(found) + 1] = c
        /\ \A i \in 1 .. Len(found) : now[i] = found[i]
    BY <1>1, <1>3, <1>5, AppendsTo
  <2>2. DOMAIN now = 1 .. Len(found) + 1 /\ DOMAIN found = 1 .. Len(found) /\ Len(found) \in Nat
    BY <2>1
  <2>3. \A i \in 1 .. Len(found) + 1 : i = Len(found) + 1 \/ i \in 1 .. Len(found)
    BY <2>2
  <2>4. OnRoute(a, now)
    <3> DEFINE way == 0 .. Before(a.line, Len(a.line))
    <3>1. meters \in way /\ \A i \in 1 .. Len(found) : found[i].along \in way
      <4>1. Before(a.line, Len(a.line)) \in Nat
        <5>1. a.line \in Seq(Points)
          BY AnalysisIs
        <5>2. Len(a.line) \in 1 .. Len(a.line)
          BY <5>1
        <5> QED  BY <5>1, <5>2, LegByLeg
      <4> QED  BY <2>2, <4>1 DEF OnRoute
    <3> HIDE DEF way
    <3>2. \A i \in DOMAIN now : now[i].along \in way
      BY <1>3, <2>1, <2>2, <2>3, <3>1
    <3> QED  BY <3>2 DEF OnRoute, way
  <2>5. \A i \in 1 .. Len(found) : ~Within(found[i], c, 3)
    <3> SUFFICES ASSUME NEW i \in 1 .. Len(found), Within(found[i], c, 3) PROVE FALSE
      OBVIOUS
    <3>1. found[i] \in Cands
      OBVIOUS
    <3>2. Within(c, found[i], 3)
      BY <1>3, <3>1, PlacedAre, WithinIsSymmetric
    <3>3. Within(p, found[i], 3)
      BY <1>3, <3>2 DEF Within, Apart2
    <3>4. Neighbours(p, found[i], 3)
      <4>1. p.lat \in Int /\ p.lng \in Int /\ found[i].lat \in Int /\ found[i].lng \in Int
        BY <1>2, <3>1, PointIs, PlacedAre DEF Placed
      <4> QED  BY <3>3, <4>1, GridIsExact
    <3> QED  BY <1>5, <2>2, <3>3, <3>4 DEF TooClose
  <2>6. Clear(now)
    <3> SUFFICES ASSUME NEW i \in DOMAIN now, NEW j \in DOMAIN now, i < j, now[j].type = "dynamic"
                 PROVE  ~Within(now[i], now[j], 3)
      BY DEF Clear
    <3>1. i \in 1 .. Len(found) /\ now[i] = found[i]
      BY <2>1, <2>2
    <3>2. CASE j = Len(found) + 1
      BY <2>1, <2>5, <3>1, <3>2
    <3>3. CASE j \in 1 .. Len(found)
      BY <2>1, <2>2, <3>1, <3>3 DEF Clear
    <3> QED  BY <2>2, <2>3, <3>2, <3>3
  <2> QED  BY <2>1, <2>4, <2>6 DEF now
<1> QED  BY <1>4, <1>5

\* The candidates lie on the route, and fallback points keep their distance
\* (extractCandidates).
LEMMA CandidatesAre ==
    ASSUME NEW a \in Analyses
    PROVE  LET v == ExtractCandidates(a) IN v \in Seq(Cands) /\ OnRoute(a, v) /\ Clear(v)
<1> DEFINE total == DistanceAlongRoute(Last(a.line), a.line)
           spacing == total \div FallbackParts
           grid == Len(Marked(a)) > GeohashThreshold
           N == FallbackParts - 1
           b == Marked(a)
           next(v, n) == IF n * spacing < total THEN AddFallback(v, n * spacing, a.line, grid) ELSE v
           ok == {v \in Seq(Cands) : OnRoute(a, v) /\ Clear(v)}
           W == [n \in 0 .. N |-> ok]
           G == [n \in 1 .. N |-> [v \in ok |-> next(v, n)]]
           step(f) == [n \in 0 .. N |-> IF n = 0 THEN Marked(a)
                                        ELSE IF n * spacing < total THEN AddFallback(f[n - 1], n * spacing, a.line, grid)
                                        ELSE f[n - 1]]
           s == CHOOSE f : f = step(f)
<1>0. N \in Nat /\ FallbackParts \in Nat \ {0} /\ \A n \in 1 .. N : n - 1 \in 0 .. N /\ n \in 0 .. N
  BY SearchAssumption
<1>1. ExtractCandidates(a) = IF a.line = <<>> THEN <<>> ELSE s[N]
  BY DEF ExtractCandidates
<1>2. CASE a.line = <<>>
  <2>1. ExtractCandidates(a) = <<>>
    BY <1>1, <1>2
  <2> QED  BY <2>1 DEF OnRoute, Clear
<1>3. CASE a.line # <<>>
  <2>1. a.line \in Seq(Points) /\ Len(a.line) \in Nat \ {0} /\ Last(a.line) \in Points
    <3>1. a.line \in Seq(Points)
      BY AnalysisIs
    <3> QED  BY <1>3, <3>1 DEF Last
  <2>2. total \in 0 .. Before(a.line, Len(a.line)) /\ Before(a.line, Len(a.line)) \in Nat
    <3>1. Len(a.line) \in 1 .. Len(a.line)
      BY <2>1
    <3> QED  BY <1>3, <2>1, <3>1, AlongIs, LegByLeg
  <2>3. spacing \in Nat
    BY <1>0, <2>2, DivIs
  <2> HIDE DEF total, spacing, grid
  <2>4. 0 < total => Len(a.line) > 1
    <3> DEFINE n == Len(a.line)  way == Before(a.line, n)
    <3>1. n = 1 => way = 0
      BY <1>3, <2>1, LegByLeg
    <3>2. n \in Nat \ {0} /\ way \in Nat /\ total \in 0 .. way
      BY <2>1, <2>2
    <3> HIDE DEF n, way
    <3>3. 0 < total => n > 1
      BY <3>1, <3>2
    <3> QED  BY <3>3 DEF n
  <2>5. b \in ok
    BY <1>3, MarkedIs DEF Clear, NoFallback
  <2>6. \A n \in 0 .. N : W[n] = ok
    OBVIOUS
  <2>7. \A n \in 1 .. N : \A v \in ok : next(v, n) \in ok /\ G[n][v] = next(v, n)
    <3> SUFFICES ASSUME NEW n \in 1 .. N, NEW v \in ok PROVE next(v, n) \in ok
      OBVIOUS
    <3>1. CASE ~(n * spacing < total)
      BY <3>1
    <3>2. CASE n * spacing < total
      <4> DEFINE m == n * spacing
      <4>1. m \in Nat /\ n \in Nat
        BY <1>0, <2>3, TimesMonotone
      <4> HIDE DEF m
      <4>2. m \in Nat /\ m < total
        BY <3>2, <4>1 DEF m
      <4>3. m <= Before(a.line, Len(a.line)) /\ Len(a.line) > 1
        BY <2>2, <2>4, <4>2
      <4>4. AddFallback(v, m, a.line, grid) \in ok
        BY <4>2, <4>3, FallbackGives
      <4> QED  BY <3>2, <4>4 DEF m
    <3> QED  BY <3>1, <3>2
  <2> HIDE DEF b, W, G, s, N, ok
  <2>8. PICK f : Turns(f, N, W, b, G)
    <3>1. \A n \in 1 .. N : \A v \in W[n - 1] : G[n][v] \in W[n]
      BY <1>0, <2>6, <2>7
    <3>2. b \in W[0]
      BY <1>0, <2>5, <2>6
    <3> QED  BY <1>0, <3>1, <3>2, LoopHas
  <2>9. f = step(f)
    <3>1. IsTable(f, N) /\ f[0] = b /\ \A n \in 1 .. N : f[n] = G[n][f[n - 1]] /\ f[n - 1] \in ok
      BY <1>0, <2>6, <2>8 DEF Turns
    <3> HIDE DEF next
    <3>2. \A n \in 1 .. N : f[n] = next(f[n - 1], n)
      BY <2>7, <3>1
    <3>3. \A n \in 0 .. N : f[n] = IF n = 0 THEN Marked(a) ELSE next(f[n - 1], n)
      BY <1>0, <3>1, <3>2 DEF b
    <3>4. \A n \in 0 .. N : f[n] = step(f)[n]
      BY <3>3, Zenon DEF next
    <3> QED  BY <3>1, <3>4, Zenon DEF IsTable
  <2>10. s = step(s)
    BY <2>9, Zenon DEF s
  <2>11. s[0] = b /\ \A n \in 1 .. N : s[n] = next(s[n - 1], n)
    <3>1. \A n \in 0 .. N : s[n] = IF n = 0 THEN Marked(a) ELSE next(s[n - 1], n)
      BY <2>10, Zenon
    <3> HIDE DEF next
    <3> QED  BY <1>0, <3>1 DEF b
  <2> HIDE DEF next
  <2>12. s[N] \in W[N]
    <3>1. s[0] \in W[0] /\ \A n \in 1 .. N : s[n - 1] \in W[n - 1] => s[n] \in W[n]
      BY <1>0, <2>5, <2>6, <2>7, <2>11
    <3>2. \A n \in 0 .. N : s[n] \in W[n]
      BY <1>0, <3>1, LoopKeeps
    <3> QED  BY <1>0, <3>2
  <2>13. s[N] \in ok
    BY <1>0, <2>6, <2>12
  <2> QED  BY <1>1, <1>3, <2>13 DEF ok
<1> QED  BY <1>2, <1>3

\* Candidates can be compared.
LEMMA ComparableAre == Comparable(Cands)
BY DEF Comparable, Cands

\* What the services tell of a candidate leaves it one.
LEMMA CountOf ==
    ASSUME NEW survey \in Surveys, NEW p, p.lat \in Int, p.lng \in Int
    PROVE  ResolveCount(survey, p) \in Nat
<1> DEFINE at == [lat |-> p.lat, lng |-> p.lng]
<1>1. ResolveCount(survey, p) = IF at \in DOMAIN survey /\ survey[at] # Unknown THEN survey[at]
                                ELSE EstimateRestaurantCount(p)
  BY DEF ResolveCount
<1> HIDE DEF at
<1>2. at \in DOMAIN survey => survey[at] \in {Unknown} \union Nat
  BY AnswersAssumption DEF OrUnknown
<1>3. EstimateRestaurantCount(p) \in Nat
  BY CountIs
<1> QED  BY <1>1, <1>2, <1>3

\* A candidate with another count of restaurants is one.
LEMMA WithCount == ASSUME NEW c \in Cands, NEW n \in Nat PROVE [c EXCEPT !.count = n] \in Cands
BY DEF Cands

\* Counted candidates are candidates.
LEMMA CountsAre ==
    ASSUME NEW survey \in Surveys, NEW v \in Seq(Cands)
    PROVE  [i \in DOMAIN v |-> [v[i] EXCEPT !.count = ResolveCount(survey, v[i])]] \in Seq(Cands)
<1> DEFINE w == [i \in DOMAIN v |-> [v[i] EXCEPT !.count = ResolveCount(survey, v[i])]]
<1>1. Len(v) \in Nat /\ DOMAIN v = 1 .. Len(v)
  OBVIOUS
<1>2. \A i \in 1 .. Len(v) : [v[i] EXCEPT !.count = ResolveCount(survey, v[i])] \in Cands
  <2> SUFFICES ASSUME NEW i \in 1 .. Len(v) PROVE [v[i] EXCEPT !.count = ResolveCount(survey, v[i])] \in Cands
    OBVIOUS
  <2>1. v[i] \in Cands
    OBVIOUS
  <2>2. ResolveCount(survey, v[i]) \in Nat
    BY <2>1, CountOf, PlacedAre DEF Placed
  <2> QED  BY <2>1, <2>2, WithCount
<1>3. w \in [1 .. Len(v) -> Cands]
  BY <1>1, <1>2
<1> HIDE DEF w
<1>4. w \in Seq(Cands)
  BY <1>1, <1>3
<1> QED  BY <1>4 DEF w

\* The way to the end of a step.
LEMMA WayToIs == ASSUME NEW a \in Analyses, NEW n \in 1 .. Len(a.steps) PROVE WayTo(a, n) \in Nat
<1> DEFINE b == 0
           V == Nat
           next(v, k) == v + a.steps[k].meters
           G == [k \in 1 .. n |-> [v \in V |-> next(v, k)]]
           step(f) == [k \in 0 .. n |-> IF k = 0 THEN 0 ELSE f[k - 1] + a.steps[k].meters]
           s == CHOOSE f : f = step(f)
<1>0. n \in Nat /\ \A k \in 1 .. n : k - 1 \in 0 .. n /\ k \in 0 .. n /\ a.steps[k].meters \in Nat
  <2>1. a.steps \in Seq(RouteSteps)
    BY AnalysisIs
  <2>2. \A k \in 1 .. n : a.steps[k] \in RouteSteps /\ k - 1 \in 0 .. n /\ k \in 0 .. n
    BY <2>1
  <2> QED  BY <2>1, <2>2 DEF RouteSteps
<1>1. WayTo(a, n) = s[n]
  BY Zenon DEF WayTo
<1>2. \A k \in 1 .. n : \A v \in V : next(v, k) \in V /\ G[k][v] = next(v, k)
  BY <1>0
<1>3. b \in V /\ G \in [1 .. n -> [V -> V]]
  BY <1>0
<1> HIDE DEF G, s, V, b
<1>4. PICK f : f \in Loops(n, V, b, G)
  <2>1. Loops(n, V, b, G) # {}
    BY <1>0, <1>3, LoopRuns
  <2> QED  BY <2>1
<1>5. f = step(f)
  <2>1. f \in [0 .. n -> V] /\ f[0] = b /\ \A k \in 1 .. n : f[k] = G[k][f[k - 1]]
    BY <1>4 DEF Loops
  <2> HIDE DEF next
  <2>2. \A k \in 1 .. n : f[k] = next(f[k - 1], k)
    BY <1>0, <1>2, <2>1
  <2>3. \A k \in 0 .. n : f[k] = IF k = 0 THEN 0 ELSE next(f[k - 1], k)
    BY <1>0, <2>1, <2>2 DEF b
  <2>4. f = [k \in 0 .. n |-> f[k]]
    BY <2>1
  <2> QED  BY <2>3, <2>4, Zenon DEF next
<1>6. s = step(s)
  BY <1>5, Zenon DEF s
<1>7. s[0] = b /\ \A k \in 1 .. n : s[k] = next(s[k - 1], k)
  <2>1. \A k \in 0 .. n : s[k] = IF k = 0 THEN 0 ELSE next(s[k - 1], k)
    BY <1>6, Zenon
  <2> HIDE DEF next
  <2> QED  BY <1>0, <2>1 DEF b
<1> HIDE DEF next
<1> DEFINE W == [k \in 0 .. n |-> V]
<1>8. \A k \in 0 .. n : W[k] = V
  OBVIOUS
<1> HIDE DEF W
<1>9. s[0] \in W[0] /\ \A k \in 1 .. n : s[k - 1] \in W[k - 1] => s[k] \in W[k]
  BY <1>0, <1>2, <1>3, <1>7, <1>8
<1>10. \A k \in 0 .. n : s[k] \in W[k]
  BY <1>0, <1>9, LoopKeeps
<1>11. s[n] \in V
  BY <1>0, <1>8, <1>10
<1> QED  BY <1>1, <1>11 DEF V

\* With a toll plaza more, they are.
LEMMA TollIs ==
    ASSUME NEW v \in Seq(Cands), NEW p \in Points, NEW along \in Int
    PROVE  AddToll(v, p, along) \in Seq(Cands)
<1> DEFINE c == Candidate(p, "toll_plaza", 180, along, 2)
<1>1. c \in Cands
  <2>1. "toll_plaza" \in DOMAIN TypeBonus /\ 180 \in Nat /\ 2 \in Nat
    BY DEF TypeBonus
  <2> QED  BY <2>1, CandidateIs
<1> HIDE DEF c
<1>2. Append(v, c) \in Seq(Cands)
  BY <1>1
<1> QED  BY <1>2 DEF AddToll, c

\* With all toll plazas of the route, they are.
LEMMA TollsAre ==
    ASSUME NEW a \in Analyses, NEW points \in Seq(Cands)
    PROVE  MergeTollCandidates(points, a) \in Seq(Cands)
<1> DEFINE N == Len(a.steps)
           b == points
           V == Seq(Cands)
           next(v, n) == IF a.tolls /\ a.steps[n].says = "toll_plaza" THEN AddToll(v, a.steps[n].end, WayTo(a, n)) ELSE v
           W == [n \in 0 .. N |-> V]
           G == [n \in 1 .. N |-> [v \in V |-> next(v, n)]]
           step(f) == [n \in 0 .. N |-> IF n = 0 THEN points
                                        ELSE IF a.tolls /\ a.steps[n].says = "toll_plaza"
                                        THEN AddToll(f[n - 1], a.steps[n].end, WayTo(a, n)) ELSE f[n - 1]]
           s == CHOOSE f : f = step(f)
<1>0. N \in Nat /\ \A n \in 1 .. N : n - 1 \in 0 .. N /\ n \in 0 .. N /\ a.steps[n].end \in Points
  <2>1. a.steps \in Seq(RouteSteps)
    BY AnalysisIs
  <2>2. \A n \in 1 .. N : a.steps[n] \in RouteSteps /\ n - 1 \in 0 .. N /\ n \in 0 .. N
    BY <2>1
  <2> QED  BY <2>1, <2>2 DEF RouteSteps
<1>1. MergeTollCandidates(points, a) = s[N]
  BY Zenon DEF MergeTollCandidates
<1>2. b \in V /\ \A n \in 0 .. N : W[n] = V
  OBVIOUS
<1>3. \A n \in 1 .. N : \A v \in V : next(v, n) \in V /\ G[n][v] = next(v, n)
  <2> SUFFICES ASSUME NEW n \in 1 .. N, NEW v \in V PROVE next(v, n) \in V
    OBVIOUS
  <2>1. WayTo(a, n) \in Int
    <3>1. WayTo(a, n) \in Nat
      BY WayToIs
    <3> QED  BY <3>1
  <2>2. AddToll(v, a.steps[n].end, WayTo(a, n)) \in V
    BY <1>0, <2>1, TollIs
  <2> QED  BY <2>2
<1> HIDE DEF b, W, G, s, N, V
<1>4. PICK f : Turns(f, N, W, b, G)
  <2>1. \A n \in 1 .. N : \A v \in W[n - 1] : G[n][v] \in W[n]
    BY <1>0, <1>2, <1>3
  <2>2. b \in W[0]
    BY <1>0, <1>2
  <2> QED  BY <1>0, <2>1, <2>2, LoopHas
<1>5. f = step(f)
  <2>1. IsTable(f, N) /\ f[0] = b /\ \A n \in 1 .. N : f[n] = G[n][f[n - 1]] /\ f[n - 1] \in V
    BY <1>0, <1>2, <1>4 DEF Turns
  <2> HIDE DEF next
  <2>2. \A n \in 1 .. N : f[n] = next(f[n - 1], n)
    BY <1>3, <2>1
  <2>3. \A n \in 0 .. N : f[n] = IF n = 0 THEN points ELSE next(f[n - 1], n)
    BY <1>0, <2>1, <2>2 DEF b
  <2>4. \A n \in 0 .. N : f[n] = step(f)[n]
    BY <2>3, Zenon DEF next
  <2> QED  BY <2>1, <2>4, Zenon DEF IsTable
<1>6. s = step(s)
  BY <1>5, Zenon DEF s
<1>7. s[0] = b /\ \A n \in 1 .. N : s[n] = next(s[n - 1], n)
  <2>1. \A n \in 0 .. N : s[n] = IF n = 0 THEN points ELSE next(s[n - 1], n)
    BY <1>6, Zenon
  <2> HIDE DEF next
  <2>2. 0 \in 0 .. N /\ \A n \in 1 .. N : n \in 0 .. N /\ n # 0
    BY <1>0
  <2> QED  BY <2>1, <2>2, Zenon DEF b
<1> HIDE DEF next
<1>8. s[0] \in W[0] /\ \A n \in 1 .. N : s[n - 1] \in W[n - 1] => s[n] \in W[n]
  BY <1>0, <1>2, <1>3, <1>7
<1>9. \A n \in 0 .. N : s[n] \in W[n]
  BY <1>0, <1>8, LoopKeeps
<1>10. s[N] \in V
  BY <1>0, <1>2, <1>9
<1> QED  BY <1>1, <1>10 DEF V

\* The halt in traffic is a number of seconds.
LEMMA DwellIs == ASSUME NEW a \in Analyses, NEW c \in Cands PROVE AdjustDwellForTraffic(c, a) \in Nat
<1> DEFINE mid(j) == LET from == a.line[j.from] to == a.line[Least(j.to, Len(a.line))]
                     IN  [lat |-> (from.lat + to.lat) \div 2, lng |-> (from.lng + to.lng) \div 2]
           near == {i \in DOMAIN a.jams : Within(c, mid(a.jams[i]), 4)}
           best == {i \in near : \A k \in near : Apart2(c, mid(a.jams[i])) <= Apart2(c, mid(a.jams[k]))}
           bonus == [NORMAL |-> 0, SLOW |-> 30, TRAFFIC_JAM |-> 90]
           i == Min(best)
<1>1. AdjustDwellForTraffic(c, a) = IF best = {} THEN c.dwell ELSE c.dwell + bonus[a.jams[i].speed]
  BY Zenon DEF AdjustDwellForTraffic
<1>2. best \subseteq DOMAIN a.jams
  OBVIOUS
<1>3. c.dwell \in Nat
  BY DEF Cands
<1>4. \A x \in Speeds : bonus[x] \in Nat
  BY DEF Speeds
<1> HIDE DEF best, bonus
<1>5. ASSUME best # {} PROVE a.jams[i].speed \in Speeds
  <2> DEFINE jammed == [from : Nat \ {0}, to : Nat \ {0}, speed : Speeds]
  <2>1. a.jams \in Seq(jammed)
    BY AnalysisIs
  <2>2. \A x \in jammed : x.speed \in Speeds
    OBVIOUS
  <2> HIDE DEF jammed
  <2>s. DOMAIN a.jams = 1 .. Len(a.jams) /\ \A k \in DOMAIN a.jams : a.jams[k].speed \in Speeds
    BY <2>1, <2>2
  <2>3. best \in SUBSET Nat
    BY <1>2, <2>s
  <2>4. i \in DOMAIN a.jams
    BY <1>2, <1>5, <2>3, MinIs
  <2> QED  BY <2>s, <2>4
<1> HIDE DEF i
<1> QED  BY <1>1, <1>3, <1>4, <1>5

\* A candidate with another halt is one.
LEMMA WithDwell == ASSUME NEW c \in Cands, NEW n \in Nat PROVE [c EXCEPT !.dwell = n] \in Cands
BY DEF Cands

\* Candidates adjusted for traffic are candidates.
LEMMA DwellsAre ==
    ASSUME NEW a \in Analyses, NEW v \in Seq(Cands)
    PROVE  [i \in DOMAIN v |-> [v[i] EXCEPT !.dwell = AdjustDwellForTraffic(v[i], a)]] \in Seq(Cands)
<1> DEFINE w == [i \in DOMAIN v |-> [v[i] EXCEPT !.dwell = AdjustDwellForTraffic(v[i], a)]]
<1>1. Len(v) \in Nat /\ DOMAIN v = 1 .. Len(v) /\ \A i \in 1 .. Len(v) : v[i] \in Cands
  OBVIOUS
<1>2. \A i \in 1 .. Len(v) : [v[i] EXCEPT !.dwell = AdjustDwellForTraffic(v[i], a)] \in Cands
  BY <1>1, DwellIs, WithDwell
<1>3. w \in [1 .. Len(v) -> Cands]
  BY <1>1, <1>2
<1> HIDE DEF w
<1>4. w \in Seq(Cands)
  BY <1>1, <1>3
<1> QED  BY <1>4 DEF w

\* A safety rating is a number.
LEMMA PercentIs == \A n \in 0 .. 100 : n \in Int
OBVIOUS

\* A safety rating stays one, whatever the penalty.
LEMMA SafetyIs == \A rating, penalty \in Int : SafetyAfter(rating, penalty) \in 0 .. 100
<1> SUFFICES ASSUME NEW rating \in Int, NEW penalty \in Int PROVE SafetyAfter(rating, penalty) \in 0 .. 100
  OBVIOUS
<1> DEFINE n == rating - penalty
<1>1. n \in Int /\ SafetyAfter(rating, penalty) = Clamp(n, 20, 100)
  BY DEF SafetyAfter
<1> HIDE DEF n
<1> QED  BY <1>1 DEF Clamp, Most, Least

\* A candidate with another safety rating is one.
LEMMA WithSafety ==
    ASSUME NEW c \in Cands, NEW n \in 0 .. 100, NEW x \in BOOLEAN
    PROVE  [c EXCEPT !.safety = n, !.risk = x] \in Cands
BY DEF Cands

\* Candidates after the weather, or the air, are candidates.
LEMMA RoughIs ==
    ASSUME NEW area, NEW penalty \in Int, NEW risky \in BOOLEAN, NEW v \in Seq(Cands)
    PROVE  [i \in DOMAIN v |-> Rough(area, penalty, risky, v[i])] \in Seq(Cands)
<1> DEFINE w == [i \in DOMAIN v |-> Rough(area, penalty, risky, v[i])]
<1>1. Len(v) \in Nat /\ DOMAIN v = 1 .. Len(v) /\ \A i \in 1 .. Len(v) : v[i] \in Cands
  OBVIOUS
<1>2. \A c \in Cands : Rough(area, penalty, risky, c) \in Cands
  <2> SUFFICES ASSUME NEW c \in Cands PROVE Rough(area, penalty, risky, c) \in Cands
    OBVIOUS
  <2>1. c.safety \in Int
    <3>1. c.safety \in 0 .. 100
      BY DEF Cands
    <3> QED  BY <3>1, PercentIs, Zenon
  <2> DEFINE n == SafetyAfter(c.safety, penalty)  x == c.risk \/ risky
  <2>2. n \in 0 .. 100 /\ x \in BOOLEAN
    BY <2>1, SafetyIs
  <2>3. Rough(area, penalty, risky, c) =
           IF [lat |-> c.lat, lng |-> c.lng] \notin area THEN c ELSE [c EXCEPT !.safety = n, !.risk = x]
    BY Zenon DEF Rough
  <2> HIDE DEF n, x
  <2>4. [c EXCEPT !.safety = n, !.risk = x] \in Cands
    BY <2>2, WithSafety
  <2> QED  BY <2>3, <2>4
<1>3. w \in [1 .. Len(v) -> Cands]
  BY <1>1, <1>2
<1> HIDE DEF w
<1>4. w \in Seq(Cands)
  BY <1>1, <1>3
<1> QED  BY <1>4 DEF w

\* Penalties are numbers.
LEMMA PenaltiesAre == \A x : WeatherPenalty(x) \in Int /\ AirPenalty(x) \in Int
BY DEF WeatherPenalty, AirPenalty

\* Candidates with scores of 0 to 100.
Scored(v) == \A i \in DOMAIN v : v[i].score \in 0 .. 100

\* A candidate with another score and time is one.
LEMMA WithRank ==
    ASSUME NEW c \in Cands, NEW n \in Int, NEW m \in Int
    PROVE  [c EXCEPT !.score = n, !.eta = m] \in Cands /\ [c EXCEPT !.score = n, !.eta = m].score = n
BY DEF Cands

\* Rated candidates have scores between 0 and 100.
LEMMA RatedAre ==
    ASSUME NEW a \in Analyses, NEW v \in Seq(Cands)
    PROVE  LET w == [i \in DOMAIN v |-> [v[i] EXCEPT !.score = Score(v[i]), !.eta = v[i].along * Pace[a.mode]]]
           IN  w \in Seq(Cands) /\ Scored(w)
<1> DEFINE pace == Pace[a.mode]
           w == [i \in DOMAIN v |-> [v[i] EXCEPT !.score = Score(v[i]), !.eta = v[i].along * pace]]
<1>1. Len(v) \in Nat /\ DOMAIN v = 1 .. Len(v) /\ \A i \in 1 .. Len(v) : v[i] \in Cands
  OBVIOUS
<1>2. pace \in Nat
  <2>1. a.mode \in DOMAIN Pace
    BY AnalysisIs
  <2> QED  BY <2>1 DEF Pace
<1> DEFINE rated(c) == [c EXCEPT !.score = Score(c), !.eta = c.along * pace]
<1> HIDE DEF pace
<1>3. \A c \in Cands : rated(c) \in Cands /\ rated(c).score \in 0 .. 100
  <2> SUFFICES ASSUME NEW c \in Cands PROVE rated(c) \in Cands /\ rated(c).score \in 0 .. 100
    OBVIOUS
  <2> DEFINE n == Score(c)  m == c.along * pace
  <2>1. c.along \in Int
    BY DEF Cands
  <2>2. n \in 0 .. 100 /\ n \in Int /\ m \in Int
    <3>1. n \in 0 .. 100
      BY ScoresAre
    <3>2. m \in Int
      BY <1>2, <2>1
    <3> QED  BY <3>1, <3>2, PercentIs, Zenon
  <2> HIDE DEF n, m
  <2>3. [c EXCEPT !.score = n, !.eta = m] \in Cands /\ [c EXCEPT !.score = n, !.eta = m].score = n
    BY <2>2, WithRank
  <2> QED  BY <2>2, <2>3 DEF n, m
<1>4. w = [i \in DOMAIN v |-> rated(v[i])]
  OBVIOUS
<1> HIDE DEF w, rated
<1>5. w \in [1 .. Len(v) -> Cands] /\ \A i \in DOMAIN w : w[i].score \in 0 .. 100
  BY <1>1, <1>3, <1>4
<1>6. w \in Seq(Cands)
  BY <1>1, <1>5
<1> QED  BY <1>5, <1>6 DEF Scored, w, pace

\* A point that is moved has the score it had.
LEMMA WithPlace ==
    ASSUME NEW c \in Cands, NEW n \in Int
    PROVE  [c EXCEPT !.lat = n] \in Cands /\ [c EXCEPT !.lat = n].score = c.score
BY DEF Cands

\* Points that the roads service moved keep their scores.
LEMMA ShiftedAre ==
    ASSUME NEW v \in Seq(Cands), Scored(v), NEW shift \in Int, NEW answered \in Int
    PROVE  LET w == [i \in DOMAIN v |-> IF i <= answered THEN [v[i] EXCEPT !.lat = @ + shift] ELSE v[i]]
           IN  w \in Seq(Cands) /\ Scored(w)
<1> DEFINE w == [i \in DOMAIN v |-> IF i <= answered THEN [v[i] EXCEPT !.lat = @ + shift] ELSE v[i]]
           moved(c) == [c EXCEPT !.lat = c.lat + shift]
<1>1. Len(v) \in Nat /\ DOMAIN v = 1 .. Len(v) /\ \A i \in 1 .. Len(v) : v[i] \in Cands
  OBVIOUS
<1>2. \A c \in Cands : moved(c) \in Cands /\ moved(c).score = c.score
  <2> SUFFICES ASSUME NEW c \in Cands PROVE moved(c) \in Cands /\ moved(c).score = c.score
    OBVIOUS
  <2> DEFINE n == c.lat + shift
  <2>1. n \in Int
    BY PlacedAre DEF Placed
  <2> HIDE DEF n
  <2>2. [c EXCEPT !.lat = n] \in Cands /\ [c EXCEPT !.lat = n].score = c.score
    BY <2>1, WithPlace
  <2> QED  BY <2>2 DEF n
<1>3. w = [i \in DOMAIN v |-> IF i <= answered THEN moved(v[i]) ELSE v[i]]
  OBVIOUS
<1>4. \A i \in 1 .. Len(v) : v[i].score \in 0 .. 100
  BY <1>1 DEF Scored
<1> HIDE DEF w, moved
<1>5. w \in [1 .. Len(v) -> Cands] /\ \A i \in 1 .. Len(v) : w[i].score = v[i].score
  BY <1>1, <1>2, <1>3
<1>6. w \in Seq(Cands) /\ DOMAIN w = 1 .. Len(v)
  BY <1>1, <1>5
<1>7. Scored(w)
  BY <1>4, <1>5, <1>6 DEF Scored
<1> QED  BY <1>6, <1>7 DEF w

\* What an area holds.
LEMMA AreaIs ==
    ASSUME NEW count \in Nat, NEW area \in Nat
    PROVE  EstimateReachableFromArea(count, area) \in Nat
<1> DEFINE share == Least(10000, 65 * Least(250, area))
           n == count * share
<1>1. share \in Nat
  <2>1. Least(250, area) \in Nat
    BY DEF Least
  <2> DEFINE x == 65 * Least(250, area)
  <2>2. x \in Nat
    BY <2>1
  <2> HIDE DEF x
  <2>3. Least(10000, x) \in Nat
    BY <2>2 DEF Least
  <2> QED  BY <2>3 DEF x
<1>2. EstimateReachableFromArea(count, area) = IF area <= 0 \/ count <= 0 THEN 0 ELSE RoundDiv(n, 10000)
  BY DEF EstimateReachableFromArea
<1> HIDE DEF share
<1>3. n \in Nat
  BY <1>1, TimesMonotone
<1> HIDE DEF n
<1>4. RoundDiv(n, 10000) \in Nat
  BY <1>3, RoundGrows
<1> QED  BY <1>2, <1>4

\* A candidate with a reachable area is one.
LEMMA WithReach ==
    ASSUME NEW c \in Cands, NEW n \in Nat, NEW x \in BOOLEAN
    PROVE  [c EXCEPT !.reach = n, !.ok = x] \in Cands
<1>1. n \in OrUnknown(Nat)
  BY DEF OrUnknown
<1> QED  BY <1>1 DEF Cands

\* Whatever the isochrone calls bring, it is one.
LEMMA ReachIs ==
    ASSUME NEW c \in Cands, NEW got \in ReachOutcomes
    PROVE  Reachability(c, got) \in Cands
<1> DEFINE inside == IF ~got.rider THEN c.count
                     ELSE IF got.inside = Unknown THEN EstimateReachableFromArea(c.count, got.area)
                     ELSE Least(20, got.inside)
           x == got.rider \/ got.walk
<1>1. got.inside \in OrUnknown(Nat) /\ got.area \in Nat
  BY AnswersAssumption
<1>2. c.count \in Nat
  BY DEF Cands
<1>3. inside \in Nat
  <2>1. EstimateReachableFromArea(c.count, got.area) \in Nat
    BY <1>1, <1>2, AreaIs
  <2>2. got.inside # Unknown => Least(20, got.inside) \in Nat
    BY <1>1 DEF OrUnknown, Least
  <2> QED  BY <1>2, <2>1, <2>2
<1>4. Reachability(c, got) = [c EXCEPT !.reach = inside, !.ok = x]
  BY Zenon DEF Reachability
<1>5. x \in BOOLEAN
  OBVIOUS
<1> HIDE DEF inside, x
<1> QED  BY <1>3, <1>4, <1>5, WithReach

\* The second score, and what it was before the area was known.
Judged(v) == \A i \in DOMAIN v : v[i].ok /\ v[i].reach = 0 => v[i].score <= Score([v[i] EXCEPT !.ok = FALSE])

\* A candidate with another score differs in nothing else.
LEMMA WithScore ==
    ASSUME NEW c \in Cands, NEW n \in Int
    PROVE  LET e == [c EXCEPT !.score = n]
           IN  /\ e \in Cands /\ e.score = n /\ e.count = c.count /\ e.reach = c.reach /\ e.ok = c.ok
               /\ e.dwell = c.dwell /\ e.safety = c.safety /\ e.type = c.type
BY DEF Cands

\* The second score is between 0 and 100, and not above what it would be without an
\* area if no restaurant is in it.
LEMMA RescoredIs ==
    ASSUME NEW c \in Cands
    PROVE  LET e == Rescored(c)
           IN  /\ e \in Cands /\ e.score \in 0 .. 100
               /\ e.ok /\ e.reach = 0 => e.score <= Score([e EXCEPT !.ok = FALSE])
<1> DEFINE e == [c EXCEPT !.score = Score(c)]
<1>1. Score(c) \in 0 .. 100 /\ Score(c) \in Int
  BY ScoresAre, PercentIs, Zenon
<1>2. /\ e \in Cands /\ e.score = Score(c) /\ e.count = c.count /\ e.reach = c.reach /\ e.ok = c.ok
      /\ e.dwell = c.dwell /\ e.safety = c.safety /\ e.type = c.type
  BY <1>1, WithScore
<1> HIDE DEF e
<1>3. Score(e) = Score(c)
  <2>1. Base(e) = Base(c) /\ Known(e) = Known(c)
    BY <1>2 DEF Base, Known
  <2>2. Dense(e) = Dense(c) /\ Shared(e) = Shared(c)
    BY <1>2, <2>1 DEF Dense, Shared
  <2>3. Shares(e) = Shares(c)
    BY <1>2, <2>1, <2>2 DEF Shares
  <2> QED  BY <2>1, <2>3, ScoreIs
<1>4. e.ok /\ e.reach = 0 => Score(e) <= Score([e EXCEPT !.ok = FALSE])
  BY <1>2, EmptyIsWorse
<1>5. Rescored(c) = e
  BY DEF Rescored, e
<1>6. e.score \in 0 .. 100 /\ (e.ok /\ e.reach = 0 => e.score <= Score([e EXCEPT !.ok = FALSE]))
  BY <1>1, <1>2, <1>3, <1>4, Zenon
<1> QED  BY <1>2, <1>5, <1>6, Zenon

\* So it is for all points chosen.
LEMMA ReachedAre ==
    ASSUME NEW v \in Seq(Cands), NEW got \in [DOMAIN v -> ReachOutcomes]
    PROVE  LET w == [i \in DOMAIN v |-> Rescored(Reachability(v[i], got[i]))]
           IN  w \in Seq(Cands) /\ Scored(w) /\ Judged(w) /\ Len(w) = Len(v) /\ DOMAIN w = DOMAIN v
<1> DEFINE w == [i \in DOMAIN v |-> Rescored(Reachability(v[i], got[i]))]
           fine(e) == e.score \in 0 .. 100 /\ (e.ok /\ e.reach = 0 => e.score <= Score([e EXCEPT !.ok = FALSE]))
<1>1. Len(v) \in Nat /\ DOMAIN v = 1 .. Len(v) /\ \A i \in 1 .. Len(v) : v[i] \in Cands /\ got[i] \in ReachOutcomes
  OBVIOUS
<1>2. \A i \in 1 .. Len(v) : Rescored(Reachability(v[i], got[i])) \in Cands /\ fine(Rescored(Reachability(v[i], got[i])))
  <2> SUFFICES ASSUME NEW i \in 1 .. Len(v)
               PROVE  Rescored(Reachability(v[i], got[i])) \in Cands /\ fine(Rescored(Reachability(v[i], got[i])))
    OBVIOUS
  <2>1. Reachability(v[i], got[i]) \in Cands
    BY <1>1, ReachIs
  <2> QED  BY <2>1, RescoredIs, Zenon
<1> HIDE DEF fine
<1>3. w \in [1 .. Len(v) -> Cands] /\ \A i \in 1 .. Len(v) : fine(w[i])
  BY <1>1, <1>2
<1> HIDE DEF w
<1>4. w \in Seq(Cands) /\ DOMAIN w = 1 .. Len(v) /\ Len(w) = Len(v)
  BY <1>1, <1>3
<1>5. Scored(w) /\ Judged(w)
  BY <1>3, <1>4, Zenon DEF Scored, Judged, fine
<1> QED  BY <1>1, <1>4, <1>5 DEF w

----------------------------------------------------------------------------
\* What an analysis knows, by how far it is.
SearchInv ==
    /\ analysis \in Analyses /\ candidates \in Seq(Cands) /\ chosen \in Seq(Cands)
    /\ stage = "counts" => OnRoute(analysis, candidates) /\ Clear(candidates)
    /\ stage = "snap" => ChoiceIsOf(candidates, IntervalMeters, chosen)
    /\ stage \in {"snap", "reach", "done"} => Scored(chosen)
    /\ stage = "done" => Judged(chosen)

\* The invariant of the search says what is checked.
LEMMA SearchKeeps == SearchInv => SearchIsSound
<1> SUFFICES ASSUME SearchInv PROVE SearchIsSound
  OBVIOUS
<1>0. candidates \in Seq(Cands)
  BY DEF SearchInv
<1>1. CandidatesAreOnRoute
  BY Zenon DEF SearchInv, CandidatesAreOnRoute, OnRoute, Clear
<1>2. ChoiceIsBest
  <2>1. HeapIsSort(candidates)
    BY <1>0, ComparableAre, HeapSorts
  <2> QED  BY <2>1 DEF SearchInv, ChoiceIsBest
<1>3. ScoresAreSound
  BY Zenon DEF SearchInv, ScoresAreSound, Scored, Judged
<1> QED  BY <1>1, <1>2, <1>3 DEF SearchIsSound

\* An analysis that goes on with other candidates.
LEMMA StageStep ==
    ASSUME SearchInv, NEW from, NEW to \in {"traffic", "weather", "air", "rank"}, NEW v \in Seq(Cands), Stage(from, to, v)
    PROVE  SearchInv'
<1>1. analysis' = analysis /\ chosen' = chosen /\ candidates' = v /\ stage' = to
  BY DEF Stage
<1> QED  BY <1>1 DEF SearchInv

\* The handoff points of a route, for any routes, answers and failures: candidates
\* lie on the route and fallbacks apart from it; the points chosen are few, apart
\* from each other and none better was left out; and an area without a restaurant
\* never raises a score (services/intercept, packages/shared).
THEOREM PointsAreWellChosen == SearchSpec => []SearchIsSound
<1>1. SearchInit => SearchInv
  BY DEF SearchInit, SearchInv
<1>2. SearchInv /\ [SearchNext]_searchVars => SearchInv'
  <2> SUFFICES ASSUME SearchInv, [SearchNext]_searchVars PROVE SearchInv'
    OBVIOUS
  <2>0. analysis \in Analyses /\ candidates \in Seq(Cands) /\ chosen \in Seq(Cands)
    BY DEF SearchInv
  <2>1. ASSUME Extract PROVE SearchInv'
    <3> DEFINE v == ExtractCandidates(analysis)
    <3>1. stage' = "counts" /\ candidates' = v /\ analysis' = analysis /\ chosen' = chosen
      BY <2>1 DEF Extract, Stage
    <3>2. v \in Seq(Cands) /\ OnRoute(analysis, v) /\ Clear(v)
      BY <2>0, CandidatesAre
    <3> HIDE DEF v
    <3> QED  BY <2>0, <3>1, <3>2 DEF SearchInv
  <2>2. ASSUME CountRestaurantsForPoints PROVE SearchInv'
    <3>1. PICK survey \in Surveys :
             Stage("counts", "traffic", [i \in DOMAIN candidates |-> [candidates[i] EXCEPT !.count = ResolveCount(survey, candidates[i])]])
      BY <2>2, Zenon DEF CountRestaurantsForPoints, Each
    <3> QED  BY <2>0, <3>1, CountsAre, StageStep
  <2>3. ASSUME TollsAndTraffic PROVE SearchInv'
    <3> DEFINE m == MergeTollCandidates(candidates, analysis)
               v == [i \in DOMAIN m |-> [m[i] EXCEPT !.dwell = AdjustDwellForTraffic(m[i], analysis)]]
    <3>1. Stage("traffic", "weather", IF candidates = <<>> THEN <<>> ELSE v)
      BY <2>3, Zenon DEF TollsAndTraffic, Each
    <3>2. m \in Seq(Cands)
      BY <2>0, TollsAre
    <3> HIDE DEF m
    <3>3. v \in Seq(Cands)
      BY <2>0, <3>2, DwellsAre
    <3> HIDE DEF v
    <3>4. (IF candidates = <<>> THEN <<>> ELSE v) \in Seq(Cands)
      BY <3>3
    <3> QED  BY <3>1, <3>4, StageStep
  <2>4. ASSUME Weather PROVE SearchInv'
    <3>1. PICK area \in RoughAreas, sky \in Skies :
             Stage("weather", "air", [i \in DOMAIN candidates |-> Rough(area, WeatherPenalty(sky), sky.alert, candidates[i])])
      BY <2>4, Zenon DEF Weather, Each
    <3>2. WeatherPenalty(sky) \in Int /\ sky.alert \in BOOLEAN
      BY PenaltiesAre, AnswersAssumption
    <3> QED  BY <2>0, <3>1, <3>2, RoughIs, StageStep
  <2>5. ASSUME AirAndPollen PROVE SearchInv'
    <3>1. PICK area \in RoughAreas, air \in Airs :
             Stage("air", "rank", [i \in DOMAIN candidates |-> Rough(area, AirPenalty(air), AirPenalty(air) > 0, candidates[i])])
      BY <2>5, Zenon DEF AirAndPollen, Each
    <3> DEFINE risky == AirPenalty(air) > 0
    <3>2. AirPenalty(air) \in Int /\ risky \in BOOLEAN
      BY PenaltiesAre
    <3>3. Stage("air", "rank", [i \in DOMAIN candidates |-> Rough(area, AirPenalty(air), risky, candidates[i])])
      BY <3>1
    <3> HIDE DEF risky
    <3> QED  BY <2>0, <3>2, <3>3, RoughIs, StageStep
  <2>6. ASSUME Rank PROVE SearchInv'
    <3> DEFINE v == [i \in DOMAIN candidates |->
                        [candidates[i] EXCEPT !.score = Score(candidates[i]), !.eta = candidates[i].along * Pace[analysis.mode]]]
               w == FilterAndRankPoints(v, IntervalMeters)
    <3>1. /\ stage' = "snap" /\ candidates' = v /\ chosen' = FilterAndRankPoints(candidates', IntervalMeters)
          /\ analysis' = analysis
      BY <2>6, Zenon DEF Rank, Each
    <3>2. v \in Seq(Cands) /\ Scored(v)
      BY <2>0, RatedAre
    <3> HIDE DEF v
    <3>3. IntervalMeters \in Nat /\ GridFits(IntervalMeters)
      BY SearchAssumption, GridAssumption DEF GridFits
    <3>4. w \in Seq(Cands) /\ ToSet(w) \subseteq ToSet(v) /\ ChoiceIsOf(v, IntervalMeters, w)
      BY <3>2, <3>3, ComparableAre, PlacedAre, ChoiceIs
    <3>5. chosen' = w
      BY <3>1
    <3> HIDE DEF w
    <3>6. Scored(w)
      BY <3>2, <3>4 DEF Scored, ToSet
    <3> QED  BY <2>0, <3>1, <3>2, <3>4, <3>5, <3>6 DEF SearchInv
  <2>7. ASSUME SnapChosen PROVE SearchInv'
    <3>1. PICK shift \in SnapShifts, answered \in 0 .. Len(chosen) :
             chosen' = [i \in DOMAIN chosen |-> IF i <= answered THEN [chosen[i] EXCEPT !.lat = @ + shift] ELSE chosen[i]]
      BY <2>7 DEF SnapChosen
    <3>2. shift \in Int /\ answered \in Int /\ Scored(chosen)
      BY <2>0, <2>7, SearchAssumption DEF SearchInv, SnapChosen
    <3>3. chosen' \in Seq(Cands) /\ Scored(chosen')
      BY <2>0, <3>1, <3>2, ShiftedAre
    <3>4. stage' = "reach" /\ candidates' = candidates /\ analysis' = analysis
      BY <2>7 DEF SnapChosen
    <3> QED  BY <2>0, <3>3, <3>4 DEF SearchInv, Scored
  <2>8. ASSUME AttachIsochroneReachability PROVE SearchInv'
    <3>1. PICK got \in [DOMAIN chosen -> ReachOutcomes] :
             chosen' = [i \in DOMAIN chosen |-> Rescored(Reachability(chosen[i], got[i]))]
      BY <2>8 DEF AttachIsochroneReachability
    <3> DEFINE w == [i \in DOMAIN chosen |-> Rescored(Reachability(chosen[i], got[i]))]
    <3>2. w \in Seq(Cands) /\ Scored(w) /\ Judged(w)
      BY <2>0, ReachedAre
    <3>3. chosen' = w /\ stage' = "done" /\ candidates' = candidates /\ analysis' = analysis
      BY <2>8, <3>1 DEF AttachIsochroneReachability
    <3> HIDE DEF w
    <3> QED  BY <2>0, <3>2, <3>3 DEF SearchInv, Scored, Judged
  <2>9. CASE UNCHANGED searchVars
    BY <2>9 DEF searchVars, SearchInv, Scored, Judged, OnRoute, Clear, ChoiceIsOf
  <2> QED
    BY <2>1, <2>2, <2>3, <2>4, <2>5, <2>6, <2>7, <2>8, <2>9 DEF SearchNext
<1>3. SearchInv => SearchIsSound
  BY SearchKeeps
<1> QED  BY <1>1, <1>2, <1>3, PTL DEF SearchSpec

\* The stations of a train.
Rows == [code : DOMAIN StationPlaces, arr : ClockTimes, dep : ClockTimes, halt : Nat, platform : BOOLEAN]

\* What a run and a traveller have.
LEMMA RunIs ==
    ASSUME run \in Runs, traveller \in Travellers
    PROVE  /\ run \in Seq(Rows) /\ Len(run) \in Nat /\ DOMAIN run = 1 .. Len(run)
           /\ \A i \in DOMAIN run : run[i] \in Rows /\ run[i].code \in DOMAIN StationPlaces
           /\ traveller.from \in Points /\ traveller.to \in Points /\ traveller.now \in Nat
           /\ Nothing \notin Int
<1>1. run \in Seq(Rows)
  BY RunsAssumption DEF Rows
<1>2. Len(run) \in Nat /\ DOMAIN run = 1 .. Len(run) /\ \A i \in DOMAIN run : run[i] \in Rows
  BY <1>1
<1>3. \A r \in Rows : r.code \in DOMAIN StationPlaces
  BY DEF Rows
<1>4. traveller \in [from : Points, to : Points, now : Nat] /\ Nothing \notin Int
  BY RunsAssumption
<1> QED  BY <1>1, <1>2, <1>3, <1>4

\* What a station's times and halt are.
LEMMA RowIs ==
    ASSUME NEW r \in Rows
    PROVE  /\ Minute(r.arr) \in {Nothing} \union Nat /\ Minute(r.dep) \in {Nothing} \union Nat
           /\ HaltSeconds(r) \in Nat
<1>1. r.arr \in ClockTimes /\ r.dep \in ClockTimes /\ r.halt \in Nat
  BY DEF Rows
<1>2. \A t \in ClockTimes : Minute(t) \in {Nothing} \union Nat
  <2> SUFFICES ASSUME NEW t \in ClockTimes, t # Nothing PROVE Minute(t) \in Nat
    BY DEF Minute
  <2>1. t.minute \in Nat
    BY DEF ClockTimes
  <2>2. t.minute % 1440 \in Nat
    BY <2>1
  <2> QED  BY <2>1, <2>2 DEF Minute
<1> DEFINE a == Minute(r.arr)  d == Minute(r.dep)
<1>3. a \in {Nothing} \union Nat /\ d \in {Nothing} \union Nat
  BY <1>1, <1>2
<1>4. HaltSeconds(r) = IF a # Nothing /\ d # Nothing /\ d > a THEN (d - a) * 60 ELSE IF r.halt = 0 THEN 120 ELSE r.halt * 60
  BY DEF HaltSeconds
<1> HIDE DEF a, d
<1>5. HaltSeconds(r) \in Nat
  BY <1>1, <1>3, <1>4
<1> QED  BY <1>3, <1>5 DEF a, d

\* A station's time ahead is a number of seconds from now, or none.
LEMMA EtaIs ==
    ASSUME run \in Runs, traveller \in Travellers, NEW r \in Rows
    PROVE  /\ EtaSeconds(r) \in {Nothing} \union Nat
           /\ EtaSeconds(r) # Nothing => /\ Minute(r.dep) \in Nat
                                         /\ EtaSeconds(r) = Most(0, Minute(r.dep) - traveller.now) * 60
<1> DEFINE d == Minute(r.dep)  now == traveller.now
<1>1. d \in {Nothing} \union Nat /\ now \in Nat
  BY RowIs, RunIs
<1>2. EtaSeconds(r) = IF d = Nothing \/ Passed(r) THEN Nothing ELSE Most(0, d - now) * 60
  BY DEF EtaSeconds
<1>3. d \in Nat => Most(0, d - now) * 60 \in Nat
  BY <1>1 DEF Most
<1> HIDE DEF d, now
<1>4. EtaSeconds(r) \in {Nothing} \union Nat
  BY <1>1, <1>2, <1>3
<1>5. EtaSeconds(r) # Nothing => d \in Nat /\ EtaSeconds(r) = Most(0, d - now) * 60
  BY <1>1, <1>2
<1> QED  BY <1>4, <1>5 DEF d, now

\* The part of a run between two of its stations.
Windows == {w \in (DOMAIN run) \X (DOMAIN run) : w[1] <= w[2]}

\* A stretch lists its stations.
LEMMA StretchIs ==
    ASSUME NEW from \in Nat, NEW to \in Nat, from <= to
    PROVE  Stretch(<<from, to>>) \in Seq(Int) /\ ToSet(Stretch(<<from, to>>)) = from .. to
<1> DEFINE n == to - from + 1  s == Stretch(<<from, to>>)
<1>1. n \in Nat /\ n = to - from + 1
  OBVIOUS
<1>2. s = [i \in 1 .. n |-> from + i - 1]
  BY Zenon DEF Stretch
<1> HIDE DEF n, s
<1>3. s \in Seq(Int) /\ DOMAIN s = 1 .. n
  BY <1>1, <1>2
<1>4. ToSet(s) = {s[i] : i \in 1 .. n}
  BY <1>3 DEF ToSet
<1>5. ASSUME NEW x \in from .. to PROVE x \in ToSet(s)
  <2> DEFINE i == x - from + 1
  <2>1. i \in 1 .. n /\ from + i - 1 = x
    BY <1>1
  <2> HIDE DEF i
  <2> QED  BY <1>2, <1>4, <2>1
<1>6. ASSUME NEW x \in ToSet(s) PROVE x \in from .. to
  <2>1. PICK i \in 1 .. n : x = s[i]
    BY <1>4
  <2>2. s[i] = from + i - 1
    BY <1>2
  <2> QED  BY <1>1, <2>1, <2>2
<1> QED  BY <1>3, <1>5, <1>6 DEF s

\* Some stations of a stretch are listed in their order.
LEMMA SomeOf ==
    ASSUME NEW from \in Nat, NEW to \in Nat, from <= to, NEW Z
    PROVE  LET list == Only(Stretch(<<from, to>>), Z)
           IN  list \in Seq(Int) /\ ToSet(list) = (from .. to) \intersect Z
<1>1. Stretch(<<from, to>>) \in Seq(Int) /\ ToSet(Stretch(<<from, to>>)) = from .. to
  BY StretchIs
<1> DEFINE s == Stretch(<<from, to>>)
<1> HIDE DEF s
<1>2. s \in Seq(Int) /\ ToSet(s) = from .. to
  BY <1>1 DEF s
<1>3. Only(s, Z) \in Seq(Int) /\ ToSet(Only(s, Z)) = ToSet(s) \intersect Z
  BY <1>2, OnlyIs
<1> QED  BY <1>2, <1>3, Zenon DEF s

\* Places of stations, where some may not be found.
PlacesOf(places) == \A i \in DOMAIN run : places[i] \in Points \union {Nothing}

\* A distance squared is not negative.
LEMMA Apart2Is == \A p, q \in Points : Apart2(p, q) \in Nat
<1> SUFFICES ASSUME NEW p \in Points, NEW q \in Points PROVE Apart2(p, q) \in Nat
  OBVIOUS
<1> DEFINE x == p.lat - q.lat  y == p.lng - q.lng
<1>1. x \in Int /\ y \in Int /\ Apart2(p, q) = x * x + y * y
  BY PointIs DEF Apart2
<1> HIDE DEF x, y
<1>2. x * x \in Nat /\ y * y \in Nat
  BY <1>1, SquareIsNat
<1> QED  BY <1>1, <1>2

\* Some station with a place is nearest.
LEMMA NearestIs ==
    ASSUME run \in Runs, traveller \in Travellers, NEW places, DOMAIN places = DOMAIN run, PlacesOf(places),
           NEW p \in Points, \E i \in DOMAIN run : places[i] # Nothing
    PROVE  NearestTo(p, places) \in DOMAIN run
<1> DEFINE known == {i \in DOMAIN places : places[i] # Nothing}
           D == {Apart2(p, places[i]) : i \in known}
           S == {i \in known : \A j \in known : Apart2(p, places[i]) <= Apart2(p, places[j])}
<1>1. \A i \in known : places[i] \in Points /\ Apart2(p, places[i]) \in Nat
  BY Apart2Is DEF PlacesOf
<1>2. NearestTo(p, places) = Min(S)
  BY DEF NearestTo
<1>3. known # {} /\ known \subseteq DOMAIN run /\ DOMAIN run \subseteq Nat
  BY RunIs
<1> HIDE DEF known
<1>4. PICK d \in D : \A e \in D : d <= e
  <2>1. D \in SUBSET Nat /\ D # {}
    BY <1>1, <1>3
  <2> HIDE DEF D
  <2> QED  BY <2>1, LeastOne
<1>5. S # {} /\ S \in SUBSET Nat
  BY <1>3, <1>4
<1> HIDE DEF S
<1>6. Min(S) \in S
  BY <1>5, MinIs
<1> QED  BY <1>2, <1>3, <1>6 DEF S

\* The ends of a stretch are in order.
LEMMA EndsAre ==
    ASSUME NEW a \in Nat, NEW b \in Nat
    PROVE  Min({a, b}) \in {a, b} /\ Max({a, b}) \in {a, b} /\ Min({a, b}) <= Max({a, b})
<1> DEFINE S == {a, b}
<1>1. S \in SUBSET Nat /\ S # {}
  OBVIOUS
<1>2. Min(S) \in S
  BY <1>1, MinIs
<1>3. Max(S) \in S /\ \A x \in S : x <= Max(S)
  <2>1. \E x \in S : \A y \in S : y <= x
    OBVIOUS
  <2> HIDE DEF S
  <2> QED  BY <1>1, <2>1 DEF Max
<1> HIDE DEF S
<1>4. Min(S) <= Max(S)
  BY <1>2, <1>3
<1> QED  BY <1>2, <1>3, <1>4 DEF S

\* The window is a stretch of the run, found by the places or the whole of it.
LEMMA WindowIs ==
    ASSUME run \in Runs, traveller \in Travellers, run # <<>>,
           NEW places, DOMAIN places = DOMAIN run, PlacesOf(places)
    PROVE  LET w == IF \A i \in DOMAIN run : places[i] = Nothing THEN <<1, Len(run)>> ELSE SelectStationWindow(places)
           IN  w \in Windows
<1>0. Len(run) \in Nat \ {0} /\ DOMAIN run = 1 .. Len(run) /\ DOMAIN run \subseteq Nat
      /\ traveller.from \in Points /\ traveller.to \in Points
  <2>1. run \in Seq(Rows) /\ traveller.from \in Points /\ traveller.to \in Points
    BY RunIs
  <2> QED  BY <2>1
<1>1. <<1, Len(run)>> \in Windows
  BY <1>0 DEF Windows
<1>2. ASSUME \E i \in DOMAIN run : places[i] # Nothing PROVE SelectStationWindow(places) \in Windows
  <2> DEFINE a == NearestTo(traveller.from, places)  b == NearestTo(traveller.to, places)
  <2>1. a \in DOMAIN run /\ b \in DOMAIN run
    BY <1>0, <1>2, NearestIs
  <2>2. SelectStationWindow(places) = <<Min({a, b}), Max({a, b})>>
    BY DEF SelectStationWindow
  <2> HIDE DEF a, b
  <2>3. Min({a, b}) \in {a, b} /\ Max({a, b}) \in {a, b} /\ Min({a, b}) <= Max({a, b})
    BY <1>0, <2>1, EndsAre
  <2> DEFINE x == Min({a, b})  y == Max({a, b})
  <2> HIDE DEF x, y
  <2>4. x \in DOMAIN run /\ y \in DOMAIN run /\ x <= y
    BY <2>1, <2>3 DEF x, y
  <2>5. <<x, y>> \in Windows
    BY <2>4 DEF Windows
  <2> QED  BY <2>2, <2>5 DEF x, y
<1> QED  BY <1>1, <1>2

\* The journey that is planned.
IsPlan(p) == p = [from |-> p.from, to |-> p.to, duration |-> p.duration, offered |-> p.offered]

Planned ==
    /\ IsPlan(plan) /\ DOMAIN located = DOMAIN run /\ PlacesOf(located)
    /\ plan.from \in DOMAIN run /\ plan.to \in DOMAIN run /\ plan.from <= plan.to
    /\ Len(RoutePoints(<<plan.from, plan.to>>, located)) >= 2
    /\ plan.duration = RideDuration(<<plan.from, plan.to>>, located)

\* A candidate that is a station of the journey where the train still halts.
IsStation(c) ==
    /\ c.station \in plan.from .. plan.to /\ CanHandOver(c.station)
    /\ EtaSeconds(run[c.station]) \in {Nothing, c.eta}

OfStation(c, n, m, i) == [c EXCEPT !.score = n, !.eta = m, !.station = i]

\* What a station's point is.
LEMMA WithStation ==
    ASSUME NEW c \in Cands, NEW n \in Int, NEW m \in Int, NEW i \in Nat
    PROVE  OfStation(c, n, m, i) \in Cands /\ OfStation(c, n, m, i).station = i /\ OfStation(c, n, m, i).eta = m
<1>1. i \in OrUnknown(Nat)
  BY DEF OrUnknown
<1> QED  BY <1>1 DEF Cands, OfStation

\* The route of a planned journey starts at a place.
LEMMA FirstIs ==
    ASSUME run \in Runs, traveller \in Travellers, Planned
    PROVE  located[RoutePoints(<<plan.from, plan.to>>, located)[1]] \in Points
<1> DEFINE from == plan.from  to == plan.to
           Z == {i \in DOMAIN located : located[i] # Nothing}
           r == RoutePoints(<<from, to>>, located)
<1>1. from \in Nat /\ to \in Nat /\ from <= to /\ Len(r) >= 2
  BY RunIs DEF Planned
<1>2. r = Only(Stretch(<<from, to>>), Z)
  BY DEF RoutePoints
<1> HIDE DEF from, to, Z, r
<1>3. r \in Seq(Int) /\ ToSet(r) = (from .. to) \intersect Z
  BY <1>1, <1>2, SomeOf
<1>4. r[1] \in ToSet(r)
  <2>1. 1 \in DOMAIN r
    BY <1>1, <1>3
  <2> QED  BY <2>1, Zenon DEF ToSet
<1>5. r[1] \in Z
  BY <1>3, <1>4
<1>6. located[r[1]] \in Points
  BY <1>5 DEF Z, Planned, PlacesOf
<1> QED  BY <1>6 DEF r, from, to

\* The point of a station that can be handed over at is a candidate that names it.
LEMMA StationIs ==
    ASSUME run \in Runs, traveller \in Travellers, Planned,
           NEW i \in plan.from .. plan.to, CanHandOver(i), NEW count \in Nat
    PROVE  /\ StationPoint(i, count) \in Cands /\ IsStation(StationPoint(i, count))
<1> DEFINE first == located[RoutePoints(<<plan.from, plan.to>>, located)[1]]
           way == Leg(first, located[i])
           c0 == Candidate(located[i], "stop", HaltSeconds(run[i]), way, count)
           c == [c0 EXCEPT !.safety = 90]
           eta == IF EtaSeconds(run[i]) = Nothing THEN RoundDiv(way * 144, 10) ELSE EtaSeconds(run[i])
           n == Score(c) + (IF run[i].platform THEN 5 ELSE 0)
<1>1. StationPoint(i, count) = [c EXCEPT !.score = n, !.eta = eta, !.station = i]
  BY Zenon DEF StationPoint
<1>2. i \in DOMAIN run /\ i \in Nat /\ run[i] \in Rows /\ located[i] \in Points
  <2>1. Len(run) \in Nat /\ DOMAIN run = 1 .. Len(run) /\ plan.from \in DOMAIN run /\ plan.to \in DOMAIN run
    BY RunIs DEF Planned
  <2>2. i \in DOMAIN run /\ i \in Nat
    BY <2>1
  <2>3. located[i] # Nothing /\ located[i] \in Points \union {Nothing}
    BY <2>2 DEF CanHandOver, Planned, PlacesOf
  <2> QED  BY <2>2, <2>3, RunIs
<1>3. first \in Points
  BY FirstIs
<1> HIDE DEF first
<1>4. way \in Nat
  BY <1>2, <1>3, LegIs
<1> HIDE DEF way
<1>5. c0 \in Cands
  <2>1. "stop" \in DOMAIN TypeBonus /\ HaltSeconds(run[i]) \in Nat /\ way \in Int
    BY <1>2, <1>4, RowIs DEF TypeBonus
  <2> QED  BY <1>2, <2>1, CandidateIs
<1> HIDE DEF c0
<1>6. c \in Cands
  <2>1. \A x \in Cands : [x EXCEPT !.safety = 90] \in Cands
    BY DEF Cands
  <2> QED  BY <1>5, <2>1
<1> HIDE DEF c
<1>7. eta \in Nat /\ EtaSeconds(run[i]) \in {Nothing, eta}
  <2>1. EtaSeconds(run[i]) \in {Nothing} \union Nat
    BY <1>2, EtaIs
  <2>2. RoundDiv(way * 144, 10) \in Nat
    <3>1. way * 144 \in Nat
      BY <1>4
    <3> QED  BY <3>1, RoundGrows
  <2> QED  BY <2>1, <2>2
<1>8. n \in Int
  <2>1. Score(c) \in Int
    BY <1>6, ScoresAre, PercentIs, Zenon
  <2> QED  BY <2>1
<1> HIDE DEF eta, n
<1> DEFINE e == OfStation(c, n, eta, i)
<1>9. e \in Cands /\ e.station = i /\ e.eta = eta
  <2>1. eta \in Int
    BY <1>7
  <2> QED  BY <1>2, <1>6, <1>8, <2>1, WithStation
<1> HIDE DEF e
<1>10. IsStation(e)
  BY <1>7, <1>9 DEF IsStation
<1>11. StationPoint(i, count) = e
  BY <1>1 DEF e, OfStation
<1> QED  BY <1>9, <1>10, <1>11, Zenon

\* What is offered of the journey.
Offers(v) ==
    /\ v \in Seq(Cands) /\ \A k \in DOMAIN v : IsStation(v[k])
    /\ \A i, j \in DOMAIN v : i < j => ~Within(v[i], v[j], StationMeters)
    /\ (\E i \in plan.from .. plan.to : CanHandOver(i)) => v # <<>>

\* The points chosen are stations of the stretch to be handed over at, apart from
\* each other, and some if there are any.
LEMMA OffersAre ==
    ASSUME run \in Runs, traveller \in Travellers, Planned, NEW survey \in Surveys
    PROVE  LET able   == Only(Stretch(<<plan.from, plan.to>>), {i \in DOMAIN run : CanHandOver(i)})
               points == [k \in DOMAIN able |-> StationPoint(able[k], ResolveCount(survey, located[able[k]]))]
           IN  Offers(FilterAndRankPoints(points, StationMeters))
<1> DEFINE from == plan.from  to == plan.to
           Z == {i \in DOMAIN run : CanHandOver(i)}
           able == Only(Stretch(<<from, to>>), Z)
           point(x) == StationPoint(x, ResolveCount(survey, located[x]))
           points == [k \in DOMAIN able |-> point(able[k])]
           w == FilterAndRankPoints(points, StationMeters)
<1>1. from \in Nat /\ to \in Nat /\ from <= to /\ from .. to \subseteq DOMAIN run
  <2>1. Len(run) \in Nat /\ DOMAIN run = 1 .. Len(run) /\ from \in DOMAIN run /\ to \in DOMAIN run /\ from <= to
    BY RunIs DEF Planned
  <2> HIDE DEF from, to
  <2> QED  BY <2>1
<1>2. able \in Seq(Int) /\ ToSet(able) = (from .. to) \intersect Z
  BY <1>1, SomeOf
<1>3. \A x \in from .. to : x \in Z => point(x) \in Cands /\ IsStation(point(x))
  <2> SUFFICES ASSUME NEW x \in from .. to, CanHandOver(x) PROVE point(x) \in Cands /\ IsStation(point(x))
    OBVIOUS
  <2>1. located[x] \in Points
    BY <1>1 DEF CanHandOver, Planned, PlacesOf
  <2>2. ResolveCount(survey, located[x]) \in Nat
    BY <2>1, CountOf, PointIs
  <2> QED  BY <2>2, StationIs
<1> HIDE DEF able, point
<1>4. \A k \in DOMAIN able : able[k] \in from .. to /\ able[k] \in Z
  BY <1>2 DEF ToSet
<1>5. DOMAIN able = 1 .. Len(able) /\ Len(able) \in Nat
  BY <1>2
<1> HIDE DEF from, to, Z
<1>6. points \in Seq(Cands) /\ DOMAIN points = DOMAIN able /\ \A k \in DOMAIN points : IsStation(points[k])
  <2>1. points \in [1 .. Len(able) -> Cands] /\ \A k \in DOMAIN able : IsStation(points[k])
    BY <1>3, <1>4, <1>5
  <2> HIDE DEF points
  <2> QED  BY <1>5, <2>1
<1> HIDE DEF points
<1>7. w \in Seq(Cands) /\ ToSet(w) \subseteq ToSet(points) /\ ChoiceIsOf(points, StationMeters, w)
  <2>1. StationMeters \in Nat /\ GridFits(StationMeters)
    BY StationsAssumption DEF GridFits
  <2> QED  BY <1>6, <2>1, ComparableAre, PlacedAre, ChoiceIs
<1> HIDE DEF w
<1>8. \A k \in DOMAIN w : IsStation(w[k])
  <2> SUFFICES ASSUME NEW k \in DOMAIN w PROVE IsStation(w[k])
    OBVIOUS
  <2>1. w[k] \in ToSet(points)
    BY <1>7 DEF ToSet
  <2>2. PICK m \in DOMAIN points : w[k] = points[m]
    BY <2>1 DEF ToSet
  <2> QED  BY <1>6, <2>2
<1>9. \A i, j \in DOMAIN w : i < j => ~Within(w[i], w[j], StationMeters)
  BY <1>7 DEF ChoiceIsOf
<1>10. ASSUME NEW i \in from .. to, CanHandOver(i) PROVE w # <<>>
  <2>1. i \in ToSet(able)
    BY <1>1, <1>2, <1>10 DEF Z
  <2>2. points # <<>>
    BY <1>5, <1>6, <2>1 DEF ToSet
  <2> QED  BY <1>7, <2>2 DEF ChoiceIsOf
<1>11. Offers(w)
  BY <1>7, <1>8, <1>9, <1>10, Zenon DEF Offers, from, to
<1> QED  BY <1>11, Zenon DEF w, points, point, able, Z, from, to

\* The second score leaves a station where it was.
LEMMA SameStation ==
    ASSUME NEW c \in Cands, NEW got \in ReachOutcomes
    PROVE  LET e == Rescored(Reachability(c, got))
           IN  e.lat = c.lat /\ e.lng = c.lng /\ e.station = c.station /\ e.eta = c.eta
<1> DEFINE same(x, y) == x.lat = y.lat /\ x.lng = y.lng /\ x.station = y.station /\ x.eta = y.eta
<1>1. \A x \in Cands : \A n, m : same([x EXCEPT !.reach = n, !.ok = m], x)
  BY DEF Cands
<1>2. \A x \in Cands : \A n : same([x EXCEPT !.score = n], x)
  BY DEF Cands
<1> DEFINE r == Reachability(c, got)
<1>3. r \in Cands
  BY ReachIs
<1> HIDE DEF same
<1>4. same(r, c)
  BY <1>1 DEF Reachability
<1> HIDE DEF r
<1>5. same(Rescored(r), r)
  BY <1>2, <1>3 DEF Rescored
<1>6. same(Rescored(r), c)
  BY <1>4, <1>5 DEF same
<1> QED  BY <1>6 DEF same, r

\* The areas found for them change their scores only.
LEMMA StillOffers ==
    ASSUME NEW v, Offers(v), NEW got \in [DOMAIN v -> ReachOutcomes]
    PROVE  LET w == [k \in DOMAIN v |-> Rescored(Reachability(v[k], got[k]))]
           IN  Offers(w) /\ Scored(w)
<1> DEFINE w == [k \in DOMAIN v |-> Rescored(Reachability(v[k], got[k]))]
<1>1. /\ v \in Seq(Cands) /\ (\A k \in DOMAIN v : IsStation(v[k]))
      /\ \A i, j \in DOMAIN v : i < j => ~Within(v[i], v[j], StationMeters)
      /\ (\E i \in plan.from .. plan.to : CanHandOver(i)) => v # <<>>
  BY DEF Offers
<1>2. w \in Seq(Cands) /\ Scored(w) /\ Len(w) = Len(v) /\ DOMAIN w = DOMAIN v
  BY <1>1, ReachedAre
<1>3. \A k \in DOMAIN v : w[k].lat = v[k].lat /\ w[k].lng = v[k].lng /\ w[k].station = v[k].station /\ w[k].eta = v[k].eta
  <2> SUFFICES ASSUME NEW k \in DOMAIN v
               PROVE  LET e == Rescored(Reachability(v[k], got[k]))
                      IN  e.lat = v[k].lat /\ e.lng = v[k].lng /\ e.station = v[k].station /\ e.eta = v[k].eta
    OBVIOUS
  <2>1. v[k] \in Cands /\ got[k] \in ReachOutcomes
    BY <1>1
  <2> QED  BY <2>1, SameStation
<1> HIDE DEF w
<1>4. \A k \in DOMAIN w : IsStation(w[k])
  BY <1>1, <1>2, <1>3 DEF IsStation
<1>5. \A i, j \in DOMAIN w : i < j => ~Within(w[i], w[j], StationMeters)
  BY <1>1, <1>2, <1>3 DEF Within, Apart2
<1>6. v # <<>> => w # <<>>
  BY <1>1, <1>2
<1>7. Offers(w)
  BY <1>1, <1>2, <1>4, <1>5, <1>6, Zenon DEF Offers
<1> QED  BY <1>2, <1>7 DEF w

\* What a plan of a train journey is, by how far it is.
TrainInv ==
    /\ run \in Runs /\ traveller \in Travellers
    /\ trainAt \in {"run", "geocode"} => plan = NoPlan
    /\ trainAt = "geocode" => run # <<>>
    /\ trainAt \in {"plan", "reach", "planned"} => Planned
    /\ trainAt \in {"reach", "planned"} => Offers(plan.offered)
    /\ trainAt = "planned" => Scored(plan.offered)

\* A station that is passed only once is found under its name.
LEMMA FoundByName ==
    ASSUME run \in Runs, traveller \in Travellers, NEW n \in DOMAIN run,
           \A i \in DOMAIN run : run[i].code = run[n].code => i = n
    PROVE  EtaForStation(run[n].code) = EtaSeconds(run[n])
<1>1. n \in Nat
  BY RunIs
<1>2. {i \in DOMAIN run : run[i].code = run[n].code} = {n}
  OBVIOUS
<1>3. Max({n}) = n
  <2>1. \E x \in {n} : \A y \in {n} : y <= x
    BY <1>1
  <2> DEFINE S == {n}
  <2>2. Max(S) \in S
    BY <2>1 DEF Max
  <2> QED  BY <2>2
<1> QED  BY <1>2, <1>3 DEF EtaForStation

\* The traveller is at a station before the journey ends.
LEMMA InTime ==
    ASSUME run \in Runs, traveller \in Travellers, Planned,
           EtaSeconds(run[plan.from]) # Nothing, EtaSeconds(run[plan.to]) # Nothing,
           NEW n \in DOMAIN run, EtaSeconds(run[n]) # Nothing,
           Minute(run[n].dep) = Nothing \/ Minute(run[n].dep) <= Minute(run[plan.to].dep)
    PROVE  EtaSeconds(run[n]) <= plan.duration
<1> DEFINE first == EtaSeconds(run[plan.from])  last == EtaSeconds(run[plan.to])  eta == EtaSeconds(run[n])
           d == Minute(run[n].dep)  e == Minute(run[plan.to].dep)  now == traveller.now
<1>1. run[plan.from] \in Rows /\ run[plan.to] \in Rows /\ run[n] \in Rows /\ now \in Nat /\ Nothing \notin Int
  BY RunIs DEF Planned
<1>2. /\ first \in Nat /\ last \in Nat /\ d \in Nat /\ e \in Nat
      /\ last = Most(0, e - now) * 60 /\ eta = Most(0, d - now) * 60
  <2>1. first \in {Nothing} \union Nat /\ last \in {Nothing} \union Nat
    BY <1>1, EtaIs
  <2>2. d \in Nat /\ e \in Nat /\ last = Most(0, e - now) * 60 /\ eta = Most(0, d - now) * 60
    BY <1>1, EtaIs
  <2> QED  BY <2>1, <2>2
<1>3. plan.duration = Most(last - first, last)
  <2> DEFINE w == <<plan.from, plan.to>>
  <2>1. plan.duration = RideDuration(w, located) /\ w[1] = plan.from /\ w[2] = plan.to
    BY DEF Planned
  <2> HIDE DEF w
  <2>2. plan.duration = IF EtaSeconds(run[w[1]]) # Nothing /\ EtaSeconds(run[w[2]]) # Nothing
                        THEN Most(EtaSeconds(run[w[2]]) - EtaSeconds(run[w[1]]), EtaSeconds(run[w[2]]))
                        ELSE Before([k \in DOMAIN RoutePoints(w, located) |-> located[RoutePoints(w, located)[k]]],
                                    Len(RoutePoints(w, located))) * 18
    BY <2>1, Zenon DEF RideDuration
  <2> QED  BY <2>1, <2>2
<1>4. d = Nothing \/ d <= e
  OBVIOUS
<1> HIDE DEF first, last, eta, d, e, now
<1>5. d <= e
  BY <1>1, <1>2, <1>4
<1>6. eta <= last
  BY <1>1, <1>2, <1>5 DEF Most
<1>7. last <= plan.duration
  BY <1>2, <1>3 DEF Most
<1>8. eta \in Nat
  BY <1>1, <1>2 DEF Most
<1>9. plan.duration \in Int
  BY <1>2, <1>3 DEF Most
<1> QED  BY <1>2, <1>6, <1>7, <1>8, <1>9 DEF eta

\* The invariant of the journey says what is checked.
LEMMA TrainKeeps == TrainInv => TrainPlanIsSound
<1> SUFFICES ASSUME TrainInv, trainAt = "planned" PROVE TrainPlanIsSound
  BY DEF TrainPlanIsSound
<1> DEFINE v == plan.offered
           at(k) == v[k].station
           eta(k) == EtaSeconds(run[at(k)])
           dep(i) == Minute(run[i].dep)
           timed == /\ EtaSeconds(run[plan.from]) # Nothing /\ EtaSeconds(run[plan.to]) # Nothing
                    /\ \A i \in plan.from .. plan.to : dep(i) = Nothing \/ dep(i) <= dep(plan.to)
<1>1. run \in Runs /\ traveller \in Travellers /\ Planned /\ Offers(v) /\ Scored(v)
  BY DEF TrainInv
<1>2. /\ \A k \in DOMAIN v : IsStation(v[k])
      /\ \A i, j \in DOMAIN v : i < j => ~Within(v[i], v[j], StationMeters)
      /\ (\E i \in plan.from .. plan.to : CanHandOver(i)) => v # <<>>
  BY <1>1 DEF Offers
<1>3. plan.from .. plan.to \subseteq DOMAIN run
  <2>1. Len(run) \in Nat /\ DOMAIN run = 1 .. Len(run) /\ plan.from \in DOMAIN run /\ plan.to \in DOMAIN run
    BY <1>1, RunIs DEF Planned
  <2> QED  BY <2>1
<1>4. ASSUME NEW k \in DOMAIN v
      PROVE  /\ at(k) \in plan.from .. plan.to /\ CanHandOver(at(k))
             /\ v[k].score \in 0 .. 100
             /\ timed /\ eta(k) # Nothing => eta(k) <= plan.duration
             /\ (\A i \in DOMAIN run : run[i].code = run[at(k)].code => i = at(k)) =>
                   EtaForStation(run[at(k)].code) = eta(k) /\ eta(k) \in {Nothing, v[k].eta}
  <2> DEFINE n == at(k)
  <2>1. n \in plan.from .. plan.to /\ CanHandOver(n) /\ EtaSeconds(run[n]) \in {Nothing, v[k].eta}
    BY <1>2 DEF IsStation
  <2>2. n \in DOMAIN run
    BY <1>3, <2>1
  <2>3. v[k].score \in 0 .. 100
    BY <1>1 DEF Scored
  <2>4. ASSUME timed, EtaSeconds(run[n]) # Nothing PROVE EtaSeconds(run[n]) <= plan.duration
    <3>1. dep(n) = Nothing \/ dep(n) <= dep(plan.to)
      BY <2>1, <2>4
    <3> HIDE DEF n
    <3> QED  BY <1>1, <2>2, <2>4, <3>1, InTime
  <2>5. (\A i \in DOMAIN run : run[i].code = run[n].code => i = n) => EtaForStation(run[n].code) = EtaSeconds(run[n])
    <3> HIDE DEF n
    <3> QED  BY <1>1, <2>2, FoundByName
  <2> HIDE DEF v, timed
  <2> QED  BY <2>1, <2>3, <2>4, <2>5, Zenon
<1> HIDE DEF v, timed, at, eta
<1> QED  BY <1>2, <1>4, Zenon DEF TrainPlanIsSound, v, timed, at, eta

\* Where the run, the places and the window stay, the stations stay what they were.
LEMMA SameJourney ==
    ASSUME UNCHANGED <<run, traveller, located>>,
           plan'.from = plan.from, plan'.to = plan.to, plan'.duration = plan.duration, IsPlan(plan)',
           NEW v
    PROVE  (Planned => Planned') /\ (Offers(v) => Offers(v)')
<1>1. run' = run /\ traveller' = traveller /\ located' = located
  OBVIOUS
<1>2. \A r : EtaSeconds(r)' = EtaSeconds(r) /\ Passed(r)' = Passed(r)
  BY <1>1 DEF EtaSeconds, Passed, Minute
<1>3. \A i : CanHandOver(i)' <=> CanHandOver(i)
  BY <1>1, <1>2 DEF CanHandOver
<1>4. \A c : IsStation(c)' <=> IsStation(c)
  BY <1>1, <1>2, <1>3 DEF IsStation
<1>5. Offers(v) => Offers(v)'
  BY <1>3, <1>4 DEF Offers
<1>6. \A w, places : RideDuration(w, places)' = RideDuration(w, places)
  BY <1>1, <1>2, Zenon DEF RideDuration
<1>7. Planned => Planned'
  BY <1>1, <1>6 DEF Planned, PlacesOf
<1> QED  BY <1>5, <1>7

\* The stations offered of a running train, for any run, travellers, answers and
\* failures: on the traveller's part of the run, still ahead, with a halt that is
\* long enough, apart from each other, reached before the journey ends, and found
\* again under their name (services/railways).
THEOREM StationsAreWellChosen == TrainSpec => []TrainPlanIsSound
<1>1. TrainInit => TrainInv
  BY DEF TrainInit, TrainInv
<1>2. TrainInv /\ [TrainNext]_trainVars => TrainInv'
  <2> SUFFICES ASSUME TrainInv, [TrainNext]_trainVars PROVE TrainInv'
    OBVIOUS
  <2>0. run \in Runs /\ traveller \in Travellers
    BY DEF TrainInv
  <2>1. ASSUME FetchRun PROVE TrainInv'
    <3>1. /\ trainAt = "run" /\ trainAt' \in {"geocode", "refused"} /\ (trainAt' = "geocode" => run # <<>>)
          /\ UNCHANGED <<run, traveller, located, plan>>
      BY <2>1 DEF FetchRun
    <3> QED  BY <2>0, <3>1 DEF TrainInv
  <2>2. ASSUME GeocodeStations PROVE TrainInv'
    <3> DEFINE found(names) == [i \in DOMAIN run |-> IF run[i].code \in names THEN StationPlaces[run[i].code] ELSE Nothing]
               window(places) == IF \A i \in DOMAIN run : places[i] = Nothing THEN <<1, Len(run)>>
                                 ELSE SelectStationWindow(places)
    <3>1. /\ trainAt = "geocode" /\ UNCHANGED <<run, traveller>>
          /\ \E names \in SUBSET {run[i].code : i \in DOMAIN run} :
                LET places == found(names) w == window(places)
                IN  /\ located' = places
                    /\ \/ Len(RoutePoints(w, places)) < 2 /\ trainAt' = "refused" /\ UNCHANGED plan
                       \/ /\ Len(RoutePoints(w, places)) >= 2 /\ trainAt' = "plan"
                          /\ plan' = [plan EXCEPT !.from = w[1], !.to = w[2], !.duration = RideDuration(w, places)]
      BY <2>2, Zenon DEF GeocodeStations
    <3>2. PICK names : LET places == found(names) w == window(places)
                       IN  /\ located' = places
                           /\ \/ trainAt' = "refused"
                              \/ /\ Len(RoutePoints(w, places)) >= 2 /\ trainAt' = "plan"
                                 /\ plan' = [plan EXCEPT !.from = w[1], !.to = w[2], !.duration = RideDuration(w, places)]
      BY <3>1, Zenon
    <3>p. PICK places : places = found(names)
      OBVIOUS
    <3>w. PICK w : w = window(places)
      OBVIOUS
    <3>3. /\ located' = places
          /\ \/ trainAt' = "refused"
             \/ /\ Len(RoutePoints(w, places)) >= 2 /\ trainAt' = "plan"
                /\ plan' = [plan EXCEPT !.from = w[1], !.to = w[2], !.duration = RideDuration(w, places)]
      BY <3>2, <3>p, <3>w, Zenon
    <3>4. run # <<>> /\ plan = NoPlan
      BY <3>1 DEF TrainInv
    <3>5. DOMAIN places = DOMAIN run /\ PlacesOf(places)
      <4>1. \A i \in DOMAIN run : StationPlaces[run[i].code] \in Points
        BY <2>0, RunIs, RunsAssumption, Zenon
      <4> QED  BY <3>p, <4>1 DEF PlacesOf
    <3>6. w \in Windows
      <4>1. window(places) \in Windows
        BY <2>0, <3>4, <3>5, WindowIs
      <4> QED  BY <3>w, <4>1
    <3> HIDE DEF found, window
    <3>7. CASE trainAt' = "refused"
      BY <2>0, <3>1, <3>7 DEF TrainInv
    <3>8. CASE trainAt' = "plan"
      <4>1. w[1] \in DOMAIN run /\ w[2] \in DOMAIN run /\ w[1] <= w[2] /\ w = <<w[1], w[2]>>
        BY <3>6 DEF Windows
      <4>2. PICK from, to, time : from = w[1] /\ to = w[2] /\ time = RideDuration(w, places)
        OBVIOUS
      <4>3. plan' = [from |-> from, to |-> to, duration |-> time, offered |-> <<>>]
        BY <3>3, <3>4, <3>8, <4>2 DEF NoPlan
      <4>4. run' = run /\ traveller' = traveller /\ located' = places
        BY <3>1, <3>3
      <4>5. w = <<from, to>> /\ from \in DOMAIN run /\ to \in DOMAIN run /\ from <= to
        BY <4>1, <4>2
      <4>6. RideDuration(w, places)' = time
        <5>1. \A r : EtaSeconds(r)' = EtaSeconds(r)
          BY <4>4 DEF EtaSeconds, Passed, Minute
        <5>2. \A x, y : RideDuration(x, y)' = RideDuration(x, y)
          BY <4>4, <5>1, Zenon DEF RideDuration
        <5> QED  BY <4>2, <5>2
      <4>7. plan'.from = from /\ plan'.to = to /\ plan'.duration = time /\ IsPlan(plan)'
        BY <4>3 DEF IsPlan
      <4>8. Len(RoutePoints(w, places)) >= 2
        BY <3>3, <3>8
      <4>9. Len(RoutePoints(w, places))' >= 2
        <5>1. RoutePoints(w, places)' = RoutePoints(w, places)
          BY DEF RoutePoints
        <5> QED  BY <4>8, <5>1
      <4>10. PlacesOf(places)' /\ (DOMAIN run)' = DOMAIN run
        BY <3>5, <4>4 DEF PlacesOf
      <4>11. Planned'
        <5>1. /\ plan'.from \in DOMAIN run' /\ plan'.to \in DOMAIN run' /\ plan'.from <= plan'.to
              /\ DOMAIN located' = DOMAIN run' /\ IsPlan(plan)' /\ <<plan'.from, plan'.to>> = w
          BY <3>5, <4>4, <4>5, <4>7
        <5>2. PlacesOf(located)'
          BY <4>4, <4>10 DEF PlacesOf
        <5>3. Len(RoutePoints(<<plan.from, plan.to>>, located))' >= 2
          BY <4>4, <4>9, <5>1 DEF RoutePoints
        <5>4. plan'.duration = RideDuration(<<plan.from, plan.to>>, located)'
          <6>1. RideDuration(<<plan.from, plan.to>>, located)' = RideDuration(w, places)'
            BY <4>4, <5>1 DEF RideDuration, RoutePoints
          <6> QED  BY <4>6, <4>7, <6>1
        <5> QED  BY <5>1, <5>2, <5>3, <5>4 DEF Planned
      <4> QED  BY <2>0, <3>8, <4>4, <4>11 DEF TrainInv
    <3> QED  BY <3>3, <3>7, <3>8
  <2>3. ASSUME ChooseStations PROVE TrainInv'
    <3> DEFINE able == Only(Stretch(<<plan.from, plan.to>>), {i \in DOMAIN run : CanHandOver(i)})
               points(survey) == [k \in DOMAIN able |-> StationPoint(able[k], ResolveCount(survey, located[able[k]]))]
               choice(survey) == FilterAndRankPoints(points(survey), StationMeters)
    <3>1. /\ trainAt = "plan" /\ trainAt' = "reach" /\ UNCHANGED <<run, traveller, located>>
          /\ \E survey \in Surveys : plan' = [plan EXCEPT !.offered = choice(survey)]
      BY <2>3, Zenon DEF ChooseStations
    <3>2. PICK survey \in Surveys : plan' = [plan EXCEPT !.offered = choice(survey)]
      BY <3>1
    <3>3. Planned
      BY <3>1 DEF TrainInv
    <3>v. PICK v : v = choice(survey)
      OBVIOUS
    <3>4. Offers(v)
      <4>1. Offers(choice(survey))
        BY <2>0, <3>3, OffersAre
      <4> HIDE DEF choice
      <4> QED  BY <3>v, <4>1
    <3>5. plan' = [plan EXCEPT !.offered = v]
      BY <3>2, <3>v
    <3> HIDE DEF choice
    <3>6. /\ plan'.from = plan.from /\ plan'.to = plan.to /\ plan'.duration = plan.duration /\ plan'.offered = v
          /\ IsPlan(plan)'
      BY <3>3, <3>5 DEF Planned, IsPlan
    <3>7. Planned' /\ Offers(v)'
      BY <3>1, <3>3, <3>4, <3>6, SameJourney
    <3>8. Offers(plan.offered)'
      BY <3>6, <3>7, Zenon DEF Offers
    <3> QED  BY <2>0, <3>1, <3>7, <3>8 DEF TrainInv
  <2>4. ASSUME AttachStationReachability PROVE TrainInv'
    <3>0. trainAt = "reach" /\ trainAt' = "planned" /\ UNCHANGED <<run, traveller, located>>
      BY <2>4 DEF AttachStationReachability
    <3>1. PICK got \in [DOMAIN plan.offered -> ReachOutcomes] :
             plan' = [plan EXCEPT !.offered = [k \in DOMAIN @ |-> Rescored(Reachability(@[k], got[k]))]]
      BY <2>4 DEF AttachStationReachability
    <3> DEFINE old == plan.offered
               now == [k \in DOMAIN old |-> Rescored(Reachability(old[k], got[k]))]
    <3>v. PICK v : v = now
      OBVIOUS
    <3>2. plan' = [plan EXCEPT !.offered = v]
      BY <3>1, <3>v
    <3>3. Planned /\ Offers(old)
      BY <3>0 DEF TrainInv
    <3>4. Offers(v) /\ Scored(v)
      <4>1. got \in [DOMAIN old -> ReachOutcomes]
        OBVIOUS
      <4> HIDE DEF old
      <4>2. Offers(now) /\ Scored(now)
        BY <3>3, <4>1, StillOffers
      <4> HIDE DEF now
      <4> QED  BY <3>v, <4>2
    <3>5. /\ plan'.from = plan.from /\ plan'.to = plan.to /\ plan'.duration = plan.duration /\ plan'.offered = v
          /\ IsPlan(plan)'
      BY <3>2, <3>3 DEF Planned, IsPlan
    <3>6. Planned' /\ Offers(v)'
      BY <3>0, <3>3, <3>4, <3>5, SameJourney
    <3>7. Offers(plan.offered)' /\ Scored(plan.offered)'
      BY <3>4, <3>5, <3>6, Zenon DEF Offers, Scored
    <3> QED  BY <2>0, <3>0, <3>6, <3>7 DEF TrainInv
  <2>5. ASSUME UNCHANGED trainVars PROVE TrainInv'
    <3>1. run' = run /\ traveller' = traveller /\ trainAt' = trainAt /\ located' = located /\ plan' = plan
      BY <2>5 DEF trainVars
    <3>2. Planned => Planned' /\ (Offers(plan.offered) => Offers(plan.offered)')
      <4> SUFFICES ASSUME Planned PROVE Planned' /\ (Offers(plan.offered) => Offers(plan.offered)')
        OBVIOUS
      <4>1. IsPlan(plan)'
        BY <3>1 DEF Planned, IsPlan
      <4> DEFINE v == plan.offered
      <4>2. v' = v
        BY <3>1
      <4>3. Planned' /\ \A x : Offers(x) => Offers(x)'
        BY <3>1, <4>1, SameJourney
      <4>4. Offers(v) => Offers(v)'
        BY <3>1, <4>3 DEF Offers
      <4> QED  BY <4>3, <4>4
    <3> QED  BY <2>0, <3>1, <3>2 DEF TrainInv, Scored
  <2> QED  BY <2>1, <2>2, <2>3, <2>4, <2>5 DEF TrainNext
<1>3. TrainInv => TrainPlanIsSound
  BY TrainKeeps
<1> QED  BY <1>1, <1>2, <1>3, PTL DEF TrainSpec

----------------------------------------------------------------------------
\* The order of the stops.

\* The waypoints of a request are numbered, and the matrix covers them.
Waypoints == 1 .. Len(stops) + 2
StopsKnown == \E n \in StopCounts : stops = [i \in 1 .. n |-> i + 2]

\* What the stops and their matrix are.
LEMMA StopsAre ==
    ASSUME StopsKnown
    PROVE  /\ Len(stops) \in Nat /\ DOMAIN stops = 1 .. Len(stops)
           /\ ToSet(stops) = 3 .. Len(stops) + 2
           /\ \A i, j \in Waypoints :
                 Travel[<<i, j>>] \in Nat /\ CrowFlies[<<i, j>>] \in Nat /\ <<i, j>> \in DOMAIN Travel
<1>1. PICK n \in StopCounts : stops = [i \in 1 .. n |-> i + 2]
  BY DEF StopsKnown
<1>2. n \in Nat /\ (1 .. n + 2) \X (1 .. n + 2) \subseteq DOMAIN Travel
  BY TourAssumption
<1>3. Len(stops) = n /\ DOMAIN stops = 1 .. n
  BY <1>1, <1>2
<1>4. ToSet(stops) = 3 .. n + 2
  <2>1. ToSet(stops) = {stops[i] : i \in 1 .. n}
    BY <1>3 DEF ToSet
  <2>2. \A i \in 1 .. n : stops[i] = i + 2
    BY <1>1
  <2>3. \A k \in 3 .. n + 2 : k - 2 \in 1 .. n /\ stops[k - 2] = k
    BY <1>2, <2>2
  <2> QED  BY <1>2, <2>1, <2>2, <2>3
<1>5. \A i, j \in 1 .. n + 2 : <<i, j>> \in DOMAIN Travel
  BY <1>2
<1>6. \A i, j \in 1 .. n + 2 : Travel[<<i, j>>] \in Nat /\ CrowFlies[<<i, j>>] \in Nat
  BY <1>5, TourAssumption, Zenon
<1> QED  BY <1>2, <1>3, <1>4, <1>5, <1>6 DEF Waypoints

\* Places before a place are others.
LEMMA Earlier == \A N \in Nat : \A n \in 1 .. N : \A i \in 1 .. n - 1 : i \in 1 .. N /\ i # n
OBVIOUS

\* The seconds of legs.
SecondsOf(N, leg, sec) == UNION {{leg[i]} \X (1 .. sec[i]) : i \in 1 .. N}

Apart(N, leg)  == \A i, j \in 1 .. N : leg[i] = leg[j] => i = j
Totals(N, sec) == {t \in [0 .. N -> Int] : t[0] = 0 /\ \A i \in 1 .. N : t[i] = t[i - 1] + sec[i]}

\* The seconds of different legs, counted together, are the sum of them.
LEMMA SecondsAdd ==
    ASSUME NEW N \in Nat, NEW leg, Apart(N, leg), NEW sec \in [1 .. N -> Nat], NEW t \in Totals(N, sec)
    PROVE  Cardinality(SecondsOf(N, leg, sec)) = t[N]
<1> DEFINE box(i) == {leg[i]} \X (1 .. sec[i])
           all(n) == UNION {box(i) : i \in 1 .. n}
           S == {n \in 0 .. N : IsFiniteSet(all(n)) /\ Cardinality(all(n)) = t[n]}
<1>0. t \in [0 .. N -> Int] /\ t[0] = 0 /\ \A i \in 1 .. N : t[i] = t[i - 1] + sec[i]
  BY DEF Totals
<1>1. 0 \in S
  <2>1. all(0) = {}
    OBVIOUS
  <2> HIDE DEF all
  <2>2. IsFiniteSet(all(0)) /\ Cardinality(all(0)) = 0
    BY <2>1, FS_EmptySet, Zenon
  <2> QED  BY <1>0, <2>2
<1>2. ASSUME NEW n \in 1 .. N, n - 1 \in S PROVE n \in S
  <2>1. IsFiniteSet(all(n - 1)) /\ Cardinality(all(n - 1)) = t[n - 1]
    BY <1>2
  <2>2. all(n) = all(n - 1) \union box(n)
    <3> DEFINE I == 1 .. n  J == 1 .. n - 1
    <3>1. I = J \union {n}
      <4>1. n \in Nat /\ n >= 1
        OBVIOUS
      <4> QED  BY <4>1
    <3> HIDE DEF I, J, box
    <3>2. UNION {box(i) : i \in I} = (UNION {box(i) : i \in J}) \union box(n)
      BY <3>1
    <3> QED  BY <3>2 DEF I, J
  <2>3. all(n - 1) \intersect box(n) = {}
    <3>1. ASSUME NEW p \in all(n - 1), p \in box(n) PROVE FALSE
      <4>1. PICK i \in 1 .. n - 1 : p \in box(i)
        BY <3>1
      <4>2. p[1] = leg[n] /\ p[1] = leg[i]
        BY <3>1, <4>1
      <4>3. i \in 1 .. N /\ i # n
        BY Earlier, Zenon
      <4> QED  BY <4>2, <4>3 DEF Apart
    <3> HIDE DEF all, box
    <3> QED  BY <3>1
  <2>4. IsFiniteSet(box(n)) /\ Cardinality(box(n)) = sec[n]
    <3> DEFINE k == sec[n]  one == {leg[n]}  col == 1 .. k
    <3>1. k \in Nat
      OBVIOUS
    <3> HIDE DEF k
    <3>2. IsFiniteSet(col) /\ Cardinality(col) = k
      <4>1. 1 \in Int /\ k \in Int
        BY <3>1
      <4>2. IsFiniteSet(1 .. k) /\ Cardinality(1 .. k) = IF 1 > k THEN 0 ELSE k - 1 + 1
        BY <4>1, FS_Interval, Zenon
      <4> QED  BY <3>1, <4>2
    <3>3. IsFiniteSet(one) /\ Cardinality(one) = 1
      BY FS_Singleton, Zenon
    <3> HIDE DEF col, one
    <3>4. IsFiniteSet(one \X col) /\ Cardinality(one \X col) = Cardinality(one) * Cardinality(col)
      BY <3>2, <3>3, FS_Product
    <3>5. Cardinality(one \X col) = k
      BY <3>1, <3>2, <3>3, <3>4
    <3> QED  BY <3>4, <3>5 DEF k, one, col
  <2>5. t[n - 1] \in Int /\ sec[n] \in Nat /\ t[n] = t[n - 1] + sec[n]
    <3>1. n - 1 \in 0 .. N
      OBVIOUS
    <3> QED  BY <1>0, <3>1
  <2> DEFINE A == all(n - 1)  B == box(n)  C == all(n)
  <2>6. IsFiniteSet(A) /\ IsFiniteSet(B) /\ C = A \union B /\ A \intersect B = {}
    BY <2>1, <2>2, <2>3, <2>4
  <2>7. Cardinality(A) = t[n - 1] /\ Cardinality(B) = sec[n]
    BY <2>1, <2>4
  <2> HIDE DEF A, B, C
  <2>8. IsFiniteSet(C) /\ Cardinality(C) = Cardinality(A) + Cardinality(B) - Cardinality(A \intersect B)
    BY <2>6, FS_Union
  <2>9. Cardinality(A \intersect B) = 0
    BY <2>6, FS_EmptySet
  <2>10. Cardinality(C) = t[n]
    BY <2>5, <2>7, <2>8, <2>9
  <2> QED  BY <2>8, <2>10 DEF C
<1> HIDE DEF S
<1>3. \A n \in 0 .. N : n \in S
  BY <1>1, <1>2, StepByStep
<1>4. N \in S
  BY <1>3
<1> QED  BY <1>4 DEF S, SecondsOf

\* What the solver adds up leg by leg is how long the order takes.
LEMMA CostIsTime ==
    ASSUME StopsKnown, NEW order \in Seq(Waypoints), order # <<>>, IsInjective(order)
    PROVE  TourCost(order) = RouteTime(order)
<1> DEFINE N == Len(order) - 1
           sec == [i \in 1 .. N |-> LegCost(order[i], order[i + 1])]
           leg == [i \in 1 .. N |-> <<order[i], order[i + 1]>>]
           G == [i \in 1 .. N |-> [v \in Int |-> v + sec[i]]]
           step(f) == [n \in 0 .. N |-> IF n = 0 THEN 0 ELSE f[n - 1] + LegCost(order[n], order[n + 1])]
           s == CHOOSE f : f = step(f)
<1>1. N \in Nat /\ \A i \in 1 .. N : i \in DOMAIN order /\ i + 1 \in DOMAIN order
                                     /\ order[i] \in Waypoints /\ order[i + 1] \in Waypoints
  OBVIOUS
<1>2. TourCost(order) = s[N]
  BY DEF TourCost
<1>3. \A i \in 1 .. N : /\ LegCost(order[i], order[i + 1]) \in Nat
                        /\ LegCost(order[i], order[i + 1]) =
                              IF leg[i] \in blocked THEN CrowFlies[leg[i]] ELSE Travel[leg[i]]
  <2> SUFFICES ASSUME NEW i \in 1 .. N
               PROVE  /\ LegCost(order[i], order[i + 1]) \in Nat
                      /\ LegCost(order[i], order[i + 1]) =
                            IF leg[i] \in blocked THEN CrowFlies[leg[i]] ELSE Travel[leg[i]]
    OBVIOUS
  <2> DEFINE a == order[i]  b == order[i + 1]
  <2>1. a \in Waypoints /\ b \in Waypoints /\ leg[i] = <<a, b>>
    BY <1>1
  <2> HIDE DEF a, b
  <2>2. Travel[<<a, b>>] \in Nat /\ CrowFlies[<<a, b>>] \in Nat
    BY <2>1, StopsAre, Zenon
  <2>3. Travel[<<a, b>>] # NoRoute
    BY <2>2, TourAssumption
  <2>4. LegCost(a, b) = IF <<a, b>> \in blocked THEN CrowFlies[<<a, b>>] ELSE Travel[<<a, b>>]
    BY <2>3 DEF LegCost, Duration
  <2>5. LegCost(a, b) \in Nat /\ LegCost(a, b) = IF leg[i] \in blocked THEN CrowFlies[leg[i]] ELSE Travel[leg[i]]
    BY <2>1, <2>2, <2>4
  <2> QED  BY <2>5 DEF a, b
<1>4. sec \in [1 .. N -> Nat] /\ \A i \in 1 .. N : sec[i] = LegCost(order[i], order[i + 1])
  BY <1>3
<1>5. 0 \in Int /\ G \in [1 .. N -> [Int -> Int]] /\ \A i \in 1 .. N, v \in Int : G[i][v] = v + sec[i]
  BY <1>4
<1>6. \A i, j \in 1 .. N : leg[i] = leg[j] => i = j
  BY <1>1 DEF IsInjective
<1>7. RouteTime(order) = Cardinality(SecondsOf(N, leg, sec))
  <2> DEFINE seconds(l) == IF l \in blocked THEN CrowFlies[l] ELSE Travel[l]
             A == {{l} \X (1 .. seconds(l)) : l \in {<<order[i], order[i + 1]>> : i \in 1 .. N}}
             B == {{leg[i]} \X (1 .. sec[i]) : i \in 1 .. N}
  <2>1. \A i \in 1 .. N : leg[i] = <<order[i], order[i + 1]>> /\ sec[i] = seconds(leg[i])
    BY <1>3, <1>4
  <2>2. A = B
    <3> DEFINE box(l, n) == {l} \X (1 .. n)
               C == {box(l, seconds(l)) : l \in {<<order[i], order[i + 1]>> : i \in 1 .. N}}
               D == {box(leg[i], sec[i]) : i \in 1 .. N}
    <3> HIDE DEF box, leg, sec, seconds
    <3>1. C = D
      BY <2>1
    <3> QED  BY <3>1 DEF box
  <2>3. RouteTime(order) = Cardinality(UNION A)
    BY DEF RouteTime
  <2> QED  BY <2>2, <2>3 DEF SecondsOf
<1> HIDE DEF sec, leg, G, s, N
<1>8. PICK f : f \in Loops(N, Int, 0, G)
  <2>1. N \in Nat /\ 0 \in Int /\ G \in [1 .. N -> [Int -> Int]]
    BY <1>1, <1>5
  <2>2. Loops(N, Int, 0, G) # {}
    BY <2>1, LoopRuns, Zenon
  <2> QED  BY <2>2
<1>9. f = step(f)
  <2>0. f \in [0 .. N -> Int] /\ f[0] = 0 /\ \A i \in 1 .. N : f[i] = G[i][f[i - 1]]
    BY <1>8 DEF Loops
  <2>1. \A i \in 1 .. N : f[i] = f[i - 1] + LegCost(order[i], order[i + 1])
    <3>1. \A i \in 1 .. N : i - 1 \in 0 .. N
      BY <1>1
    <3> QED  BY <1>4, <1>5, <2>0, <3>1, ZenonT(30)
  <2>2. \A i \in 0 .. N : f[i] = step(f)[i]
    BY <1>1, <2>0, <2>1
  <2> QED  BY <2>0, <2>2
<1>10. s = step(s)
  BY <1>9, Zenon DEF s
<1>11. /\ IsTable(s, N) /\ s[0] = 0
       /\ \A i \in 1 .. N : s[i - 1] \in Int => s[i] = G[i][s[i - 1]]
  <2>0. \A i \in 0 .. N : s[i] = IF i = 0 THEN 0 ELSE s[i - 1] + LegCost(order[i], order[i + 1])
    BY <1>10, Zenon
  <2>1. s[0] = 0 /\ \A i \in 1 .. N : s[i] = s[i - 1] + sec[i]
    BY <1>1, <1>4, <2>0, SMTT(30)
  <2>2. \A i \in 1 .. N : s[i - 1] \in Int => s[i] = G[i][s[i - 1]]
    BY <1>5, <2>1
  <2>3. IsTable(s, N)
    BY <1>10 DEF IsTable
  <2> QED  BY <2>1, <2>2, <2>3
<1>12. s \in Loops(N, Int, 0, G)
  BY <1>1, <1>5, <1>11, LoopIs, Zenon
<1>13. s \in [0 .. N -> Int] /\ s[0] = 0 /\ \A i \in 1 .. N : s[i] = s[i - 1] + sec[i]
  <2>1. s \in [0 .. N -> Int] /\ s[0] = 0 /\ \A i \in 1 .. N : s[i] = G[i][s[i - 1]]
    BY <1>12 DEF Loops
  <2>2. \A i \in 1 .. N : s[i - 1] \in Int
    BY <1>1, <2>1
  <2> QED  BY <1>5, <2>1, <2>2
<1>14. Cardinality(SecondsOf(N, leg, sec)) = s[N]
  <2>1. N \in Nat
    BY <1>1
  <2>2. sec \in [1 .. N -> Nat]
    BY <1>4
  <2>3. s \in Totals(N, sec)
    BY <1>13 DEF Totals
  <2>4. Apart(N, leg)
    BY <1>6 DEF Apart
  <2> QED  BY <2>1, <2>2, <2>3, <2>4, SecondsAdd
<1> QED  BY <1>2, <1>7, <1>14

\* An order that starts at the origin and has stops after it, none of them twice.
Walks == {o \in Seq(Waypoints) : /\ o # <<>> /\ o[1] = Origin /\ IsInjective(o)
                                 /\ \A i \in 2 .. Len(o) : o[i] \in ToSet(stops)}

\* With the destination after it, it is an order from the one to the other.
LEMMA WalkEnds ==
    ASSUME StopsKnown, NEW o \in Walks
    PROVE  LET all == Append(o, Destination)
           IN  /\ all \in Seq(Waypoints) /\ all # <<>> /\ IsInjective(all) /\ Head(all) = Origin
               /\ Last(all) = Destination /\ Front(all) = o
               /\ ToSet(all) = ToSet(o) \union {Destination}
               /\ ToSet(o) \subseteq ToSet(stops) \union {Origin}
<1> DEFINE all == Append(o, Destination)
           N == Len(o)
<1>1. /\ o \in Seq(Waypoints) /\ o # <<>> /\ o[1] = Origin /\ IsInjective(o)
      /\ \A i \in 2 .. Len(o) : o[i] \in ToSet(stops)
  BY DEF Walks
<1>2. N \in Nat /\ N >= 1 /\ DOMAIN o = 1 .. N
  BY <1>1
<1>3. Len(stops) \in Nat /\ ToSet(stops) = 3 .. Len(stops) + 2
  BY StopsAre
<1>4. Origin \in Waypoints /\ Destination \in Waypoints /\ Origin # Destination
      /\ Origin \notin ToSet(stops) /\ Destination \notin ToSet(stops)
  BY <1>3 DEF Origin, Destination, Waypoints
<1>5. all \in Seq(Waypoints) /\ Len(all) = N + 1 /\ DOMAIN all = 1 .. N + 1
      /\ all[N + 1] = Destination /\ \A i \in 1 .. N : all[i] = o[i]
  BY <1>1, <1>2, <1>4
<1>6. \A i \in 1 .. N : o[i] # Destination /\ o[i] \in ToSet(stops) \union {Origin}
  BY <1>1, <1>2, <1>4
<1>7. IsInjective(all)
  <2> SUFFICES ASSUME NEW i \in 1 .. N + 1, NEW j \in 1 .. N + 1, all[i] = all[j] PROVE i = j
    BY <1>5 DEF IsInjective
  <2> HIDE DEF all
  <2>1. CASE i \in 1 .. N /\ j \in 1 .. N
    <3>1. o[i] = o[j]
      BY <1>5, <2>1
    <3> QED  BY <1>1, <1>2, <2>1, <3>1 DEF IsInjective
  <2>2. CASE i = N + 1 \/ j = N + 1
    BY <1>2, <1>5, <1>6, <2>2
  <2> QED  BY <1>2, <2>1, <2>2
<1>8. Front(all) = o
  <2>1. Front(all) = SubSeq(all, 1, N)
    BY <1>2, <1>5 DEF Front
  <2>2. SubSeq(all, 1, N) = o
    BY <1>1, <1>2, <1>5
  <2> QED  BY <2>1, <2>2
<1>9. ToSet(all) = ToSet(o) \union {Destination}
  <2>1. ToSet(all) = {all[i] : i \in 1 .. N + 1} /\ ToSet(o) = {o[i] : i \in 1 .. N}
    BY <1>2, <1>5 DEF ToSet
  <2> HIDE DEF all
  <2> QED  BY <1>2, <1>5, <2>1
<1>10. ToSet(o) \subseteq ToSet(stops) \union {Origin}
  BY <1>2, <1>6 DEF ToSet
<1>11. Head(all) = Origin /\ Last(all) = Destination /\ all # <<>>
  <2>1. Len(all) > 0 /\ all[1] = Origin /\ Head(all) = all[1]
    BY <1>1, <1>2, <1>5
  <2>2. Last(all) = all[N + 1]
    BY <1>5 DEF Last
  <2>3. all # <<>>
    BY <2>1
  <2> HIDE DEF all
  <2> QED  BY <1>5, <2>1, <2>2, <2>3
<1> QED  BY <1>5, <1>7, <1>8, <1>9, <1>10, <1>11

\* So is what has the origin before stops.
LEMMA BetweenIs ==
    ASSUME StopsKnown, NEW middle \in Seq(ToSet(stops)), IsInjective(middle)
    PROVE  \E o \in Walks : /\ Between(middle) = Append(o, Destination)
                            /\ ToSet(o) = ToSet(middle) \union {Origin}
<1> DEFINE o == <<Origin>> \o middle
           N == Len(middle)
<1>1. Len(stops) \in Nat /\ ToSet(stops) = 3 .. Len(stops) + 2
  BY StopsAre
<1>2. Origin \in Waypoints /\ Origin \notin ToSet(stops) /\ ToSet(stops) \subseteq Waypoints
  BY <1>1 DEF Origin, Waypoints
<1>3. middle \in Seq(Waypoints) /\ N \in Nat /\ DOMAIN middle = 1 .. N
      /\ \A i \in 1 .. N : middle[i] \in ToSet(stops)
  BY <1>2
<1>4. /\ o \in Seq(Waypoints) /\ Len(o) = N + 1 /\ DOMAIN o = 1 .. N + 1 /\ o[1] = Origin
      /\ \A i \in 2 .. N + 1 : o[i] = middle[i - 1] /\ i - 1 \in 1 .. N
  BY <1>2, <1>3
<1>5. Between(middle) = Append(o, Destination)
  BY <1>3, <1>4 DEF Between
<1> HIDE DEF o
<1>6. IsInjective(o)
  <2> SUFFICES ASSUME NEW i \in 1 .. N + 1, NEW j \in 1 .. N + 1, o[i] = o[j] PROVE i = j
    BY <1>4 DEF IsInjective
  <2>1. CASE i \in 2 .. N + 1 /\ j \in 2 .. N + 1
    <3>1. middle[i - 1] = middle[j - 1] /\ i - 1 \in 1 .. N /\ j - 1 \in 1 .. N
      BY <1>4, <2>1
    <3>2. i - 1 = j - 1
      BY <1>3, <3>1 DEF IsInjective
    <3> QED  BY <3>2
  <2>2. CASE i = 1 \/ j = 1
    BY <1>2, <1>3, <1>4, <2>2
  <2> QED  BY <1>3, <2>1, <2>2
<1>7. o \in Walks
  <2>1. o # <<>>
    BY <1>3, <1>4
  <2> QED  BY <1>3, <1>4, <1>6, <2>1 DEF Walks
<1>8. ToSet(o) = ToSet(middle) \union {Origin}
  <2>1. /\ \A k : k \in ToSet(o) <=> \E i \in 1 .. N + 1 : k = o[i]
        /\ \A k : k \in ToSet(middle) <=> \E i \in 1 .. N : k = middle[i]
    BY <1>3, <1>4 DEF ToSet
  <2>2. \A i \in 1 .. N : i + 1 \in 2 .. N + 1 /\ o[i + 1] = middle[i]
    BY <1>3, <1>4
  <2>3. \A i \in 1 .. N + 1 : i = 1 \/ i \in 2 .. N + 1
    BY <1>3
  <2>4. ASSUME NEW k \in ToSet(o) PROVE k \in ToSet(middle) \union {Origin}
    <3>1. PICK i \in 1 .. N + 1 : k = o[i]
      BY <2>1
    <3>2. CASE i = 1
      BY <1>4, <3>1, <3>2
    <3>3. CASE i \in 2 .. N + 1
      BY <1>4, <2>1, <3>1, <3>3
    <3> QED  BY <2>3, <3>2, <3>3
  <2>5. Origin \in ToSet(o) /\ 1 \in 1 .. N + 1
    BY <1>3, <1>4, <2>1
  <2>6. ASSUME NEW k \in ToSet(middle) PROVE k \in ToSet(o)
    <3>1. PICK i \in 1 .. N : k = middle[i]
      BY <2>1
    <3>2. i + 1 \in 1 .. N + 1 /\ o[i + 1] = k
      BY <1>3, <2>2, <3>1
    <3> QED  BY <2>1, <3>2
  <2> QED  BY <2>4, <2>5, <2>6
<1> QED  BY <1>5, <1>7, <1>8

\* An order of the stops has all of them.
LEMMA OrderIs ==
    ASSUME StopsKnown, NEW m \in Orders
    PROVE  m \in Seq(ToSet(stops)) /\ Len(m) = Len(stops) /\ IsInjective(m) /\ ToSet(m) = ToSet(stops)
<1> DEFINE N == Len(stops)
           D == 1 .. N
           T == ToSet(stops)
<1>1. N \in Nat /\ DOMAIN stops = D /\ T = 3 .. N + 2
  BY StopsAre
<1>2. m \in [D -> T] /\ IsInjective(m)
  BY <1>1 DEF Orders
<1>3. IsFiniteSet(D) /\ IsFiniteSet(T) /\ Cardinality(D) = Cardinality(T)
  <2>1. 1 \in Int /\ 3 \in Int /\ N \in Int /\ N + 2 \in Int
    BY <1>1
  <2>2. IsFiniteSet(1 .. N) /\ Cardinality(1 .. N) = IF 1 > N THEN 0 ELSE N - 1 + 1
    BY <2>1, FS_Interval, Zenon
  <2> DEFINE M == N + 2
  <2>3. M \in Int
    BY <2>1
  <2> HIDE DEF M
  <2>4. IsFiniteSet(3 .. M) /\ Cardinality(3 .. M) = IF 3 > M THEN 0 ELSE M - 3 + 1
    BY <2>1, <2>3, FS_Interval, Zenon
  <2> HIDE DEF N
  <2> QED  BY <1>1, <2>2, <2>4 DEF M
<1> HIDE DEF D, T
<1>4. m \in Injection(D, T)
  BY <1>2 DEF Injection
<1>5. m \in Surjection(D, T)
  BY <1>3, <1>4, FS_Injection
<1>6. ToSet(m) = T
  BY <1>2, <1>5 DEF ToSet, Surjection
<1>7. m \in Seq(T) /\ Len(m) = N
  BY <1>1, <1>2 DEF D
<1> QED  BY <1>2, <1>6, <1>7 DEF T, N

\* While a stop can be reached, a step goes to one more.
LEMMA VisitIs ==
    ASSUME StopsKnown, NEW cost, \A i, j \in Waypoints : cost[<<i, j>>] \in Nat \union {NoRoute},
           NEW o \in Walks
    PROVE  /\ Visit(cost, o) \in Walks
           /\ Ahead(cost, o) = {} => Visit(cost, o) = o
           /\ Ahead(cost, o) # {} => Len(Visit(cost, o)) = Len(o) + 1
<1> DEFINE A == Ahead(cost, o)
           x == Nearest(cost, o)
           N == Len(o)
           c(j) == cost[<<Last(o), j>>]
<1>1. CASE A = {}
  BY <1>1 DEF Visit
<1>2. CASE A # {}
  <2>1. /\ o \in Seq(Waypoints) /\ o # <<>> /\ o[1] = Origin /\ IsInjective(o)
        /\ \A i \in 2 .. N : o[i] \in ToSet(stops)
    BY DEF Walks
  <2>2. N \in Nat /\ N >= 1 /\ DOMAIN o = 1 .. N /\ Last(o) \in Waypoints
    BY <2>1 DEF Last
  <2>3. A \subseteq ToSet(stops) \ ToSet(o) /\ ToSet(stops) \subseteq Waypoints /\ A \in SUBSET Nat
    BY StopsAre DEF Ahead, Waypoints
  <2>4. \A j \in A : c(j) \in Nat
    BY <2>2, <2>3 DEF Ahead
  <2>5. x \in A
    <3> DEFINE B == {c(j) : j \in A}
               C == {j \in A : \A k \in A : c(j) <= c(k)}
    <3>1. B \in SUBSET Nat /\ B # {}
      BY <1>2, <2>4
    <3> HIDE DEF B
    <3>2. PICK n \in B : \A m \in B : n <= m
      BY <3>1, LeastOne
    <3> HIDE DEF A, c
    <3>3. PICK j \in A : n = c(j)
      BY <3>2 DEF B
    <3>4. \A k \in A : c(j) <= c(k)
      BY <3>2, <3>3 DEF B
    <3>5. C # {} /\ C \in SUBSET Nat
      BY <2>3, <3>4
    <3>6. x = Min(C)
      BY DEF Nearest, A, c
    <3> HIDE DEF C
    <3>7. \E a \in C : \A b \in C : a <= b
      BY <3>5, LeastOne
    <3>8. Min(C) \in C
      BY <3>7 DEF Min
    <3> QED  BY <3>6, <3>8 DEF C
  <2>6. Visit(cost, o) = Append(o, x)
    BY <1>2 DEF Visit
  <2> HIDE DEF A, x, c
  <2> DEFINE q == Append(o, x)
  <2>7. x \in ToSet(stops) /\ x \in Waypoints /\ \A i \in 1 .. N : o[i] # x
    BY <2>2, <2>3, <2>5 DEF ToSet
  <2>8. /\ q \in Seq(Waypoints) /\ Len(q) = N + 1 /\ DOMAIN q = 1 .. N + 1 /\ q[N + 1] = x
        /\ \A i \in 1 .. N : q[i] = o[i]
    BY <2>1, <2>2, <2>7
  <2> HIDE DEF q
  <2>9. IsInjective(q)
    <3> SUFFICES ASSUME NEW i \in 1 .. N + 1, NEW j \in 1 .. N + 1, q[i] = q[j] PROVE i = j
      BY <2>8 DEF IsInjective
    <3>1. CASE i \in 1 .. N /\ j \in 1 .. N
      <4>1. o[i] = o[j]
        BY <2>8, <3>1
      <4> QED  BY <2>1, <2>2, <3>1, <4>1 DEF IsInjective
    <3>2. CASE i = N + 1 \/ j = N + 1
      BY <2>2, <2>7, <2>8, <3>2
    <3> QED  BY <2>2, <3>1, <3>2
  <2>10. q \in Walks
    <3>1. q # <<>> /\ q[1] = Origin
      BY <2>1, <2>2, <2>8
    <3>2. \A i \in 2 .. N + 1 : q[i] \in ToSet(stops)
      BY <2>1, <2>2, <2>7, <2>8
    <3> QED  BY <2>8, <2>9, <3>1, <3>2 DEF Walks
  <2> QED  BY <1>2, <2>6, <2>8, <2>10 DEF q, A
<1> QED  BY <1>1, <1>2 DEF A

\* A walk over as many waypoints as there are is at all of them.
LEMMA LongWalk ==
    ASSUME StopsKnown, NEW o \in Walks, Len(o) = Len(stops) + 1
    PROVE  ToSet(stops) \subseteq ToSet(o)
<1> DEFINE N == Len(stops)
           D == 2 .. N + 1
           T == ToSet(stops)
           m == [i \in D |-> o[i]]
<1>1. N \in Nat /\ T = 3 .. N + 2
  BY StopsAre
<1>2. /\ o \in Seq(Waypoints) /\ IsInjective(o) /\ DOMAIN o = 1 .. N + 1
      /\ \A i \in D : o[i] \in T /\ i \in DOMAIN o
  BY <1>1 DEF Walks
<1>3. IsFiniteSet(D) /\ IsFiniteSet(T) /\ Cardinality(D) = Cardinality(T)
  <2> DEFINE L == N + 1  M == N + 2
  <2>1. 2 \in Int /\ 3 \in Int /\ L \in Int /\ M \in Int
    BY <1>1
  <2> HIDE DEF L, M
  <2>2. IsFiniteSet(2 .. L) /\ Cardinality(2 .. L) = IF 2 > L THEN 0 ELSE L - 2 + 1
    BY <2>1, FS_Interval, Zenon
  <2>3. IsFiniteSet(3 .. M) /\ Cardinality(3 .. M) = IF 3 > M THEN 0 ELSE M - 3 + 1
    BY <2>1, FS_Interval, Zenon
  <2> HIDE DEF N
  <2> QED  BY <1>1, <2>2, <2>3 DEF L, M
<1> HIDE DEF D, T
<1>4. m \in [D -> T] /\ \A i \in D : m[i] = o[i]
  BY <1>2
<1>5. m \in Injection(D, T)
  BY <1>2, <1>4 DEF Injection, IsInjective
<1> HIDE DEF m
<1>6. m \in Surjection(D, T)
  BY <1>3, <1>5, FS_Injection
<1>7. \A k \in T : \E i \in D : o[i] = k
  BY <1>4, <1>6 DEF Surjection
<1> QED  BY <1>2, <1>7 DEF T, ToSet

\* The nearest-first search goes from the origin to the destination over stops,
\* and leaves stops out only where none of them can be reached.
LEMMA WalkIs ==
    ASSUME StopsKnown, NEW cost, \A i, j \in Waypoints : cost[<<i, j>>] \in Nat \union {NoRoute}
    PROVE  \E o \in Walks : /\ NearestFirst(cost) = Append(o, Destination)
                            /\ ToSet(stops) \subseteq ToSet(o) \/ Ahead(cost, o) = {}
<1> DEFINE N == Len(stops)
           V == Walks
           b == <<Origin>>
           G == [i \in 1 .. N |-> [v \in V |-> Visit(cost, v)]]
           step(f) == [n \in 0 .. N |-> IF n = 0 THEN <<Origin>> ELSE Visit(cost, f[n - 1])]
           s == CHOOSE f : f = step(f)
<1>1. N \in Nat
  BY StopsAre
<1>2. b \in V
  <2>1. Origin \in Waypoints
    BY <1>1 DEF Origin, Waypoints
  <2>2. b \in Seq(Waypoints) /\ b # <<>> /\ b[1] = Origin /\ Len(b) = 1 /\ IsInjective(b)
    BY <2>1 DEF IsInjective
  <2> QED  BY <2>2 DEF Walks
<1>3. \A v \in V : Visit(cost, v) \in V
  BY VisitIs
<1>4. NearestFirst(cost) = Append(s[N], Destination)
  BY DEF NearestFirst
<1>5. G \in [1 .. N -> [V -> V]] /\ \A i \in 1 .. N, v \in V : G[i][v] = Visit(cost, v)
  BY <1>3
<1> HIDE DEF G, s, N, V, b
<1>6. PICK f : f \in Loops(N, V, b, G)
  <2>1. Loops(N, V, b, G) # {}
    <3>1. G \in [1 .. N -> [V -> V]]
      BY <1>5
    <3> QED  BY <1>1, <1>2, <3>1, LoopRuns, Zenon
  <2> QED  BY <2>1
<1>7. f = step(f)
  <2>0. f \in [0 .. N -> V] /\ f[0] = b /\ \A i \in 1 .. N : f[i] = G[i][f[i - 1]]
    BY <1>6 DEF Loops
  <2>1. \A i \in 1 .. N : f[i] = Visit(cost, f[i - 1])
    <3>1. \A i \in 1 .. N : i - 1 \in 0 .. N
      BY <1>1
    <3> QED  BY <1>5, <2>0, <3>1
  <2>2. ASSUME NEW i \in 0 .. N PROVE f[i] = step(f)[i]
    <3>1. CASE i = 0
      BY <2>0, <3>1 DEF b
    <3>2. CASE i # 0
      <4>1. i \in 1 .. N
        BY <1>1, <3>2
      <4> QED  BY <2>1, <3>2, <4>1
    <3> QED  BY <3>1, <3>2
  <2> QED  BY <2>0, <2>2
<1>8. s = step(s)
  BY <1>7, Zenon DEF s
<1>9. /\ IsTable(s, N) /\ s[0] = b
      /\ \A i \in 1 .. N : s[i - 1] \in V => s[i] = G[i][s[i - 1]]
  <2>0. \A i \in 0 .. N : s[i] = IF i = 0 THEN <<Origin>> ELSE Visit(cost, s[i - 1])
    BY <1>8, Zenon
  <2>1. s[0] = b /\ \A i \in 1 .. N : s[i] = Visit(cost, s[i - 1])
    BY <1>1, <2>0 DEF b
  <2>2. \A i \in 1 .. N : s[i - 1] \in V => s[i] = G[i][s[i - 1]]
    BY <1>5, <2>1
  <2>3. IsTable(s, N)
    BY <1>8 DEF IsTable
  <2> QED  BY <2>1, <2>2, <2>3
<1>10. s \in Loops(N, V, b, G)
  BY <1>1, <1>2, <1>5, <1>9, LoopIs, Zenon
<1>11. /\ s \in [0 .. N -> V] /\ s[0] = b
       /\ \A i \in 1 .. N : i - 1 \in 0 .. N /\ s[i] = Visit(cost, s[i - 1])
  <2>1. s \in [0 .. N -> V] /\ s[0] = b /\ \A i \in 1 .. N : s[i] = G[i][s[i - 1]]
    BY <1>10 DEF Loops
  <2>2. \A i \in 1 .. N : i - 1 \in 0 .. N
    BY <1>1
  <2> QED  BY <1>5, <2>1, <2>2
<1> DEFINE S == {n \in 0 .. N : Len(s[n]) = n + 1 \/ Ahead(cost, s[n]) = {}}
<1>12. \A n \in 0 .. N : n \in S
  <2>1. 0 \in S
    <3>1. s[0] = <<Origin>> /\ Len(<<Origin>>) = 0 + 1
      BY <1>11 DEF b
    <3>2. Len(s[0]) = 0 + 1 /\ 0 \in 0 .. N
      BY <1>1, <3>1
    <3> QED  BY <3>2
  <2>2. ASSUME NEW i \in 1 .. N, i - 1 \in S PROVE i \in S
    <3>1. s[i - 1] \in Walks /\ s[i] = Visit(cost, s[i - 1])
      BY <1>11 DEF V
    <3>2. CASE Ahead(cost, s[i - 1]) = {}
      <4>1. s[i] = s[i - 1]
        BY <3>1, <3>2, VisitIs
      <4> QED  BY <3>2, <4>1
    <3>3. CASE Ahead(cost, s[i - 1]) # {}
      <4>1. Len(s[i]) = Len(s[i - 1]) + 1 /\ Len(s[i - 1]) = i - 1 + 1
        BY <2>2, <3>1, <3>3, VisitIs
      <4> QED  BY <1>1, <4>1
    <3> QED  BY <3>2, <3>3
  <2> HIDE DEF S
  <2> QED  BY <1>1, <2>1, <2>2, StepByStep
<1>13. s[N] \in Walks /\ (Len(s[N]) = N + 1 \/ Ahead(cost, s[N]) = {})
  BY <1>1, <1>11, <1>12 DEF V
<1>14. Len(s[N]) = N + 1 => ToSet(stops) \subseteq ToSet(s[N])
  BY <1>13, LongWalk DEF N
<1> QED  BY <1>4, <1>13, <1>14

\* Soundness says nothing of the other variables.
TimeOf(without, order) ==
    LET seconds(leg) == IF leg \in without THEN CrowFlies[leg] ELSE Travel[leg]
    IN  Cardinality(UNION {{leg} \X (1 .. seconds(leg)) :
                              leg \in {<<order[i], order[i + 1]>> : i \in 1 .. Len(order) - 1}})

Sound(asked, without, found, by) ==
    /\ Head(found) = Origin /\ Last(found) = Destination /\ IsInjective(found)
    /\ ToSet(found) \subseteq ToSet(asked) \union {Origin, Destination}
    /\ \/ ToSet(asked) \subseteq ToSet(found)
       \/ by = "route_optimization_api"
       \/ /\ by = "greedy" /\ Len(asked) > LocalLimit
          /\ \A j \in ToSet(asked) \ ToSet(found) : <<Last(Front(found)), j>> \in without
    /\ by = "brute_force" =>
          \A other \in {p \in [DOMAIN asked -> ToSet(asked)] : IsInjective(p)} :
             TimeOf(without, found) <= TimeOf(without, Between(other))

\* Soundness of an order, in terms that have no primes inside.
LEMMA SoundIs ==
    /\ TourIsSound <=> Sound(stops, blocked, tour, solver)
    /\ TourIsSound' <=> Sound(stops', blocked', tour', solver')
    /\ Orders = {p \in [DOMAIN stops -> ToSet(stops)] : IsInjective(p)}
    /\ \A order : RouteTime(order) = TimeOf(blocked, order)
<1>1. TourIsSound <=> Sound(stops, blocked, tour, solver)
  BY Zenon DEF TourIsSound, Sound, TimeOf, RouteTime, Orders
<1>2. TourIsSound' <=> Sound(stops', blocked', tour', solver')
  BY Zenon DEF TourIsSound, Sound, TimeOf, RouteTime, Orders
<1>3. \A order : RouteTime(order) = TimeOf(blocked, order)
  BY Zenon DEF TimeOf, RouteTime
<1> QED  BY <1>1, <1>2, <1>3 DEF Orders

\* What a request is while it is answered.
TourInv == StopsKnown /\ (tourAt \in {"evaluate", "done"} => TourIsSound)

\* The order of a service, of the solver and of the nearest-first search is sound.
LEMMA FoundIsSound ==
    ASSUME StopsKnown, NEW order, NEW by,
           tour' = order /\ solver' = by /\ UNCHANGED <<stops, blocked>>,
           NEW o \in Walks, order = Append(o, Destination),
           \/ ToSet(stops) \subseteq ToSet(o)
           \/ by = "route_optimization_api"
           \/ /\ by = "greedy" /\ Len(stops) > LocalLimit
              /\ \A j \in ToSet(stops) \ ToSet(o) : <<Last(o), j>> \in blocked,
           by = "brute_force" => \A other \in Orders : RouteTime(order) <= RouteTime(Between(other))
    PROVE  TourInv'
<1>1. tour' = order /\ solver' = by /\ stops' = stops /\ blocked' = blocked
  OBVIOUS
<1>2. /\ IsInjective(order) /\ Head(order) = Origin /\ Last(order) = Destination /\ Front(order) = o
      /\ ToSet(order) = ToSet(o) \union {Destination} /\ ToSet(o) \subseteq ToSet(stops) \union {Origin}
  BY WalkEnds
<1>3. ToSet(order) \subseteq ToSet(stops) \union {Origin, Destination}
  BY <1>2
<1>4. ToSet(stops) \subseteq ToSet(o) => ToSet(stops) \subseteq ToSet(order)
  BY <1>2
<1>5. ASSUME \A j \in ToSet(stops) \ ToSet(o) : <<Last(o), j>> \in blocked
      PROVE  \A j \in ToSet(stops) \ ToSet(order) : <<Last(Front(order)), j>> \in blocked
  BY <1>2, <1>5
<1>6. TourIsSound'
  <2> DEFINE perms == {p \in [DOMAIN stops -> ToSet(stops)] : IsInjective(p)}
             T(x) == TimeOf(blocked, x)
  <2>1. by = "brute_force" => \A other \in perms : T(order) <= T(Between(other))
    BY SoundIs, Zenon
  <2> HIDE DEF perms, T
  <2>2. \/ ToSet(stops) \subseteq ToSet(order)
        \/ by = "route_optimization_api"
        \/ /\ by = "greedy" /\ Len(stops) > LocalLimit
           /\ \A j \in ToSet(stops) \ ToSet(order) : <<Last(Front(order)), j>> \in blocked
    BY <1>4, <1>5, Zenon
  <2>3. Sound(stops, blocked, order, by)
    BY <1>2, <1>3, <2>1, <2>2, Zenon DEF Sound, perms, T
  <2> QED  BY <1>1, <2>3, SoundIs
<1>7. StopsKnown'
  BY <1>1 DEF StopsKnown
<1> QED  BY <1>6, <1>7 DEF TourInv

\* The order of several stops that a rider is given, for any number of stops, any
\* times, any pairs without a route and whichever of the services fail: it goes
\* from the origin to the destination, comes to no stop twice and leaves out none
\* but those no search could reach; where all orders were tried, none is shorter
\* (services/route-optimization).
THEOREM ToursAreOrdered == TourSpec => []ToursAreSound
<1>1. TourInit => TourInv
  BY DEF TourInit, TourInv, StopsKnown
<1>2. TourInv /\ [TourNext]_tourVars => TourInv'
  <2> SUFFICES ASSUME TourInv, [TourNext]_tourVars PROVE TourInv'
    OBVIOUS
  <2>0. StopsKnown /\ (tourAt \in {"evaluate", "done"} => TourIsSound)
    BY DEF TourInv
  <2>s. Len(stops) \in Nat /\ DOMAIN stops = 1 .. Len(stops) /\ ToSet(stops) = 3 .. Len(stops) + 2
    BY <2>0, StopsAre
  <2>k. ASSUME UNCHANGED <<stops, blocked, tour, solver>>, tourAt \in {"evaluate", "done"} \/ tourAt' \notin {"evaluate", "done"}
        PROVE  TourInv'
    BY <2>0, <2>k, SoundIs DEF TourInv, StopsKnown
  <2>1. ASSUME NoStops PROVE TourInv'
    <3>1. stops = <<>> /\ Found(Between(<<>>), "greedy", "evaluate")
      BY <2>1 DEF NoStops
    <3>2. <<>> \in Seq(ToSet(stops)) /\ IsInjective(<<>>) /\ ToSet(stops) = {}
      BY <2>s, <3>1 DEF IsInjective, ToSet
    <3>3. PICK o \in Walks : Between(<<>>) = Append(o, Destination) /\ ToSet(o) = ToSet(<<>>) \union {Origin}
      BY <2>0, <3>2, BetweenIs
    <3> QED  BY <2>0, <3>1, <3>2, <3>3, FoundIsSound DEF Found
  <2>2. ASSUME OptimizeWithRoutesApi PROVE TourInv'
    <3>1. PICK m \in Orders : Found(Between(m), "routes_optimize_waypoint_order", "evaluate")
      BY <2>2 DEF OptimizeWithRoutesApi
    <3>2. m \in Seq(ToSet(stops)) /\ IsInjective(m) /\ ToSet(m) = ToSet(stops)
      BY <2>0, OrderIs
    <3>3. PICK o \in Walks : Between(m) = Append(o, Destination) /\ ToSet(o) = ToSet(m) \union {Origin}
      BY <2>0, <3>2, BetweenIs
    <3>4. ToSet(stops) \subseteq ToSet(o)
      BY <3>2, <3>3
    <3> QED  BY <2>0, <3>1, <3>3, <3>4, FoundIsSound DEF Found
  <2>3. ASSUME RoutesApiFails PROVE TourInv'
    BY <2>3, <2>k DEF RoutesApiFails, Goto
  <2>4. ASSUME OptimizeWithCloudApi PROVE TourInv'
    <3>1. PICK m \in Orders, n \in 0 .. Len(stops) :
             Found(Between(SubSeq(m, 1, n)), "route_optimization_api", "evaluate")
      BY <2>4 DEF OptimizeWithCloudApi
    <3>2. m \in Seq(ToSet(stops)) /\ Len(m) = Len(stops) /\ IsInjective(m)
      BY <2>0, OrderIs
    <3> DEFINE q == SubSeq(m, 1, n)
    <3>3. q \in Seq(ToSet(stops)) /\ Len(q) = n /\ DOMAIN q = 1 .. n /\ \A i \in 1 .. n : q[i] = m[i] /\ i \in DOMAIN m
      BY <2>s, <3>2
    <3> HIDE DEF q
    <3>4. IsInjective(q)
      BY <3>2, <3>3 DEF IsInjective
    <3>5. PICK o \in Walks : Between(q) = Append(o, Destination)
      BY <2>0, <3>3, <3>4, BetweenIs
    <3>6. Found(Between(q), "route_optimization_api", "evaluate")
      BY <3>1 DEF q
    <3> QED  BY <2>0, <3>5, <3>6, FoundIsSound DEF Found
  <2>5. ASSUME CloudApiFails PROVE TourInv'
    BY <2>5, <2>k DEF CloudApiFails, Goto
  <2>6. ASSUME BruteForceOptimize PROVE TourInv'
    <3>1. PICK m \in Orders : /\ \A other \in Orders : TourCost(Between(m)) <= TourCost(Between(other))
                              /\ Found(Between(m), "brute_force", "evaluate")
      BY <2>6 DEF BruteForceOptimize
    <3>2. \A x \in Orders : \E o \in Walks : Between(x) = Append(o, Destination) /\ ToSet(o) = ToSet(stops) \union {Origin}
      BY <2>0, OrderIs, BetweenIs
    <3>3. \A x \in Orders : RouteTime(Between(x)) = TourCost(Between(x))
      BY <2>0, <3>2, WalkEnds, CostIsTime
    <3>4. PICK o \in Walks : Between(m) = Append(o, Destination) /\ ToSet(o) = ToSet(stops) \union {Origin}
      BY <3>2
    <3>5. \A other \in Orders : RouteTime(Between(m)) <= RouteTime(Between(other))
      BY <3>1, <3>3
    <3>6. ToSet(stops) \subseteq ToSet(o)
      BY <3>4
    <3> QED  BY <2>0, <3>1, <3>4, <3>5, <3>6, FoundIsSound DEF Found
  <2>7. ASSUME GreedyOptimize PROVE TourInv'
    <3> DEFINE cost == [p \in DOMAIN Travel |-> Duration(p[1], p[2])]
    <3>1. Len(stops) > LocalLimit /\ Found(NearestFirst(cost), "greedy", "evaluate")
      BY <2>7 DEF GreedyOptimize
    <3>2. \A i, j \in Waypoints : cost[<<i, j>>] = Duration(i, j)
      BY <2>0, StopsAre
    <3> HIDE DEF cost
    <3>3. \A i, j \in Waypoints : /\ cost[<<i, j>>] \in Nat \union {NoRoute}
                                  /\ cost[<<i, j>>] = NoRoute => <<i, j>> \in blocked
      BY <2>0, <3>2, StopsAre, TourAssumption DEF Duration
    <3>4. PICK o \in Walks : /\ NearestFirst(cost) = Append(o, Destination)
                             /\ ToSet(stops) \subseteq ToSet(o) \/ Ahead(cost, o) = {}
      BY <2>0, <3>3, WalkIs
    <3>5. Last(o) \in Waypoints
      BY DEF Walks, Last
    <3>6. ToSet(stops) \subseteq Waypoints
      BY <2>s DEF Waypoints
    <3>7. Ahead(cost, o) = {} => \A j \in ToSet(stops) \ ToSet(o) : <<Last(o), j>> \in blocked
      BY <3>3, <3>5, <3>6 DEF Ahead
    <3> QED  BY <2>0, <3>1, <3>4, <3>7, FoundIsSound DEF Found
  <2>8. ASSUME MatrixFails PROVE TourInv'
    <3>1. /\ tour' = HaversineGreedy /\ solver' = "greedy" /\ UNCHANGED <<stops, blocked>>
      BY <2>8 DEF MatrixFails
    <3>2. \A i, j \in Waypoints : CrowFlies[<<i, j>>] \in Nat \union {NoRoute} /\ CrowFlies[<<i, j>>] # NoRoute
      BY <2>0, StopsAre, TourAssumption
    <3>3. PICK o \in Walks : /\ tour' = Append(o, Destination)
                             /\ ToSet(stops) \subseteq ToSet(o) \/ Ahead(CrowFlies, o) = {}
      BY <2>0, <3>1, <3>2, WalkIs DEF HaversineGreedy
    <3>4. Last(o) \in Waypoints
      BY DEF Walks, Last
    <3>5. ToSet(stops) \subseteq Waypoints
      BY <2>s DEF Waypoints
    <3>6. ToSet(stops) \subseteq ToSet(o)
      <4> SUFFICES ASSUME Ahead(CrowFlies, o) = {}, NEW j \in ToSet(stops), j \notin ToSet(o) PROVE FALSE
        BY <3>3
      <4>1. CrowFlies[<<Last(o), j>>] # NoRoute
        BY <3>2, <3>4, <3>5, Zenon
      <4> QED  BY <4>1 DEF Ahead
    <3> QED  BY <2>0, <3>1, <3>3, <3>6, FoundIsSound DEF Found
  <2>9. ASSUME EvaluateRoute PROVE TourInv'
    BY <2>9, <2>k DEF EvaluateRoute, WithLegs
  <2>10. ASSUME EvaluateFails PROVE TourInv'
    BY <2>10, <2>k DEF EvaluateFails, WithLegs, Goto
  <2>11. CASE UNCHANGED tourVars
    BY <2>11, <2>k DEF tourVars
  <2> QED
    BY <2>1, <2>2, <2>3, <2>4, <2>5, <2>6, <2>7, <2>8, <2>9, <2>10, <2>11 DEF TourNext
<1>3. TourInv => ToursAreSound
  BY DEF TourInv, ToursAreSound
<1> QED  BY <1>1, <1>2, <1>3, PTL DEF TourSpec

----------------------------------------------------------------------------
\* Wherever an order is handed over, the place was well chosen: the points of a
\* route, the stations of a train and the order of several stops are what their
\* searches promise, for all answers of the maps and the railways and all their
\* failures.
THEOREM PlacesAreChosenWell == PlacesSpec => []PlacesAreWellChosen
BY PointsAreWellChosen, StationsAreWellChosen, ToursAreOrdered, PTL DEF PlacesSpec, PlacesAreWellChosen

\* Whatever scene the services are in, each part runs as its own specification
\* says, or stands still: what is proved of the limiter, the caches, the places,
\* the plans or the catalog holds where they are put together.
THEOREM ScenesAreThemselves == Spec => LimitSpec /\ GatewaySpec /\ PlacesSpec /\ HandoffSpec /\ CatalogSpec
<1>1. Init => LimitInit /\ GatewayInit /\ SearchInit /\ TrainInit /\ TourInit /\ HandoffInit /\ CatalogInit
  BY DEF Init
<1>2. [Next]_<<scene, restVars>>
         => /\ [LimitNext]_limitVars /\ [GatewayNext]_gatewayVars /\ [SearchNext]_searchVars
            /\ [TrainNext]_trainVars /\ [TourNext]_tourVars /\ [HandoffNext]_handoffVars
            /\ [CatalogNext]_catalogVars
  BY DEF Next, restVars
<1> QED
  BY <1>1, <1>2, PTL DEF Spec, LimitSpec, GatewaySpec, PlacesSpec, SearchSpec, TrainSpec, TourSpec, HandoffSpec,
                         CatalogSpec

\* The places are well chosen where the services are put together, too.
THEOREM PlacesStayChosenWell == Spec => []PlacesAreWellChosen
BY ScenesAreThemselves, PlacesAreChosenWell, PTL

=============================================================================
