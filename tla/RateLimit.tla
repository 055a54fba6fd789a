------------------------------- MODULE RateLimit -------------------------------
(***************************************************************************)
(* The limiter in front of every API route (middleware/rate-limit.ts) and  *)
(* its two stores (lib/rate-limit): token buckets in the process, refilled *)
(* on access, or counters in Redis that expire with their window.          *)
(*                                                                         *)
(* Time passes in ticks, PerSecond of them to a second.  The fractional    *)
(* tokens of a bucket are exact: a token is Window units, a tick refills   *)
(* Limit units.  A store call in Redis is INCR, EXPIRE for the first       *)
(* request of a window, and TTL; the bucket is read and written in one     *)
(* step, its cap of 10,000 keys is never reached here (the cache that      *)
(* implements it is modelled in MapsGateway).  A key stands for a client   *)
(* address.                                                                *)
(***************************************************************************)
EXTENDS Integers, Sequences, FiniteSets

CONSTANTS Clients,        \* keys of the limiter
          Handlers,       \* requests in progress
          Limit,          \* API_PER_IP_PER_MIN
          Window,         \* WINDOW_MS, in ticks
          PerSecond,      \* ticks per second
          LimitModes,     \* choices of store, overlap and faults of one behaviour
          MaxLimitFaults  \* bound on failing Redis calls and restarts

ASSUME RateLimitAssumption ==
    /\ Limit \in Nat \ {0} /\ Window \in Nat \ {0} /\ PerSecond \in Nat \ {0}
    /\ LimitModes \subseteq [store : {"memory", "redis"}, overlap : BOOLEAN, faults : BOOLEAN]

VARIABLES bucket,     \* per client: [units, idle] of the memory store, or NoBucket
          counter,    \* per client: [count, left] of the Redis key, left = ticks to live
          handling,   \* per handler: the store call it is in
          granted,    \* per client: requests granted in each of the last Window ticks, newest first
          told,       \* per client: ticks left of the Retry-After it was last told, or NoWait
          refusedEarly, \* clients refused again although they waited as long as told
          limitFaults,
          limitMode

limitVars == <<bucket, counter, handling, granted, told, refusedEarly, limitFaults, limitMode>>
storeVars == <<bucket, counter>>

NoBucket == [units |-> -1, idle |-> 0]
Forever  == -1                        \* TTL of a key that has no expiry
Gone     == [count |-> 0, left |-> Forever]
Free     == [at |-> "free"]
NoWait   == -1
Ceiling(n, d) == (n + d - 1) \div d

LimitTypes ==
    /\ bucket \in [Clients -> {NoBucket} \union [units : 0 .. Limit * Window, idle : 0 .. Window]]
    /\ counter \in [Clients -> [count : 0 .. Limit + 1, left : {Forever} \union 1 .. Window]]
    /\ handling \in [Handlers -> {Free} \union
          [at : {"expire", "ttl"}, client : Clients, count : 1 .. Limit + 1]]
    /\ granted \in [Clients -> [1 .. Window -> Nat]]
    /\ told \in [Clients -> {NoWait} \union 0 .. Window]
    /\ refusedEarly \subseteq Clients
    /\ limitFaults \in Nat /\ limitMode \in LimitModes

LimitInit ==
    /\ bucket = [c \in Clients |-> NoBucket]
    /\ counter = [c \in Clients |-> Gone]
    /\ handling = [h \in Handlers |-> Free]
    /\ granted = [c \in Clients |-> [i \in 1 .. Window |-> 0]]
    /\ told = [c \in Clients |-> NoWait]
    /\ refusedEarly = {}
    /\ limitFaults = 0
    /\ limitMode \in LimitModes

----------------------------------------------------------------------------
\* the outcome of a request

GrantsOf(grants, ticks) == UNION {{i} \X (1 .. grants[i]) : i \in ticks}
Granted(c) == Cardinality(GrantsOf(granted[c], 1 .. Window))

\* a request is granted when it is counted, which is when the store decides
Grant(c) == granted' = [granted EXCEPT ![c][1] = @ + 1]

\* `await next()`
Admit(c) == told' = [told EXCEPT ![c] = NoWait] /\ UNCHANGED refusedEarly

\* 429 with the seconds to wait; a client refused after it has waited is noted
Refuse(c, seconds) ==
    /\ refusedEarly' = refusedEarly \union (IF told[c] = 0 THEN {c} ELSE {})
    /\ told' = [told EXCEPT ![c] = IF seconds * PerSecond > Window THEN Window ELSE seconds * PerSecond]

Alone(h) == limitMode.overlap \/ \A g \in Handlers \ {h} : handling[g] = Free

----------------------------------------------------------------------------
\* the memory store

\* Mutant: idle time is credited without end.
RefilledUncapped(b) == b.units + b.idle * Limit

Refilled(b) == IF b.units + b.idle * Limit > Limit * Window THEN Limit * Window
               ELSE b.units + b.idle * Limit

\* Mutant: the wait is rounded down.
RetryAfterFloor(units) == LET s == (Window - units) \div (Limit * PerSecond)
                          IN  IF s < 1 THEN 1 ELSE s

\* Math.max(1, Math.ceil(deficit * (windowMs / limit) / 1000))
RetryAfter(units) == LET s == Ceiling(Window - units, Limit * PerSecond)
                     IN  IF s < 1 THEN 1 ELSE s

ConsumeMemory(c) ==
    LET units == IF bucket[c] = NoBucket THEN Limit * Window ELSE Refilled(bucket[c])
        left  == IF units >= Window THEN units - Window ELSE units
    IN  /\ limitMode.store = "memory"
        /\ bucket' = [bucket EXCEPT ![c] = [units |-> left, idle |-> 0]]
        /\ \/ units >= Window /\ Grant(c) /\ Admit(c)
           \/ units < Window /\ Refuse(c, RetryAfter(units)) /\ UNCHANGED granted
        /\ UNCHANGED <<counter, handling, limitFaults, limitMode>>

----------------------------------------------------------------------------
\* the Redis store: each command is a step of its own

Incr(h, c) ==
    LET n == IF counter[c].count > Limit THEN Limit + 1 ELSE counter[c].count + 1
    IN  /\ limitMode.store = "redis" /\ handling[h] = Free /\ Alone(h)
        /\ counter' = [counter EXCEPT ![c].count = n]
        /\ handling' = [handling EXCEPT ![h] =
             [at |-> IF n = 1 THEN "expire" ELSE "ttl", client |-> c, count |-> n]]
        /\ \/ n <= Limit /\ Grant(c)
           \/ n > Limit /\ UNCHANGED granted
        /\ UNCHANGED <<bucket, told, refusedEarly, limitFaults, limitMode>>

Expire(h) ==
    /\ handling[h].at = "expire"
    /\ LET c == handling[h].client
       IN  counter' = IF counter[c].count = 0 THEN counter
                      ELSE [counter EXCEPT ![c].left = Window]
    /\ handling' = [handling EXCEPT ![h].at = "ttl"]
    /\ UNCHANGED <<bucket, granted, told, refusedEarly, limitFaults, limitMode>>

\* TTL answers in seconds, rounded to the nearest, and a negative number for
\* a key that does not expire or is gone
TtlSeconds(c) == IF counter[c].left = Forever THEN -1
                 ELSE (2 * counter[c].left + PerSecond) \div (2 * PerSecond)

ReadTtl(h) ==
    /\ handling[h].at = "ttl"
    /\ LET c == handling[h].client
           s == TtlSeconds(c)
       IN  \/ handling[h].count <= Limit /\ Admit(c)
           \/ handling[h].count > Limit /\ Refuse(c, IF s < 1 THEN 1 ELSE s)
    /\ handling' = [handling EXCEPT ![h] = Free]
    /\ UNCHANGED <<bucket, counter, granted, limitFaults, limitMode>>

\* a command raises: the request is answered with an error and not admitted
RedisFails(h) ==
    /\ limitMode.faults /\ limitFaults < MaxLimitFaults /\ handling[h] /= Free
    /\ handling' = [handling EXCEPT ![h] = Free]
    /\ limitFaults' = limitFaults + 1
    /\ UNCHANGED <<storeVars, granted, told, refusedEarly, limitMode>>

----------------------------------------------------------------------------
\* time

\* a Redis key at the end of its life is removed with its count; requests
\* answered promptly leave none in progress over a tick
Second ==
    /\ limitMode.overlap \/ \A h \in Handlers : handling[h] = Free
    /\ bucket' = [c \in Clients |-> IF bucket[c] = NoBucket \/ bucket[c].idle = Window THEN bucket[c]
                                     ELSE [bucket[c] EXCEPT !.idle = @ + 1]]
    /\ counter' = [c \in Clients |->
         CASE counter[c].left = Forever -> counter[c]
           [] counter[c].left = 1 -> Gone
           [] OTHER -> [counter[c] EXCEPT !.left = @ - 1]]
    /\ granted' = [c \in Clients |-> [i \in 1 .. Window |-> IF i = 1 THEN 0 ELSE granted[c][i - 1]]]
    /\ told' = [c \in Clients |-> IF told[c] > 0 THEN told[c] - 1 ELSE told[c]]
    /\ UNCHANGED <<handling, refusedEarly, limitFaults, limitMode>>

\* the buckets, and the requests, are lost with the process
RestartLimiter ==
    /\ limitMode.faults /\ limitFaults < MaxLimitFaults
    /\ bucket' = [c \in Clients |-> NoBucket]
    /\ handling' = [h \in Handlers |-> Free]
    /\ limitFaults' = limitFaults + 1
    /\ UNCHANGED <<counter, granted, told, refusedEarly, limitMode>>

LimitNext ==
    \/ \E c \in Clients : ConsumeMemory(c)
    \/ \E h \in Handlers, c \in Clients : Incr(h, c)
    \/ \E h \in Handlers : Expire(h) \/ ReadTtl(h) \/ RedisFails(h)
    \/ Second
    \/ RestartLimiter

LimitSpec == LimitInit /\ [][LimitNext]_limitVars

----------------------------------------------------------------------------
\* Whatever the store, the overlap of requests and the Redis calls that fail,
\* no client has more than twice its limit granted within one window: a full
\* bucket and its refill, or the end of one counter and the start of the next.
\* Each restart of the process gives the memory store one more full bucket.
AdmitsAtMostTwice == \A c \in Clients :
    Granted(c) <= Limit * (2 + IF limitMode.store = "memory" THEN limitFaults ELSE 0)

\* A client that waits as many seconds as the 429 told it, and has had no other
\* request admitted since, is not refused again by the memory store.  Redis rounds
\* TTL to the nearest second: while requests do not overlap and no command fails,
\* the counter of such a client ends at most half a second after its wait.
RetryAfterIsEnough ==
    /\ limitMode.store = "memory" => refusedEarly = {}
    /\ limitMode.store = "redis" /\ ~(limitMode.overlap \/ limitMode.faults) =>
          \A c \in Clients :
             (\A h \in Handlers : handling[h] = Free) /\ told[c] /= NoWait =>
                \/ counter[c] = Gone
                \/ counter[c].left /= Forever /\ 2 * counter[c].left <= 2 * told[c] + PerSecond

\* The two promises of the limiter, to the services behind it and to the clients
\* in front (middleware/rate-limit.ts, lib/rate-limit).
LimiterKeepsItsWord == AdmitsAtMostTwice /\ RetryAfterIsEnough

=============================================================================
