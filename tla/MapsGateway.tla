------------------------------ MODULE MapsGateway ------------------------------
(***************************************************************************)
(* The clients of the map, weather, air, places and train services: each   *)
(* looks a key up in a cache with expiry and bounded size, and on a miss   *)
(* calls a service, with retries or with other services to fall back to,   *)
(* and stores what it was told.  Concurrent callers do not know of each    *)
(* other: two that miss both call, and both store.                         *)
(*                                                                         *)
(* What one client does is a plan, one operator per function of the code:  *)
(* whether it reads the cache, which services it asks in which order, how  *)
(* often each is tried and after which errors, and what becomes of a       *)
(* failure.  One behaviour serves the plans that share one cache.  Ages    *)
(* and waits are counted in ticks; the contents of the answers are left    *)
(* out.  Addresses given as text are resolved before a route is asked for; *)
(* the calls modelled here are given places.                               *)
(***************************************************************************)
EXTENDS Integers, Sequences, SequencesExt

CONSTANTS Callers,     \* requests of the API that use a client
          Words,       \* the arguments of a call, up to what the key tells apart
          Capacity,    \* maxSize of the cache
          Ttl,         \* its expiry, in ticks
          TokenLife,   \* expires_in of an access token, in ticks
          TokenMargin, \* the 60 s for which a token must still be good
          AdcPause,    \* the 5 minutes without another attempt to get a token
          MaxWait      \* bound on the ticks one token call takes

ASSUME GatewayAssumption ==
    /\ Capacity \in Nat \ {0} /\ Ttl \in Nat \ {0}
    /\ TokenMargin \in Nat /\ TokenLife \in Nat /\ AdcPause \in Nat /\ MaxWait \in Nat
    /\ MaxWait < TokenLife  \* the two calls are given up after 0.8 s and 2 s

VARIABLES held,       \* the Map of the cache, oldest first: [key, age]
          recent,     \* the keys used last, newest first, with the age of what was stored
          caller,     \* per caller: idle, asking for a token, calling, or its answer
          token,      \* ticks the cached access token is good for, 0 without one
          adcPause,   \* ticks until a token is asked for again
          plans       \* the plans of this behaviour

gatewayVars == <<held, recent, caller, token, adcPause, plans>>

Expired == Ttl + 1
Idle == [at |-> "idle"]

----------------------------------------------------------------------------
\* the plans

Service(tries, after) == [tries |-> tries, after |-> after, token |-> FALSE]

\* withGoogleRetry: three attempts, repeated only after a refusal
Google == Service(3, {"refused"})
Once == Service(1, {})

\* reads: the cache is looked up; rounds: calls that must all succeed;
\* absent: "no such data" is an answer and is stored; last: what a failure of
\* every service becomes
Plan(name, cache, services) ==
    [name |-> name, cache |-> cache, reads |-> TRUE, services |-> services,
     rounds |-> 1, absent |-> FALSE, last |-> "throw"]

ComputeRoute       == Plan("route", "route", <<Google>>)
\* with a departure time, which every traffic-aware call is given, the answer
\* is stored but never looked up
ComputeRouteAtTime == [Plan("routeAtTime", "route", <<Google>>) EXCEPT !.reads = FALSE]
ComputeRouteMatrix == Plan("matrix", "matrix", <<Once>>)
Geocode            == Plan("geo", "geocode", <<Google>>)
ReverseGeocode     == Plan("rgeo", "geocode", <<Once>>)
ValidateAddress    == Plan("av", "address", <<Google>>)
SnapToRoads        == Plan("snap", "roads", <<Google>>)
GetSpeedLimits     == Plan("sl", "roads", <<Once>>)
GenerateIsochrone  == Plan("iso", "isochrone", <<Google>>)
\* Places Aggregate needs an access token; then Nearby Search; then a guess
\* from the coordinates, which is stored like an answer
CountRestaurants   == [Plan("pc", "places", <<[Once EXCEPT !.token = TRUE], Once>>)
                         EXCEPT !.last = "guess"]
CurrentConditions  == Plan("current", "wxCurrent", <<Once>>)
HourlySnapshot     == Plan("hourly", "wxHourly", <<Once>>)
Alerts             == Plan("alerts", "wxAlerts", <<Once>>)
AirQuality         == Plan("aq", "air", <<Once>>)
Pollen             == [Plan("pollen", "pollen", <<Once>>) EXCEPT !.absent = TRUE]
\* the train, then its run and schedule, each request of NTES repeated after
\* any error; a failure is answered as unavailable and not stored
TrainRun           == [Plan("train", "train", <<Service(3, {"refused", "broken"})>>)
                         EXCEPT !.rounds = 2, !.last = "unavailable"]

Plans == {ComputeRoute, ComputeRouteAtTime, ComputeRouteMatrix, Geocode, ReverseGeocode,
          ValidateAddress, SnapToRoads, GetSpeedLimits, GenerateIsochrone, CountRestaurants,
          CurrentConditions, HourlySnapshot, Alerts, AirQuality, Pollen, TrainRun}

Key(p, w) == <<p.name, w>>

GatewayTypes ==
    /\ Len(held) <= Capacity /\ IsInjective([i \in 1 .. Len(held) |-> held[i].key])
    /\ \A i \in 1 .. Len(held) : held[i].age \in 0 .. Expired
    /\ token \in 0 .. TokenLife /\ adcPause \in 0 .. AdcPause
    /\ plans \subseteq Plans

GatewayInit ==
    /\ held = <<>> /\ recent = <<>>
    /\ caller = [c \in Callers |-> Idle]
    /\ token = 0 /\ adcPause = 0
    /\ \E p \in Plans : plans = {q \in Plans : q.cache = p.cache}

----------------------------------------------------------------------------
\* TtlLruCache

Has(s, k)     == \E i \in 1 .. Len(s) : s[i].key = k
Where(s, k)   == CHOOSE i \in 1 .. Len(s) : s[i].key = k
Without(s, k) == IF Has(s, k) THEN RemoveAt(s, Where(s, k)) ELSE s

EntryOf(k) == held[Where(held, k)]
Hit(k)   == Has(held, k) /\ EntryOf(k).age /= Expired

\* Mutant: a hit leaves the entry where it is.
GetInPlace(k) == IF Hit(k) THEN held ELSE Without(held, k)

\* what get(k) leaves: an expired entry is removed, any other becomes the newest
Get(k) == IF Hit(k) THEN Append(Without(held, k), EntryOf(k)) ELSE Without(held, k)

\* set(k): at capacity a new key takes the place of the oldest
Set(k) ==
    LET kept == IF ~Has(held, k) /\ Len(held) >= Capacity THEN Tail(held) ELSE Without(held, k)
    IN  Append(kept, [key |-> k, age |-> 0])

\* k was used or stored just now
Touch(k, age) ==
    LET r == <<[key |-> k, age |-> age]>> \o Without(recent, k)
    IN  recent' = SubSeq(r, 1, IF Len(r) > Capacity THEN Capacity ELSE Len(r))

----------------------------------------------------------------------------
\* a call

\* the first attempt at service i, for which a token may be needed
Attempt(p, w, i, round) ==
    [at |-> IF p.services[i].token THEN "token" ELSE "call",
     plan |-> p, word |-> w, service |-> i, try |-> 1, round |-> round, waited |-> 0, good |-> 0]

Answer(what, age) == [at |-> "answered", what |-> what, age |-> age]

Ask(c, p, w) ==
    LET k == Key(p, w)
    IN  /\ caller[c] = Idle /\ p \in plans
        /\ \/ /\ p.reads /\ Hit(k)
              /\ held' = Get(k)
              /\ Touch(k, EntryOf(k).age)
              /\ caller' = [caller EXCEPT ![c] = Answer("hit", EntryOf(k).age)]
           \/ /\ ~(p.reads /\ Hit(k))
              /\ held' = IF p.reads THEN Get(k) ELSE held
              /\ caller' = [caller EXCEPT ![c] = Attempt(p, w, 1, 1)]
              /\ UNCHANGED recent
        /\ UNCHANGED <<token, adcPause, plans>>

\* the answer of a caller is stored and given to it
Store(c, what) ==
    LET k == Key(caller[c].plan, caller[c].word)
    IN  /\ held' = Set(k)
        /\ Touch(k, 0)
        /\ caller' = [caller EXCEPT ![c] = Answer(what, 0)]

AskNextService(c) ==
    /\ caller' = [caller EXCEPT ![c] =
          Attempt(caller[c].plan, caller[c].word, caller[c].service + 1, caller[c].round)]
    /\ UNCHANGED <<held, recent>>

\* a service is given up: the next one is asked, or the failure is dealt with
GiveUp(c) ==
    LET p == caller[c].plan
    IN  \/ caller[c].service < Len(p.services) /\ AskNextService(c)
        \/ caller[c].service = Len(p.services) /\ p.last = "guess" /\ Store(c, "guess")
        \/ /\ caller[c].service = Len(p.services) /\ p.last /= "guess"
           /\ caller' = [caller EXCEPT ![c] = Answer(p.last, 0)]
           /\ UNCHANGED <<held, recent>>

Succeeds(c) ==
    /\ caller[c].at = "call"
    /\ \/ caller[c].round = caller[c].plan.rounds /\ Store(c, "told")
       \/ /\ caller[c].round < caller[c].plan.rounds
          /\ caller' = [caller EXCEPT ![c] = Attempt(caller[c].plan, caller[c].word, 1, caller[c].round + 1)]
          /\ UNCHANGED <<held, recent>>
    /\ UNCHANGED <<token, adcPause, plans>>

\* `how`: "refused" is an error that Google asks to repeat, "broken" any other
Fails(c, how) ==
    LET s == caller[c].plan.services[caller[c].service]
    IN  /\ caller[c].at = "call"
        /\ \/ /\ how \in s.after /\ caller[c].try < s.tries
              /\ caller' = [caller EXCEPT ![c].try = @ + 1]
              /\ UNCHANGED <<held, recent>>
           \/ ~(how \in s.after /\ caller[c].try < s.tries) /\ GiveUp(c)
        /\ UNCHANGED <<token, adcPause, plans>>

\* 404 or 400 from a service that has no data for the place
NoSuchData(c) ==
    /\ caller[c].at = "call" /\ caller[c].plan.absent
    /\ Store(c, "absent")
    /\ UNCHANGED <<token, adcPause, plans>>

Return(c) ==
    /\ caller[c].at = "answered"
    /\ caller' = [caller EXCEPT ![c] = Idle]
    /\ UNCHANGED <<held, recent, token, adcPause, plans>>

----------------------------------------------------------------------------
\* getGoogleAccessToken

\* the token in the cache is handed out while it is good for longer than the
\* margin; otherwise, and unless the last attempt failed lately, one is fetched
UseToken(c) ==
    /\ caller[c].at = "token" /\ caller[c].waited = 0 /\ token > TokenMargin
    /\ caller' = [caller EXCEPT ![c].at = "call", ![c].good = token]
    /\ UNCHANGED <<held, recent, token, adcPause, plans>>

NoToken(c) ==
    /\ caller[c].at = "token" /\ caller[c].waited = 0 /\ token <= TokenMargin /\ adcPause > 0
    /\ AskNextService(c)
    /\ UNCHANGED <<token, adcPause, plans>>

\* the fetch has begun: its ticks are counted from here, and so is the life of
\* the token it brings
FetchToken(c) ==
    /\ caller[c].at = "token" /\ token <= TokenMargin /\ adcPause = 0
    /\ caller' = [caller EXCEPT ![c].at = "fetch"]
    /\ UNCHANGED <<held, recent, token, adcPause, plans>>

TokenFetched(c) ==
    LET life == TokenLife - caller[c].waited
    IN  /\ caller[c].at = "fetch"
        /\ token' = life
        /\ caller' = [caller EXCEPT ![c].at = "call", ![c].good = life]
        /\ UNCHANGED <<held, recent, adcPause, plans>>

TokenFails(c) ==
    /\ caller[c].at = "fetch"
    /\ adcPause' = IF caller[c].waited < AdcPause THEN AdcPause - caller[c].waited ELSE 0
    /\ AskNextService(c)
    /\ UNCHANGED <<token, plans>>

----------------------------------------------------------------------------
\* time: everything held grows older

Older(s) == [i \in 1 .. Len(s) |-> [s[i] EXCEPT !.age = IF @ = Expired THEN @ ELSE @ + 1]]

TimePasses ==
    /\ \A c \in Callers : caller[c].at = "fetch" => caller[c].waited < MaxWait
    /\ held' = Older(held) /\ recent' = Older(recent)
    /\ caller' = [c \in Callers |-> IF caller[c].at = "fetch" THEN [caller[c] EXCEPT !.waited = @ + 1]
                                    ELSE caller[c]]
    /\ token' = IF token > 0 THEN token - 1 ELSE 0
    /\ adcPause' = IF adcPause > 0 THEN adcPause - 1 ELSE 0
    /\ UNCHANGED plans

GatewayNext ==
    \/ \E c \in Callers, p \in plans, w \in Words : Ask(c, p, w)
    \/ \E c \in Callers : Succeeds(c) \/ NoSuchData(c) \/ Return(c)
    \/ \E c \in Callers, how \in {"refused", "broken"} : Fails(c, how)
    \/ \E c \in Callers : UseToken(c) \/ NoToken(c) \/ FetchToken(c) \/ TokenFetched(c) \/ TokenFails(c)
    \/ TimePasses

GatewaySpec == GatewayInit /\ [][GatewayNext]_gatewayVars

----------------------------------------------------------------------------
\* However the calls of concurrent callers overlap, a hit is never older than
\* the expiry of the cache; of the keys that were used last, as many as the
\* cache may hold, those that have not expired are held, whatever was stored
\* and expired in between; and a token put on a call is good when it is put.
CachesKeepTheirWord ==
    /\ \A c \in Callers : caller[c].at = "answered" => caller[c].age <= Ttl
    /\ \A i \in 1 .. Len(recent) :
          recent[i].age <= Ttl => \E j \in 1 .. Len(held) : held[j] = recent[i]
    /\ \A c \in Callers : caller[c].at = "call" /\ caller[c].plan.services[caller[c].service].token
          => caller[c].good > 0

=============================================================================
