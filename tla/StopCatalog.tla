------------------------------ MODULE StopCatalog ------------------------------
(***************************************************************************)
(* What a traveller is shown of a stop: its kitchens and goods, the area a *)
(* rider can reach it from, how it is covered, and the preview of a        *)
(* checkout there (routes/intercepts.ts, routes/swiggy-commerce.ts,        *)
(* services/fusion, order/restaurant-rank.ts).                             *)
(*                                                                         *)
(* Each handler is a list of calls that follow the check of the owner; a   *)
(* step is one call.  Handlers run at the same time on one table of stops  *)
(* and on the one cart an account has at Swiggy.  An area is what is known *)
(* of it: whether a call for it worked, whether the polygon is there and   *)
(* the halt it was computed for.  The words of an answer are left out.     *)
(***************************************************************************)
EXTENDS Integers, Sequences, SequencesExt, FiniteSets, FiniteSetsExt, TLC

CONSTANTS Accounts,
          Stops,       \* per stop of a journey: [owner, dwell]
          Workers,     \* requests in progress
          Errands,     \* choices of what each of them is about: [kind, account, stop, eta, valid]
          StoredZones, \* choices of what the analysis stored of the stops: [ok, area, span] or Absent
          Kitchens,    \* the answer of searchRestaurants: [open, located, inside, km, crow] by number
          RideTimes,   \* what the matrix says per kitchen, or Absent
          Absent

VARIABLES zone,     \* per stop: the stored area (reachabilityJson)
          cart,     \* per account, food and Instamart: the request whose items are in it at Swiggy
          errand,   \* per worker: its request
          work      \* per worker: [calls, status, seen, have, lacking, list, shown]

catalogVars == <<zone, cart, errand, work>>

----------------------------------------------------------------------------
\* The handlers: their calls after the owner is checked, and the statuses they
\* answer with when there is no address, when Swiggy refuses another call and
\* when another call throws; without a status the handler goes on without it.

Handler(calls, address, refused, thrown) ==
    [calls |-> calls, address |-> address, refused |-> refused, thrown |-> thrown]
Intercept(calls, address) == Handler(calls, {address}, {502}, {500})
Commerce(calls)  == Handler(calls, {401, 502}, {401, 502}, {401, 502})
Forgiving(calls) == Handler(calls, {}, {}, {})

\* Mutant: the area of the approaching customer is stored as that of the stop.
GetRestaurantsStores == Intercept(<<"address", "search", "zone", "keep", "rank">>, 502)

GetReachability == Forgiving(<<"zone", "keep">>)
GetRestaurants  == Intercept(<<"address", "search", "zone", "rank">>, 502)
GetMenu         == Intercept(<<"address", "menu">>, 502)
GetProducts     == Intercept(<<"address", "products">>, 502)
MenuSearch      == Intercept(<<"address", "dishes">>, 401)
GoTo            == Intercept(<<"address", "goto">>, 401)
GetCoverage     == Forgiving(<<"address", "zone", "search", "products", "goto">>)
MealHint        == Forgiving(<<>>)
HaltGate        == Forgiving(<<>>)
ReIntercept     == Forgiving(<<>>)
PostAddress     == Commerce(<<"address">>)
Coupons         == Commerce(<<"address", "coupons">>)
CheckoutPreview == Handler(<<"address", "update", "coupon", "read", "coupons">>, {401, 502}, {}, {401, 502})
BasketPreview   == Handler(<<"address", "update", "read">>, {401, 502}, {}, {401, 502})

CatalogHandlers ==
    [reachability |-> GetReachability, restaurants |-> GetRestaurants, menu |-> GetMenu,
     products |-> GetProducts, dishes |-> MenuSearch, goto |-> GoTo, coverage |-> GetCoverage,
     meal |-> MealHint, halt |-> HaltGate, other |-> ReIntercept, address |-> PostAddress,
     coupons |-> Coupons, preview |-> CheckoutPreview, basket |-> BasketPreview]

OrAbsent(S) == {Absent} \union S
Kits == [open : BOOLEAN, located : BOOLEAN, inside : BOOLEAN, km : OrAbsent(Nat), crow : Nat]

\* Swiggy's distances are whole kilometres here; the matrix knows no ride of four
\* hours
ASSUME KitchensAssumption ==
    /\ Absent \notin BOOLEAN
    /\ Kitchens \in Seq(Kits)
    /\ \A times \in RideTimes, i \in DOMAIN Kitchens : times[i] \in OrAbsent(0 .. 14400)

\* only a request for restaurants bears an estimated arrival
ASSUME ErrandsAssumption ==
    \A e \in Errands, w \in Workers :
        /\ e[w].kind \in DOMAIN CatalogHandlers /\ e[w].account \in Accounts
        /\ e[w].eta \in OrAbsent(Nat)
        /\ e[w].kind /= "restaurants" => e[w].eta = Absent

\* the analysis computes an area for the whole halt
ASSUME ZonesAssumption ==
    /\ \A s \in DOMAIN Stops : Stops[s].dwell \in Nat
    /\ StoredZones \subseteq [DOMAIN Stops -> OrAbsent([ok : BOOLEAN, area : BOOLEAN, span : Nat])]
    /\ \A z \in StoredZones, s \in DOMAIN Stops : z[s] /= Absent => z[s].span = Stops[s].dwell

NotYet == 0
NothingFound == [search |-> 0, products |-> 0, goto |-> 0]
Previews == {"preview", "basket"}
NoWork == [calls |-> <<"admit">>, status |-> NotYet, seen |-> Absent, have |-> Absent,
           lacking |-> {}, list |-> <<>>, shown |-> Absent, found |-> NothingFound]

CatalogInit ==
    /\ zone \in StoredZones
    /\ cart = [c \in Accounts \X Previews |-> Absent]
    /\ errand \in Errands
    /\ work = [w \in Workers |-> NoWork]

----------------------------------------------------------------------------
Doing(w, call) == work[w].status = NotYet /\ work[w].calls # <<>> /\ Head(work[w].calls) = call

\* the next call; the last one is the answer
After(job) ==
    [job EXCEPT !.calls = Tail(job.calls), !.status = IF Len(job.calls) = 1 THEN 200 ELSE NotYet]
Goes(w, job) == work' = [work EXCEPT ![w] = job]
Refuses(w, status) == Goes(w, [work[w] EXCEPT !.status = status, !.calls = <<>>])

\* requireInterceptOwnership, requireInterceptForUser: a stop that is not there
\* and one of somebody else look the same
Owned(e) == e.stop \in DOMAIN Stops /\ Stops[e.stop].owner = e.account

AdmitRequest(w) ==
    LET e == errand[w] calls == CatalogHandlers[e.kind].calls
    IN  /\ Doing(w, "admit")
        /\ \/ e.kind = "dishes" /\ ~e.valid /\ Refuses(w, 400)
           \/ (e.kind = "dishes" => e.valid) /\ ~Owned(e) /\ Refuses(w, 404)
           \/ /\ (e.kind = "dishes" => e.valid) /\ Owned(e)
              /\ Goes(w, [work[w] EXCEPT !.calls = calls, !.seen = zone[e.stop], !.have = zone[e.stop],
                                         !.status = IF calls = <<>> THEN 200 ELSE NotYet])
        /\ UNCHANGED <<zone, cart, errand>>

\* the calls to Swiggy
Asks == {"address", "search", "menu", "products", "dishes", "goto", "coupons", "coupon", "update", "read"}

\* a coverage without an address asks Swiggy nothing more
Skips(w, call) ==
    errand[w].kind = "coverage" /\ "address" \in work[w].lacking /\ call \in {"search", "products", "goto"}

CallSucceeds(w) ==
    \E call \in Asks \ {"update", "read"} :
        /\ Doing(w, call) /\ ~Skips(w, call)
        /\ call = "address" /\ errand[w].kind = "preview" => errand[w].valid
        /\ \E n \in {0, 2, 12} :
              Goes(w, After([work[w] EXCEPT !.found = [c \in DOMAIN @ |-> IF c = call THEN n ELSE @[c]]]))
        /\ UNCHANGED <<zone, cart, errand>>

CallFails(w) ==
    \E call \in Asks :
        LET h == CatalogHandlers[errand[w].kind]
            statuses == IF call = "address" THEN {h.address} ELSE {h.refused, h.thrown}
        IN  /\ Doing(w, call)
            /\ \E how \in statuses :
                  IF how = {} THEN Goes(w, After([work[w] EXCEPT !.lacking = @ \union {call}]))
                  ELSE \E status \in how : Refuses(w, status)
            /\ UNCHANGED <<zone, cart, errand>>

\* a food preview without a restaurant is refused once there is an address
RefusesPreview(w) ==
    /\ Doing(w, "address") /\ errand[w].kind = "preview" /\ ~errand[w].valid
    /\ Refuses(w, 400) /\ UNCHANGED <<zone, cart, errand>>

\* also when the answer that it worked is lost
UpdateCart(w) ==
    /\ Doing(w, "update")
    /\ cart' = [cart EXCEPT ![<<errand[w].account, errand[w].kind>>] = w]
    /\ Goes(w, After(work[w])) \/ \E status \in {401, 502} : Refuses(w, status)
    /\ UNCHANGED <<zone, errand>>

GetCart(w) ==
    /\ Doing(w, "read") /\ Goes(w, After([work[w] EXCEPT !.shown = cart[<<errand[w].account, errand[w].kind>>]]))
    /\ UNCHANGED <<zone, cart, errand>>

----------------------------------------------------------------------------
\* the area a rider can reach the stop from

\* the halt, cut to the time until the customer is there
Budget(dwell, eta) == LET b == IF eta < dwell THEN eta ELSE dwell
                      IN  IF b < 90 THEN 90 ELSE IF b > 1500 THEN 1500 ELSE b
Shrunk(dwell, eta) == Budget(dwell, eta) < dwell - 30

Built(span) == {[ok |-> rider \/ walk, area |-> rider, span |-> span] : rider, walk \in BOOLEAN}

\* a stored area is used again if its polygon is there
EnsureInterceptReachability(seen, dwell) ==
    IF seen # Absent /\ seen.ok /\ seen.area THEN {seen} ELSE Built(dwell)

DeepenIsochroneForApproach(seen, dwell, eta) ==
    IF seen # Absent /\ seen.area /\ ~Shrunk(dwell, eta) THEN {seen} ELSE Built(Budget(dwell, eta))

\* one of them, by the customer's estimated arrival if the request has it
ReachZone(w) ==
    LET e == errand[w] dwell == Stops[e.stop].dwell seen == work[w].seen
    IN  /\ Doing(w, "zone")
        /\ \E z \in IF e.eta = Absent THEN EnsureInterceptReachability(seen, dwell)
                    ELSE DeepenIsochroneForApproach(seen, dwell, e.eta) :
              Goes(w, After([work[w] EXCEPT !.have = z]))
        /\ UNCHANGED <<zone, cart, errand>>

\* stored if there was none when the request read the stop
KeepZone(w) ==
    /\ Doing(w, "keep")
    /\ zone' = IF work[w].have.ok /\ work[w].seen = Absent
               THEN [zone EXCEPT ![errand[w].stop] = work[w].have] ELSE zone
    /\ Goes(w, After(work[w])) /\ UNCHANGED <<cart, errand>>

----------------------------------------------------------------------------
\* the order of the kitchens

\* computeRiderBudget(z.span): the halt without 12 minutes of preparing, 10 of
\* safety and 5 of traffic, a bicycle's 1.12, between 8 and 25 minutes
RiderBudget(dwell) ==
    LET rest   == IF dwell < 1620 THEN 0 ELSE dwell - 1620
        riding == (2 * rest * 112 + 100) \div 200
    IN  IF riding < 480 THEN 480 ELSE IF riding > 1500 THEN 1500 ELSE riding

\* from the polygon, from the distance Swiggy states at 20 km/h, or not known
Inside(k, z) ==
    IF k.located /\ z.area THEN k.inside
    ELSE IF k.km # Absent /\ z.ok THEN k.km * 180 <= RiderBudget(z.span)
    ELSE Absent

\* told by the matrix, from Swiggy's distance, as the crow flies, or 3 km
RideTime(k, told) ==
    IF told # Absent THEN told ELSE IF k.km # Absent THEN k.km * 180 ELSE IF k.located THEN k.crow ELSE 540

RankScore(k, told, z) ==
    (IF Inside(k, z) = FALSE THEN -10000 ELSE IF Inside(k, z) = TRUE THEN 5000 ELSE 0) - RideTime(k, told)

\* by score, but those outside last where the polygon is known
RankRestaurantsForIntercept(times, z) ==
    LET open == {i \in DOMAIN Kitchens : Kitchens[i].open}
        outside(i) == z.area /\ Inside(Kitchens[i], z) = FALSE
        score(i) == RankScore(Kitchens[i], times[i], z)
        before(i, j) == \/ outside(j) /\ ~outside(i)
                        \/ (outside(j) <=> outside(i)) /\ (score(i) > score(j) \/ (score(i) = score(j) /\ i < j))
    IN  CHOOSE list \in SetToSeqs(open) :
            \A m, n \in 1 .. Cardinality(open) : m < n => before(list[m], list[n])

\* a kitchen without coordinates is not in the matrix, which may fail
RankKitchensAt(w) ==
    /\ Doing(w, "rank")
    /\ \E times \in RideTimes :
          LET told == [i \in DOMAIN Kitchens |-> IF Kitchens[i].located THEN times[i] ELSE Absent]
          IN  Goes(w, After([work[w] EXCEPT !.list = RankRestaurantsForIntercept(told, work[w].have)]))
    /\ UNCHANGED <<zone, cart, errand>>

TierFromCount(n, rich) ==
    IF n <= 0 THEN "none" ELSE IF n < 3 THEN "thin" ELSE IF n < rich THEN "ok" ELSE "rich"

\* what probeCorridorCoverage says of the food and of the goods at a stop
CoverageTiers(job) ==
    [food  |-> TierFromCount(job.found.search, 8),
     goods |-> TierFromCount(job.found.products + job.found.goto, 10)]

CatalogNext ==
    \E w \in Workers :
        \/ AdmitRequest(w) \/ CallSucceeds(w) \/ CallFails(w) \/ RefusesPreview(w) \/ UpdateCart(w) \/ GetCart(w)
        \/ ReachZone(w) \/ KeepZone(w) \/ RankKitchensAt(w)

CatalogSpec == CatalogInit /\ [][CatalogNext]_catalogVars

----------------------------------------------------------------------------
\* Nobody is answered about a stop of somebody else's journey, and Swiggy is not
\* asked either (requireInterceptOwnership comes before every call).
OnlyOwnersSee ==
    \A w \in Workers :
        work[w].status = 200 \/ (work[w].status = NotYet /\ Doing(w, "admit") = FALSE) => Owned(errand[w])

\* What is stored of a stop is about its whole halt, whatever approaching
\* customers asked meanwhile.
StoredZoneIsWhole ==
    \A s \in DOMAIN Stops : zone[s] # Absent => zone[s].span = Stops[s].dwell

\* A preview that filled the cart and read it shows its own items, unless another
\* preview of the account came between, or Swiggy refused them unnoticed.
PreviewIsOwn ==
    \A w \in Workers :
        errand[w].kind \in Previews /\ work[w].status = 200 /\ "read" \notin work[w].lacking =>
            \/ "update" \in work[w].lacking
            \/ work[w].shown = w
            \/ \E v \in Workers \ {w} : work[w].shown = v /\ errand[v].account = errand[w].account
                                   /\ errand[v].kind = errand[w].kind

\* No kitchen a rider cannot come from is listed before one he can, and closed
\* kitchens are not listed.
ListIsHelpful ==
    \A w \in Workers :
        work[w].status = 200 /\ errand[w].kind = "restaurants" =>
            LET list == work[w].list z == work[w].have
            IN  /\ ToSet(list) = {i \in DOMAIN Kitchens : Kitchens[i].open}
                /\ \A i, j \in DOMAIN list : i < j =>
                      ~(Inside(Kitchens[list[i]], z) = FALSE /\ Inside(Kitchens[list[j]], z) = TRUE)

\* A coverage that could not be asked for never promises food or goods.
CoverageIsHonest ==
    \A w \in Workers :
        errand[w].kind = "coverage" /\ work[w].status = 200 =>
            /\ "address" \in work[w].lacking => CoverageTiers(work[w]) = [food |-> "none", goods |-> "none"]
            /\ "search" \in work[w].lacking => CoverageTiers(work[w]).food = "none"

\* What the catalog of a stop promises, however its requests overlap and
\* whichever of their calls fail: stops are shown to their owners only, the
\* stored area is that of the whole halt, a preview shows its own cart, and
\* lists and coverages do not promise what a rider cannot bring.
CatalogKeepsItsWord ==
    OnlyOwnersSee /\ StoredZoneIsWhole /\ PreviewIsOwn /\ ListIsHelpful /\ CoverageIsHonest
================================================================================
