------------------------------ MODULE HandoffPlan ------------------------------
(***************************************************************************)
(* What is worked out about a handoff, without state of its own: when to   *)
(* place the order, whether the halt is long enough, how well the clocks   *)
(* of customer and rider agree and when another stop is better, how a cart *)
(* is split over stops, what the customer's arrival time is taken from,    *)
(* what to order at that hour, and what the air and the weather are like.  *)
(*                                                                         *)
(* A behaviour is one question and its answer.  Times are seconds, hours   *)
(* of the day whole; an absent value is None, a call of a service that     *)
(* fails leaves None.  Texts are the facts they state.                     *)
(***************************************************************************)
EXTENDS Integers, Sequences, SequencesExt, FiniteSets, FiniteSetsExt

CONSTANTS Questions,      \* records with a field "about" and the arguments
          None,
          FoodCap,        \* FOOD_CART_CAP_RUPEES
          InstamartMin    \* INSTAMART_MIN_RUPEES

VARIABLES question, answer

handoffVars == <<question, answer>>

Or(x, otherwise) == IF x = None THEN otherwise ELSE x
Bounded(n, low, high) == IF n < low THEN low ELSE IF n > high THEN high ELSE n
Rounded(n, d) == (2 * n + d) \div (2 * d)
Size(n) == IF n < 0 THEN -n ELSE n

----------------------------------------------------------------------------
\* a cart over several stops

LineTotal(line) == line.price * line.quantity
Subtotal(lines) ==
    LET sum[i \in 0 .. Len(lines)] == IF i = 0 THEN 0 ELSE sum[i - 1] + LineTotal(lines[i])
    IN  sum[Len(lines)]

\* the lines of one kitchen or of Instamart, in the order of the cart
LinesOf(lines, server) ==
    LET of[i \in 0 .. Len(lines)] ==
            IF i = 0 THEN <<>> ELSE IF lines[i].server = server THEN Append(of[i - 1], lines[i]) ELSE of[i - 1]
    IN  of[Len(lines)]

\* Mutant: the sum of a hop goes on over the lines of the one before it.
HopsKeepSum(lines) ==
    LET add(hops, l) ==
            IF hops = <<>> THEN <<<<l>>>>
            ELSE IF Subtotal(FlattenSeq(hops)) + LineTotal(l) >= FoodCap THEN Append(hops, <<l>>)
            ELSE Append(Front(hops), Append(Last(hops), l))
        packed[i \in 0 .. Len(lines)] == IF i = 0 THEN <<>> ELSE add(packed[i - 1], lines[i])
    IN  packed[Len(lines)]

\* a line starts a new hop when it would bring the one before to the cap
Packed(hops, l) ==
    IF hops = <<>> THEN <<<<l>>>>
    ELSE IF Subtotal(Last(hops)) + LineTotal(l) >= FoodCap THEN Append(hops, <<l>>)
    ELSE Append(Front(hops), Append(Last(hops), l))

Hops(lines) ==
    LET hops[i \in 0 .. Len(lines)] == IF i = 0 THEN <<>> ELSE Packed(hops[i - 1], lines[i])
    IN  hops[Len(lines)]

PlanHopPacking(lines) ==
    LET food  == LinesOf(lines, "food")
        goods == LinesOf(lines, "instamart")
        sum   == Subtotal(goods)
    IN  [food      |-> Hops(food),
         instamart |-> IF goods = <<>> THEN <<>> ELSE IF sum >= FoodCap THEN Hops(goods) ELSE <<goods>>,
         dear      |-> {i \in DOMAIN food : LineTotal(food[i]) >= FoodCap},
         short     |-> sum > 0 /\ sum < InstamartMin,
         several   |-> Len(Hops(food)) > 1]

----------------------------------------------------------------------------
\* when to place, and whether the halt is long enough

EstimatePrepTime(server, items) ==
    IF server = "instamart" THEN 300 + items * 60 ELSE 900 + items * 180

\* 20 km/h; only an absent distance counts as 3 km
FallbackRiderTravel(meters) == Rounded(Or(meters, 3000) * 3600, 20000)

\* a matrix that fails and no coordinates both ask for the travel of 0 m
CalculateOrderTiming(q) ==
    LET travel  == IF q.coordinates THEN Or(q.matrix, FallbackRiderTravel(0)) ELSE FallbackRiderTravel(0)
        weather == IF q.weather /\ q.coordinates THEN Or(q.rain, 0) ELSE 0
        prep    == EstimatePrepTime(q.server, q.items)
    IN  [travel |-> travel, prep |-> prep, weather |-> weather,
         autoPlace |-> q.eta - prep - travel - 600 - 300 - weather]

RankByTravelTime(times) ==  \* the kitchens, those the matrix has no route from last
    LET before(i, j) == \/ times[i] # None /\ (times[j] = None \/ times[i] < times[j])
                        \/ times[i] = times[j] /\ i < j
    IN  CHOOSE list \in SetToSeqs(DOMAIN times) :
            \A m, n \in 1 .. Cardinality(DOMAIN times) : m < n => before(list[m], list[n])

EvaluateHaltGate(q) ==
    LET required == q.prep + q.travel + Or(q.safety, 120) + Or(q.traffic, 60) + Or(q.weather, 0)
        slack    == Bounded(q.dwell, 0, q.dwell) - required
    IN  [ok |-> slack >= 0, slack |-> slack,
         severity |-> IF slack >= 180 THEN "ok" ELSE IF slack >= 0 THEN "tight" ELSE "fail"]

----------------------------------------------------------------------------
\* two clocks, and another stop

Levels == <<"excellent", "good", "fair", "poor">>
LevelOf(delta) ==
    Levels[1 + Cardinality({limit \in {120, 300, 600} : Size(delta) > limit})]

\* outside: told, or found out from the rider's position and the area
ComputeAlignment(customer, rider, prep, outside) ==
    LET delta == customer - rider
        score == Bounded(Rounded(6000 - 10 * Bounded(Size(delta), 0, 600), 60), 0, 100)
    IN  [status |-> IF outside /\ LevelOf(delta) \in {"excellent", "good"} THEN "fair" ELSE LevelOf(delta),
         score  |-> IF outside THEN Bounded(score, 0, 55) ELSE score,
         ready  |-> Bounded(rider - Or(prep, 0), 0, rider)]

\* the map's time of the rider, or of the restaurant, before Swiggy's
BuildDualClock(q) ==
    LET maps  == IF q.located # None THEN q.matrix ELSE None
        rider == Or(maps, q.swiggy)
        both  == q.customer # None /\ rider # None
    IN  [rider |-> rider,
         delta |-> IF both THEN q.customer - rider ELSE None,
         alignment |-> IF both THEN ComputeAlignment(q.customer, rider, q.prep, FALSE) ELSE None]

Supply(stop) == Or(stop.reachable, Or(stop.count, 0))
Richer(a, b) == Supply(a) > Supply(b) \/ (Supply(a) = Supply(b) /\ a.score > b.score)

SuggestReIntercept(q) ==
    LET others == {i \in DOMAIN q.stops : q.stops[i].id # q.current}
        first(i, j) == \/ Richer(q.stops[i], q.stops[j])
                       \/ ~Richer(q.stops[j], q.stops[i]) /\ i < j
        next   == IF others = {} THEN None
                  ELSE q.stops[CHOOSE i \in others : \A j \in others \ {i} : first(i, j)].id
        switch == q.outside \/ (q.level \in {"poor", "fair"} /\ next # None)
    IN  [switch |-> switch,
         to     |-> IF switch THEN next ELSE None,
         stay   |-> ~switch \/ next = None]

----------------------------------------------------------------------------
\* what to eat then, what the rider is told, when the customer comes

MealSlotFromHour(hour) ==
    IF hour \in 5 .. 10 THEN "breakfast" ELSE IF hour \in 11 .. 14 THEN "lunch"
    ELSE IF hour \in 15 .. 17 THEN "snack" ELSE IF hour \in 18 .. 21 THEN "dinner"
    ELSE "late_night"

MealPriming(q) ==
    LET hour == ((q.now + Bounded(q.eta, 0, q.eta)) \div 3600) % 24
    IN  [hour |-> hour, slot |-> MealSlotFromHour(hour)]

Briefed == [car |-> {"plate", "model", "color"}, bike |-> {"plate", "model", "color"},
            bus |-> {"route", "operator", "plate", "color"}, train |-> {"train", "coach", "seat"},
            metro |-> {"description"}, walk |-> {"description"}]
BuildRiderBrief(q) ==
    (Briefed[q.mode] \intersect q.known) \union (q.known \intersect {"intercept"})
        \union {IF q.live THEN "check the map" ELSE "call"}

\* the timetable of a train, the live position, the length of the halt
LoadCustomerContext(q) ==
    LET train == IF q.mode = "train" /\ "train" \in q.known THEN q.timetable ELSE None
        gps   == IF q.live /\ Or(q.matrix, 0) > 0 THEN q.matrix ELSE None
    IN  [eta |-> Or(train, Or(gps, Or(q.dwell, 300))),
         fromGps |-> train = None /\ gps # None,
         brief |-> BuildRiderBrief(q)]

----------------------------------------------------------------------------
\* air and weather of a journey

SeverityRank == [good |-> 0, watch |-> 1, alert |-> 2]

\* risks: "air", "local", "local unnamed" and "pollen", the titles of
\* buildEnvironmentContext; a reading of the air is shown even if it is good,
\* and then the risk of the air is not repeated
FetchOutdoorConditions(q) ==
    LET reading == IF ~q.reading THEN {}
                   ELSE {[kind |-> "air", of |-> "reading",
                          severity |-> IF q.risks \intersect {"air", "local"} # {} THEN "alert" ELSE "good"]}
        weather == IF ~q.weather THEN {}
                   ELSE {[kind |-> "weather", of |-> "weather",
                          severity |-> IF Or(q.rain, 0) >= 70 \/ Or(q.thunder, 0) >= 40 THEN "watch" ELSE "good"]}
        alert   == IF ~q.alert THEN {} ELSE {[kind |-> "alert", of |-> "alert", severity |-> "alert"]}
        risk(r) == IF r = "pollen" THEN [kind |-> "pollen", of |-> r, severity |-> "watch"]
                   ELSE [kind |-> "air", of |-> r, severity |-> "alert"]
        shown   == reading \union weather \union alert
                   \union {risk(r) : r \in {s \in q.risks : ~(s = "air" /\ q.reading)}}
    IN  [advisories |-> shown,
         severity |-> LET worst == Max({0} \union {SeverityRank[a.severity] : a \in shown})
                      IN  CHOOSE s \in DOMAIN SeverityRank : SeverityRank[s] = worst,
         warnings |-> {a.of : a \in {b \in shown : b.severity # "good"}}]

\* generateInterceptAddress: without an answer of the map a default in Bengaluru
GenerateInterceptAddress(q) ==
    [city |-> IF q.parts = None THEN "Bengaluru" ELSE Or(q.city, "Bengaluru"),
     code |-> IF q.parts = None THEN "560001" ELSE Or(q.code, "560001"),
     line |-> Or(q.parts, "near")]

----------------------------------------------------------------------------
OrNone(S) == S \union {None}
Line == [price : Int, quantity : Int, server : {"food", "instamart"}]
Alignment == [status : {"excellent", "good", "fair", "poor"}, score : Int, ready : Int]
StopFacts == [id : STRING, reachable : OrNone(Int), count : OrNone(Int), score : Int]

\* What the routes pass on.
ASSUME HandoffAssumption ==
    /\ FoodCap \in Int
    /\ None \notin Int \union STRING /\ None \notin Alignment
    /\ \A q \in Questions :
          /\ q.about = "hops" => q.lines \in Seq(Line)
          /\ q.about = "kitchens" => q.times \in Seq(OrNone(Int))
          /\ q.about = "alignment" => q.customer \in Int /\ q.rider \in Int /\ q.outside \in BOOLEAN
          /\ q.about = "clocks" => {q.matrix, q.swiggy, q.customer, q.prep} \subseteq OrNone(Int)
          /\ q.about = "stop" => q.stops \in Seq(StopFacts) /\ q.current \in STRING /\ q.outside \in BOOLEAN
          /\ q.about = "customer" => q.live \in BOOLEAN
          /\ q.about = "outdoor" => q.reading \in BOOLEAN /\ q.alert \in BOOLEAN

----------------------------------------------------------------------------
HandoffInit == question \in Questions /\ answer = None

Answered(about, result) ==
    question.about = about /\ answer = None /\ answer' = result /\ UNCHANGED question

Pack    == Answered("hops", PlanHopPacking(question.lines))
Time    == Answered("timing", CalculateOrderTiming(question))
RankKitchens == Answered("kitchens", RankByTravelTime(question.times))
Gate    == Answered("halt", EvaluateHaltGate(question))
Align   == Answered("alignment",
               ComputeAlignment(question.customer, question.rider, question.prep, question.outside))
Clocks  == Answered("clocks", BuildDualClock(question))
Suggest == Answered("stop", SuggestReIntercept(question))
Meal    == Answered("meal", MealPriming(question))
Arrive  == Answered("customer", LoadCustomerContext(question))
Outdoor == Answered("outdoor", FetchOutdoorConditions(question))
Address == Answered("address", GenerateInterceptAddress(question))

HandoffNext ==
    \/ Pack \/ Time \/ RankKitchens \/ Gate \/ Align \/ Clocks \/ Suggest \/ Meal \/ Arrive
    \/ Outdoor \/ Address

HandoffSpec == HandoffInit /\ [][HandoffNext]_handoffVars

----------------------------------------------------------------------------
\* Nothing is lost or bought twice when a cart is split: its hops have the lines
\* of their server in the order of the cart (planHopPacking).
NothingLost(lines, server, hops) ==
    LET of(n) == {j \in 1 .. n : lines[j].server = server}
        all   == FlattenSeq(hops)
    IN  /\ Len(all) = Cardinality(of(Len(lines)))
        /\ \A i \in of(Len(lines)) : all[Cardinality(of(i))] = lines[i]

\* A hop at the cap is one line that is too dear alone (planHopPacking).
HopsUnderCap(hops) == \A i \in DOMAIN hops : Len(hops[i]) = 1 \/ Subtotal(hops[i]) < FoodCap

\* No hop could have taken the line after it (planHopPacking).
HopsAreFull(hops) ==
    \A i \in 1 .. Len(hops) - 1 : Subtotal(hops[i]) + LineTotal(hops[i + 1][1]) >= FoodCap

CartIsSplitWhole(q, a) ==
    /\ NothingLost(q.lines, "food", a.food) /\ NothingLost(q.lines, "instamart", a.instamart)
    /\ HopsUnderCap(a.food) /\ HopsUnderCap(a.instamart)
    /\ HopsAreFull(a.food) /\ HopsAreFull(a.instamart)

\* Clocks further apart are never called better, whichever of the two is ahead
\* and wherever the rider is (computeAlignment).
FurtherIsWorse(q) ==
    \A more \in {1, 150, 400} :
        LET here  == ComputeAlignment(q.customer, q.rider, q.prep, q.outside)
            there == ComputeAlignment(IF q.customer < q.rider THEN q.customer - more ELSE q.customer + more,
                                      q.rider, q.prep, q.outside)
            place(level) == CHOOSE i \in DOMAIN Levels : Levels[i] = level
        IN  there.score <= here.score /\ place(there.status) >= place(here.status)

\* Two clocks are compared exactly when both are known (buildDualClock).
ComparedIfKnown(q, a) ==
    a.alignment # None <=> q.customer # None /\ (q.swiggy # None \/ (q.located # None /\ q.matrix # None))

\* The stop suggested is the richest of the others, and is suggested only together
\* with the switch (suggestReIntercept).
SuggestsRichest(q, a) ==
    /\ a.to # q.current /\ (a.to # None => a.switch)
    /\ a.to # None => \E i \in DOMAIN q.stops :
          /\ q.stops[i].id = a.to
          /\ \A j \in DOMAIN q.stops : q.stops[j].id # q.current => ~Richer(q.stops[j], q.stops[i])
    /\ q.outside => a.switch

\* No kitchen that can be reached comes after one that is further
\* (rankRestaurantsByTravelTime).
NearestFirstList(q, a) ==
    /\ ToSet(a) = DOMAIN q.times /\ Len(a) = Len(q.times)
    /\ \A i, j \in DOMAIN a : i < j /\ q.times[a[j]] # None =>
          q.times[a[i]] # None /\ q.times[a[i]] <= q.times[a[j]]

\* No risk of air or weather is lost when its lines are merged
\* (fetchOutdoorConditions).
NoRiskLost(q, a) ==
    /\ q.risks # {} \/ q.alert => a.severity # "good" /\ a.warnings # {}
    /\ \A x \in a.advisories : SeverityRank[x.severity] <= SeverityRank[a.severity]

\* What travellers and riders are told of a handoff, for every question: carts
\* are split whole, worse clocks look worse, the stop suggested is the richest of
\* the others, kitchens are listed by their ride, an arrival time is always given
\* and comes from the position only while that is shared, and no risk is lost.
PlansAreSound ==
    answer # None =>
        /\ question.about = "hops" => CartIsSplitWhole(question, answer)
        /\ question.about = "alignment" => FurtherIsWorse(question)
        /\ question.about = "clocks" => ComparedIfKnown(question, answer)
        /\ question.about = "stop" => SuggestsRichest(question, answer)
        /\ question.about = "kitchens" => NearestFirstList(question, answer)
        /\ question.about = "customer" => answer.eta # None /\ (answer.fromGps => question.live)
        /\ question.about = "outdoor" => NoRiskLost(question, answer)
================================================================================
