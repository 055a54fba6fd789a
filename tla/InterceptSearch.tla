---------------------------- MODULE InterceptSearch ----------------------------
(***************************************************************************)
(* Finding the handoff points of a journey (services/intercept, the        *)
(* algorithms of packages/shared, maps/reachability.ts): candidates along  *)
(* a route, what services tell about each, the score, the choice of a few  *)
(* good ones that are far enough apart, and the second score once the      *)
(* reachable area of a chosen point is known.                              *)
(*                                                                         *)
(* One behaviour is one analysis; each action is one await of the code.    *)
(* Places are points of a grid of 100 m and the legs of a route run along  *)
(* its axes, so projections are exact; a grid key of the restaurant counts *)
(* is one point.  Scores are exact rationals rounded as Math.round does;   *)
(* a safety rating is counted in twentieths.  Ids, names and the polygons  *)
(* themselves are left out.                                                *)
(***************************************************************************)
EXTENDS Integers, Sequences, SequencesExt, FiniteSets, FiniteSetsExt

CONSTANTS Analyses,       \* [mode, line, steps, tolls, jams] of the routes analysed
          Surveys,        \* what the places service answers: restaurants per point, or Unknown
          Unknown,
          RoughAreas,     \* sets of points with rough weather or air
          Skies,          \* [rain, fog, alert] there
          Airs,           \* [uaqi, naqi, pollen] there: which of them are bad
          ReachOutcomes,  \* [rider, walk, inside, area]: what the isochrone calls bring
          SnapShifts,     \* how far the roads service moves a point
          FallbackParts,  \* the 8 parts a route is divided into
          MaxPoints, IntervalMeters, MinScore,   \* InterceptConfig, in units of 100 m
          TopKHeapThreshold, TopKPoolMultiplier, GeohashThreshold

VARIABLES analysis,    \* the input
          stage,       \* the await it has reached
          candidates,  \* the candidate points, as far as they are known
          chosen       \* the intercept points returned

searchVars == <<analysis, stage, candidates, chosen>>

Points == [lat : Int, lng : Int]
Texts  == {"plain", "traffic_light", "petrol_pump", "toll_plaza"}
Speeds == {"NORMAL", "SLOW", "TRAFFIC_JAM"}
OrUnknown(S) == {Unknown} \union S

ASSUME SearchAssumption ==
    /\ FallbackParts \in Nat \ {0} /\ MaxPoints \in Nat \ {0} /\ MinScore \in Int
    /\ TopKHeapThreshold \in Nat /\ TopKPoolMultiplier \in Nat /\ GeohashThreshold \in Nat
    /\ IntervalMeters \in Nat /\ SnapShifts \subseteq Int /\ Unknown \notin Nat

\* routes with the steps and the jams on them
ASSUME AnalysesAssumption ==
    \A a \in Analyses :
        /\ a.mode \in {"bus", "train", "metro", "car", "bike", "walk"} /\ a.line \in Seq(Points)
        /\ a.steps \in Seq([end : Points, says : Texts, meters : Nat, stops : Seq(Points)])
        /\ a.jams \in Seq([from : Nat \ {0}, to : Nat \ {0}, speed : Speeds])
        /\ \A i \in DOMAIN a.jams : a.jams[i].from <= Len(a.line)

ASSUME AnswersAssumption ==
    /\ \A survey \in Surveys : \A p \in DOMAIN survey : survey[p] \in OrUnknown(Nat)
    /\ \A sky \in Skies : sky.alert \in BOOLEAN
    /\ ReachOutcomes \subseteq [rider : BOOLEAN, walk : BOOLEAN, inside : OrUnknown(Nat), area : Nat]

Least(a, b) == IF a < b THEN a ELSE b
Most(a, b)  == IF a > b THEN a ELSE b
Clamp(n, low, high) == Most(low, Least(high, n))
RoundDiv(n, d) == (2 * n + d) \div (2 * d)
Sign(n) == IF n > 0 THEN 1 ELSE IF n < 0 THEN -1 ELSE 0
Abs(n) == n * Sign(n)

----------------------------------------------------------------------------
\* the geometry of a route

Apart2(p, q) == (p.lat - q.lat) * (p.lat - q.lat) + (p.lng - q.lng) * (p.lng - q.lng)
Within(p, q, meters) == Apart2(p, q) < meters * meters
Leg(a, b) == Abs(b.lat - a.lat) + Abs(b.lng - a.lng)

\* how far along the leg from a to b the point nearest to p lies
ProjectOnSegment(p, a, b) ==
    Clamp((p.lat - a.lat) * Sign(b.lat - a.lat) + (p.lng - a.lng) * Sign(b.lng - a.lng),
          0, Leg(a, b))

OnLeg(a, b, n) ==
    [lat |-> a.lat + n * Sign(b.lat - a.lat), lng |-> a.lng + n * Sign(b.lng - a.lng)]

Legs(line) == 1 .. Len(line) - 1
Before(line, i) ==
    LET way[k \in 0 .. i - 1] == IF k = 0 THEN 0 ELSE way[k - 1] + Leg(line[k], line[k + 1])
    IN  way[i - 1]

\* the first leg nearest to p decides
DistanceAlongRoute(p, line) ==
    LET onto(i) == ProjectOnSegment(p, line[i], line[i + 1])
        off(i)  == Apart2(p, OnLeg(line[i], line[i + 1], onto(i)))
        nearest == {i \in Legs(line) : \A j \in Legs(line) : off(i) <= off(j)}
    IN  IF nearest = {} THEN 0 ELSE Before(line, Min(nearest)) + onto(Min(nearest))

InterpolateAlongRoute(meters, line) ==
    LET i == Min({k \in Legs(line) : Before(line, k + 1) >= meters})
    IN  OnLeg(line[i], line[i + 1], meters - Before(line, i))

\* 28 degrees north, where a degree of longitude is 0.88 of one of latitude
Cell(p, size) == [row |-> p.lat \div size, col |-> (100 * p.lng) \div (88 * size)]

Neighbours(p, q, size) ==
    /\ Cell(q, size).row - Cell(p, size).row \in -1 .. 1
    /\ Cell(q, size).col - Cell(p, size).col \in -1 .. 1

\* the pairwise scan, or the geohash grid above its threshold
TooClose(p, kept, meters, grid) ==
    \E i \in DOMAIN kept : Within(p, kept[i], meters) /\ (grid => Neighbours(p, kept[i], meters))

----------------------------------------------------------------------------
\* candidates and scores

TypeBonus == [stop |-> 15, traffic_light |-> 12, petrol_pump |-> 10, toll_plaza |-> 8, dynamic |-> 5]
DwellOf   == [traffic_light |-> 45, petrol_pump |-> 300, toll_plaza |-> 180, dynamic |-> 120]
SafetyOf  == [stop |-> 80, traffic_light |-> 70, petrol_pump |-> 80, toll_plaza |-> 80, dynamic |-> 60]
Transit   == {"bus", "train", "metro"}
Pace      == [bus |-> 12, train |-> 6, car |-> 9, bike |-> 18, metro |-> 12, walk |-> 72]

\* a hash of the place, between 1 and 15
EstimateRestaurantCount(p) == ((7 * p.lat + 3 * p.lng) % 15) + 1

Candidate(p, type, dwell, along, count) ==
    [lat |-> p.lat, lng |-> p.lng, type |-> type, dwell |-> dwell, along |-> along,
     safety |-> SafetyOf[type], count |-> count, risk |-> FALSE,
     reach |-> Unknown, ok |-> FALSE, score |-> 0, eta |-> 0, station |-> Unknown]

\* the candidates of one navigation step: a transit step gives both its stops
OfStep(a, step) ==
    LET at(p) == DistanceAlongRoute(p, a.line)
        point(p, type, dwell, extra) ==
            Candidate(p, type, dwell, at(p), EstimateRestaurantCount(p) + extra)
        dwell == IF a.mode = "train" THEN 120 ELSE 60
    IN  IF a.mode \in Transit
        THEN [i \in DOMAIN step.stops |-> point(step.stops[i], "stop", dwell, 0)]
        ELSE IF step.says \in DOMAIN DwellOf
        THEN <<point(step.end, step.says, DwellOf[step.says], IF step.says = "petrol_pump" THEN 2 ELSE 0)>>
        ELSE <<>>

\* those of the steps, in their order
Marked(a) ==
    LET found[n \in 0 .. Len(a.steps)] ==
            IF n = 0 THEN <<>> ELSE found[n - 1] \o OfStep(a, a.steps[n])
    IN  found[Len(a.steps)]

AddFallback(found, meters, line, grid) ==
    LET p == InterpolateAlongRoute(meters, line)
    IN  IF TooClose(p, found, 3, grid) THEN found
        ELSE Append(found, Candidate(p, "dynamic", DwellOf.dynamic, meters, EstimateRestaurantCount(p)))

ExtractCandidates(a) ==
    LET total   == DistanceAlongRoute(Last(a.line), a.line)
        spacing == total \div FallbackParts
        grid    == Len(Marked(a)) > GeohashThreshold
        found[n \in 0 .. FallbackParts - 1] ==
            IF n = 0 THEN Marked(a)
            ELSE IF n * spacing < total THEN AddFallback(found[n - 1], n * spacing, a.line, grid)
            ELSE found[n - 1]
    IN  IF a.line = <<>> THEN <<>> ELSE found[FallbackParts - 1]

\* scoreInterceptPoint: every share over the common denominator 360 * base
Score(c) ==
    LET base  == Most(c.count, 1)
        known == c.reach # Unknown /\ c.ok
        near  == IF known THEN c.reach ELSE c.count
        reachable == IF ~known THEN 300 * Least(c.count, 12) * base
                     ELSE IF c.count > 0 THEN 9000 * Least(c.reach, base)
                     ELSE 1125 * Least(c.reach, 8)
    IN  RoundDiv(50 * Least(c.dwell, 180) * base + 540 * Least(near, 10) * base + reachable
                 + 72 * c.safety * base + 360 * TypeBonus[c.type] * base, 360 * base)

\* compareInterceptRank(a, b) > 0
Better(a, b) == a.score > b.score \/ (a.score = b.score /\ a.eta < b.eta)

\* the sort leaves equals in their order
Precedes(points, i, j) == Better(points[i], points[j]) \/ (~Better(points[j], points[i]) /\ i < j)
Standing(points, i) == Cardinality({j \in DOMAIN points : Precedes(points, j, i)}) + 1
BestFirst(points) ==
    [n \in DOMAIN points |-> points[CHOOSE i \in DOMAIN points : Standing(points, i) = n]]

----------------------------------------------------------------------------
\* the k best with a heap whose root is the worst of them; what it holds are the
\* places of the items in their list

Less(items, i, j) == Better(items[j], items[i])
Swapped(heap, i, j) == [heap EXCEPT ![i] = heap[j], ![j] = heap[i]]

\* one turn of the loop of bubbleUp, of bubbleDown
Rise(items, t) ==
    IF t.index > 1 /\ Less(items, t.heap[t.index], t.heap[t.index \div 2])
    THEN [heap |-> Swapped(t.heap, t.index, t.index \div 2), index |-> t.index \div 2] ELSE t

Smallest(items, t) ==
    LET least(j, k) == IF k <= Len(t.heap) /\ Less(items, t.heap[k], t.heap[j]) THEN k ELSE j
    IN  least(least(t.index, 2 * t.index), 2 * t.index + 1)
Sink(items, t) ==
    LET smallest == Smallest(items, t)
    IN  IF smallest = t.index THEN t
        ELSE [heap |-> Swapped(t.heap, t.index, smallest), index |-> smallest]

\* no loop takes more turns than the heap has items
BubbleUp(items, heap) ==
    LET turn[n \in 0 .. Len(heap)] ==
            IF n = 0 THEN [heap |-> heap, index |-> Len(heap)] ELSE Rise(items, turn[n - 1])
    IN  turn[Len(heap)].heap
BubbleDown(items, heap) ==
    LET turn[n \in 0 .. Len(heap)] ==
            IF n = 0 THEN [heap |-> heap, index |-> 1] ELSE Sink(items, turn[n - 1])
    IN  turn[Len(heap)].heap

Push(items, heap, i) == BubbleUp(items, Append(heap, i))
Pop(items, heap) ==
    IF Len(heap) = 1 THEN <<>> ELSE BubbleDown(items, [Front(heap) EXCEPT ![1] = Last(heap)])

\* Mutant: an item replaces the worst of the heap even if it is no better.
OfferAlways(items, k, heap, i) == Push(items, IF Len(heap) < k THEN heap ELSE Pop(items, heap), i)

\* an item enters while there is room, or for a worse one
Offer(items, k, heap, i) ==
    IF Len(heap) < k THEN Push(items, heap, i)
    ELSE IF Better(items[i], items[heap[1]]) THEN Push(items, Pop(items, heap), i)
    ELSE heap

\* the places of the k best
HeapOf(items, k) ==
    LET heap[n \in 0 .. Len(items)] == IF n = 0 THEN <<>> ELSE Offer(items, k, heap[n - 1], n)
    IN  heap[Len(items)]

SelectTopK(items, k) ==
    IF k <= 0 THEN <<>>
    ELSE IF Len(items) <= k THEN BestFirst(items)
    ELSE BestFirst([n \in DOMAIN HeapOf(items, k) |-> items[HeapOf(items, k)[n]]])

\* one item of selectSpacedPoints
Take(result, p, max, meters, grid) ==
    IF Len(result) >= max \/ TooClose(p, result, meters, grid) THEN result ELSE Append(result, p)

SelectSpacedPoints(items, max, meters) ==
    LET result[n \in 0 .. Len(items)] ==
            IF n = 0 THEN <<>> ELSE Take(result[n - 1], items[n], max, meters, Len(items) > GeohashThreshold)
    IN  result[Len(items)]

\* what of a list is in a set
Only(list, S) ==
    LET kept[n \in 0 .. Len(list)] ==
            IF n = 0 THEN <<>> ELSE IF list[n] \in S THEN Append(kept[n - 1], list[n]) ELSE kept[n - 1]
    IN  kept[Len(list)]

\* those that pass, or the best three when none does
Eligible(points) ==
    LET passing == Only(points, {p \in ToSet(points) : p.score >= MinScore})
        best    == BestFirst(points)
    IN  IF passing # <<>> THEN passing
        ELSE SubSeq(best, 1, Least(Len(best), Most(1, Least(MaxPoints, 3))))

PoolSize == Most(MaxPoints, MaxPoints * TopKPoolMultiplier)

\* the grid is not used for the points chosen, or compares all that are too close
ASSUME GridAssumption ==
    Most(TopKHeapThreshold, PoolSize) <= GeohashThreshold \/ IntervalMeters <= 8

FilterAndRankPoints(points, meters) ==
    LET eligible == Eligible(points)
        ranked   == IF Len(eligible) > TopKHeapThreshold THEN SelectTopK(eligible, PoolSize)
                    ELSE BestFirst(eligible)
    IN  SelectSpacedPoints(ranked, MaxPoints, meters)

----------------------------------------------------------------------------
\* what the services tell of the candidates

\* the traffic of the nearest stretch whose middle is within 400 m
AdjustDwellForTraffic(c, a) ==
    LET mid(j) == LET from == a.line[j.from] to == a.line[Least(j.to, Len(a.line))]
                  IN  [lat |-> (from.lat + to.lat) \div 2, lng |-> (from.lng + to.lng) \div 2]
        near == {i \in DOMAIN a.jams : Within(c, mid(a.jams[i]), 4)}
        best == {i \in near : \A k \in near : Apart2(c, mid(a.jams[i])) <= Apart2(c, mid(a.jams[k]))}
        bonus == [NORMAL |-> 0, SLOW |-> 30, TRAFFIC_JAM |-> 90]
    IN  IF best = {} THEN c.dwell ELSE c.dwell + bonus[a.jams[Min(best)].speed]

\* the way to the end of a step
WayTo(a, i) ==
    LET way[k \in 0 .. i] == IF k = 0 THEN 0 ELSE way[k - 1] + a.steps[k].meters IN way[i]

\* a toll plaza that is not there yet
AddToll(points, p, along) ==
    IF \E i \in DOMAIN points : points[i].type = "toll_plaza" /\ Within(points[i], p, 2) THEN points
    ELSE Append(points, Candidate(p, "toll_plaza", 180, along, 2))

MergeTollCandidates(points, a) ==
    LET merged[n \in 0 .. Len(a.steps)] ==
            IF n = 0 THEN points
            ELSE IF a.tolls /\ a.steps[n].says = "toll_plaza"
            THEN AddToll(merged[n - 1], a.steps[n].end, WayTo(a, n)) ELSE merged[n - 1]
    IN  merged[Len(a.steps)]

WeatherPenalty(sky) ==
    (IF sky.rain THEN 10 ELSE 0) + (IF sky.fog THEN 6 ELSE 0) + (IF sky.alert THEN 10 ELSE 0)
AirPenalty(air) ==
    (IF air.uaqi THEN 8 ELSE 0) + (IF air.naqi THEN 6 ELSE 0) + (IF air.pollen THEN 5 ELSE 0)
SafetyAfter(rating, penalty) == Clamp(rating - penalty, 20, 100)

\* a share of the circular count when the places inside the area are not known
EstimateReachableFromArea(count, area) ==
    IF area <= 0 \/ count <= 0 THEN 0
    ELSE RoundDiv(count * Least(10000, 65 * Least(250, area)), 10000)

\* the area of a rider, the area on foot and the places inside: each may fail
Reachability(c, got) ==
    LET inside == IF ~got.rider THEN c.count
                  ELSE IF got.inside = Unknown THEN EstimateReachableFromArea(c.count, got.area)
                  ELSE Least(20, got.inside)
    IN  [c EXCEPT !.reach = inside, !.ok = got.rider \/ got.walk]

Rescored(c) == [c EXCEPT !.score = Score(c)]
Each(Op(_), points) == [i \in DOMAIN points |-> Op(points[i])]

----------------------------------------------------------------------------
\* one analysis

SearchInit ==
    /\ analysis \in Analyses
    /\ stage = "start" /\ candidates = <<>> /\ chosen = <<>>

Stage(from, to, points) ==
    /\ stage = from /\ stage' = to /\ candidates' = points
    /\ UNCHANGED <<analysis, chosen>>

Extract == Stage("start", "counts", ExtractCandidates(analysis))

\* a point without an answer has an estimated count
ResolveCount(survey, p) ==
    LET at == [lat |-> p.lat, lng |-> p.lng]
    IN  IF at \in DOMAIN survey /\ survey[at] # Unknown THEN survey[at] ELSE EstimateRestaurantCount(p)

CountRestaurantsForPoints ==
    \E survey \in Surveys :
        LET count(c) == [c EXCEPT !.count = ResolveCount(survey, c)]
        IN  Stage("counts", "traffic", Each(count, candidates))

TollsAndTraffic ==
    LET slow(c) == [c EXCEPT !.dwell = AdjustDwellForTraffic(c, analysis)]
    IN  Stage("traffic", "weather",
              IF candidates = <<>> THEN <<>> ELSE Each(slow, MergeTollCandidates(candidates, analysis)))

\* a call that fails leaves its candidate as it is
Rough(area, penalty, risky, c) ==
    IF [lat |-> c.lat, lng |-> c.lng] \notin area THEN c
    ELSE [c EXCEPT !.safety = SafetyAfter(c.safety, penalty), !.risk = c.risk \/ risky]

Weather ==
    \E area \in RoughAreas, sky \in Skies :
        LET rough(c) == Rough(area, WeatherPenalty(sky), sky.alert, c)
        IN  Stage("weather", "air", Each(rough, candidates))

AirAndPollen ==
    \E area \in RoughAreas, air \in Airs :
        LET rough(c) == Rough(area, AirPenalty(air), AirPenalty(air) > 0, c)
        IN  Stage("air", "rank", Each(rough, candidates))

Rank ==
    LET rated(c) == [c EXCEPT !.score = Score(c), !.eta = c.along * Pace[analysis.mode]]
    IN  /\ stage = "rank" /\ stage' = "snap"
        /\ candidates' = Each(rated, candidates)
        /\ chosen' = FilterAndRankPoints(candidates', IntervalMeters)
        /\ UNCHANGED analysis

\* the roads service moves the first points it answers for, or fails
SnapChosen ==
    /\ stage = "snap" /\ stage' = "reach"
    /\ \E shift \in SnapShifts, answered \in 0 .. Len(chosen) :
          chosen' = [i \in DOMAIN chosen |->
                        IF i <= answered THEN [chosen[i] EXCEPT !.lat = @ + shift] ELSE chosen[i]]
    /\ UNCHANGED <<analysis, candidates>>

\* scored again, and left in the order of the first score
AttachIsochroneReachability ==
    /\ stage = "reach" /\ stage' = "done"
    /\ \E got \in [DOMAIN chosen -> ReachOutcomes] :
          chosen' = [i \in DOMAIN chosen |-> Rescored(Reachability(chosen[i], got[i]))]
    /\ UNCHANGED <<analysis, candidates>>

SearchNext ==
    \/ Extract \/ CountRestaurantsForPoints \/ TollsAndTraffic \/ Weather \/ AirAndPollen
    \/ Rank \/ SnapChosen \/ AttachIsochroneReachability

SearchSpec == SearchInit /\ [][SearchNext]_searchVars

----------------------------------------------------------------------------
\* The fallback points keep 300 m from every candidate before them, and every
\* candidate lies on the route (extractCandidates, distanceAlongRoute).
CandidatesAreOnRoute ==
    stage = "counts" =>
        /\ \A i \in DOMAIN candidates :
              candidates[i].along \in 0 .. Before(analysis.line, Len(analysis.line))
        /\ \A i, j \in DOMAIN candidates :
              i < j /\ candidates[j].type = "dynamic" => ~Within(candidates[i], candidates[j], 3)

\* The choice is what a reader of filterAndRankPoints expects of it, however it
\* is computed: few points, apart from each other, and none left out that is
\* better than one chosen - unless it crowds a better one or the pool was cut
\* before it.  The heap finds the same points as sorting does.
ChoiceIsOf(points, meters, choice) ==
    LET eligible == Eligible(points)
        full     == Len(choice) = MaxPoints
    IN  /\ Len(choice) <= MaxPoints
        /\ points # <<>> => choice # <<>>
        /\ ToSet(choice) \subseteq ToSet(eligible)
        /\ \A i, j \in DOMAIN choice : i < j =>
              ~Within(choice[i], choice[j], meters) /\ ~Better(choice[j], choice[i])
        /\ \A p \in ToSet(eligible) \ ToSet(choice) :
              \/ \E q \in ToSet(choice) : Within(p, q, meters) /\ ~Better(p, q)
              \/ full /\ \A q \in ToSet(choice) : ~Better(p, q)
              \/ Cardinality({i \in DOMAIN eligible : ~Better(p, eligible[i])}) > PoolSize

HeapIsSort(points) ==
    \A k \in 1 .. Len(points) :
        LET top == SelectTopK(points, k) best == BestFirst(points)
        IN  \A i \in 1 .. k : top[i].score = best[i].score /\ top[i].eta = best[i].eta

ChoiceIsBest ==
    stage = "snap" => ChoiceIsOf(candidates, IntervalMeters, chosen) /\ HeapIsSort(candidates)

\* The second score: within 0 .. 100, and an area without a restaurant never
\* raises a point above what it had before the area was known.
ScoresAreSound ==
    /\ stage \in {"snap", "reach", "done"} =>
          \A i \in DOMAIN chosen : chosen[i].score \in 0 .. 100
    /\ stage = "done" =>
          \A i \in DOMAIN chosen :
              chosen[i].ok /\ chosen[i].reach = 0 =>
                  chosen[i].score <= Score([chosen[i] EXCEPT !.ok = FALSE])

SearchIsSound == CandidatesAreOnRoute /\ ChoiceIsBest /\ ScoresAreSound
================================================================================
