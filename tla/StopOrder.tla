------------------------------- MODULE StopOrder -------------------------------
(***************************************************************************)
(* The order of several stops between an origin and a destination          *)
(* (services/route-optimization): the Routes API is asked first, then,     *)
(* where it is switched on, the Cloud Route Optimization API, and last a   *)
(* solver in this process: every order up to LocalLimit stops, the nearest *)
(* stop next above it, by the durations of one matrix call or, when that   *)
(* fails too, as the crow flies.                                           *)
(*                                                                         *)
(* Waypoints are numbered as in the request, 1 the origin and 2 the        *)
(* destination, the others stops.  Durations and distances are whole       *)
(* numbers; a pair the matrix has no route for is NoRoute.  Polylines and  *)
(* the wording of errors are left out.                                     *)
(***************************************************************************)
EXTENDS Integers, Sequences, SequencesExt, FiniteSets, FiniteSetsExt

CONSTANTS StopCounts,    \* numbers of stops between origin and destination
          Travel,        \* function of <<from, to>>: what the matrix would say
          CrowFlies,     \* the same as the crow flies, in seconds at 8.5 m/s
          Blocked,       \* sets of pairs the matrix has no route for
          NoRoute,
          LocalLimit,    \* the 7 stops up to which every order is tried
          StepCounts,    \* navigation steps of a route the Routes API returns
          CloudEnabled   \* ROUTE_OPTIMIZATION_CLOUD_API

\* the matrix covers every request, and times are not negative
ASSUME TourAssumption ==
    /\ StopCounts \subseteq Nat
    /\ \A n \in StopCounts : (1 .. n + 2) \X (1 .. n + 2) \subseteq DOMAIN Travel
    /\ \A leg \in DOMAIN Travel : Travel[leg] \in Nat /\ CrowFlies[leg] \in Nat
    /\ NoRoute \notin Nat

Origin == 1
Destination == 2

VARIABLES stops,    \* the stops of this request
          blocked,  \* the pairs without a route, in the matrix
          tourAt,   \* the call being made
          tour,     \* the order found
          legs,     \* how many legs it is returned with
          solver

tourVars == <<stops, blocked, tourAt, tour, legs, solver>>

TourInit ==
    /\ \E n \in StopCounts : stops = [i \in 1 .. n |-> i + 2]
    /\ blocked \in Blocked
    /\ tourAt = "routes" /\ tour = <<>> /\ legs = 0 /\ solver = "none"

Duration(i, j) == IF <<i, j>> \in blocked THEN NoRoute ELSE Travel[<<i, j>>]
Between(middle) == <<Origin>> \o middle \o <<Destination>>

\* permutations
Orders == {p \in [DOMAIN stops -> ToSet(stops)] : IsInjective(p)}

\* a pair without a route costs what the crow flies
LegCost(i, j) == IF Duration(i, j) = NoRoute THEN CrowFlies[<<i, j>>] ELSE Duration(i, j)
TourCost(order) ==
    LET total[n \in 0 .. Len(order) - 1] ==
            IF n = 0 THEN 0 ELSE total[n - 1] + LegCost(order[n], order[n + 1])
    IN  total[Len(order) - 1]

\* the stops left that can be reached from the last one, and the nearest of
\* them, the first of equals
Ahead(cost, order)   == {j \in ToSet(stops) \ ToSet(order) : cost[<<Last(order), j>>] # NoRoute}
Nearest(cost, order) ==
    Min({j \in Ahead(cost, order) :
            \A k \in Ahead(cost, order) : cost[<<Last(order), j>>] <= cost[<<Last(order), k>>]})
Visit(cost, order)   ==
    IF Ahead(cost, order) = {} THEN order ELSE Append(order, Nearest(cost, order))

NearestFirst(cost) ==
    LET order[n \in 0 .. Len(stops)] == IF n = 0 THEN <<Origin>> ELSE Visit(cost, order[n - 1])
    IN  Append(order[Len(stops)], Destination)

HaversineGreedy == NearestFirst(CrowFlies)

----------------------------------------------------------------------------
Goto(call) == tourAt' = call /\ UNCHANGED <<stops, blocked, tour, legs, solver>>

Found(order, by, call) ==
    /\ tour' = order /\ solver' = by /\ tourAt' = call
    /\ UNCHANGED <<stops, blocked, legs>>

WithLegs(n) == legs' = n /\ tourAt' = "done" /\ UNCHANGED <<stops, blocked, tour, solver>>

\* optimizeMultiStopRoute with no stop: only the route itself is asked for
NoStops ==
    /\ tourAt = "routes" /\ stops = <<>>
    /\ Found(Between(<<>>), "greedy", "evaluate")

\* the service answers with an order of the stops, or without one, which is theirs
OptimizeWithRoutesApi ==
    /\ tourAt = "routes" /\ stops # <<>>
    /\ \E middle \in Orders :
          Found(Between(middle), "routes_optimize_waypoint_order", "evaluate")

RoutesApiFails ==
    /\ tourAt = "routes" /\ stops # <<>>
    /\ Goto(IF CloudEnabled THEN "cloud" ELSE "matrix")

\* the cloud solver may leave stops out
OptimizeWithCloudApi ==
    /\ tourAt = "cloud"
    /\ \E middle \in Orders, n \in 0 .. Len(stops) :
          Found(Between(SubSeq(middle, 1, n)), "route_optimization_api", "evaluate")

CloudApiFails == tourAt = "cloud" /\ Goto("matrix")

\* any of the cheapest orders stands for the first of them
BruteForceOptimize ==
    /\ tourAt = "matrix" /\ Len(stops) <= LocalLimit
    /\ \E middle \in Orders :
          /\ \A other \in Orders : TourCost(Between(middle)) <= TourCost(Between(other))
          /\ Found(Between(middle), "brute_force", "evaluate")

GreedyOptimize ==
    /\ tourAt = "matrix" /\ Len(stops) > LocalLimit
    /\ Found(NearestFirst([p \in DOMAIN Travel |-> Duration(p[1], p[2])]), "greedy", "evaluate")

MatrixFails ==
    /\ tourAt = "matrix"
    /\ tour' = HaversineGreedy /\ solver' = "greedy" /\ legs' = Len(tour') - 1
    /\ tourAt' = "done" /\ UNCHANGED <<stops, blocked>>

\* one leg per navigation step of the answer, or its duration divided evenly
EvaluateRoute ==
    /\ tourAt = "evaluate"
    /\ \E steps \in StepCounts : WithLegs(IF steps > 0 THEN steps ELSE Len(tour) - 1)

\* the Routes API's own figures, the crow flies for a solver of this process,
\* and an error for the rest: a failing request without stops, and a failing
\* evaluation of the cloud solver's order, after which the matrix is asked
EvaluateFails ==
    /\ tourAt = "evaluate"
    /\ \/ /\ solver = "routes_optimize_waypoint_order"
          /\ \E steps \in StepCounts : WithLegs(steps)
       \/ solver \in {"brute_force", "greedy"} /\ stops # <<>> /\ WithLegs(Len(tour) - 1)
       \/ solver = "route_optimization_api" /\ Goto("matrix")
       \/ stops = <<>> /\ Goto("error")

TourNext ==
    \/ NoStops \/ OptimizeWithRoutesApi \/ RoutesApiFails \/ OptimizeWithCloudApi \/ CloudApiFails
    \/ BruteForceOptimize \/ GreedyOptimize \/ MatrixFails \/ EvaluateRoute \/ EvaluateFails

TourSpec == TourInit /\ [][TourNext]_tourVars

----------------------------------------------------------------------------
\* how long an order takes, counted in seconds of the legs it is made of: those of
\* the matrix, and as the crow flies where it has no route
RouteTime(order) ==
    LET seconds(leg) == IF leg \in blocked THEN CrowFlies[leg] ELSE Travel[leg]
    IN  Cardinality(UNION {{leg} \X (1 .. seconds(leg)) :
                              leg \in {<<order[i], order[i + 1]>> : i \in 1 .. Len(order) - 1}})

\* What a rider may rely on in the order returned, whichever solver found it: it
\* runs from the origin to the destination and comes to no stop twice; it leaves
\* a stop out only when the cloud solver did, or when the nearest-first search
\* stood where the matrix knows no way on; and an order found by trying all is
\* as short as any (services/route-optimization).
TourIsSound ==
    /\ Head(tour) = Origin /\ Last(tour) = Destination /\ IsInjective(tour)
    /\ ToSet(tour) \subseteq ToSet(stops) \union {Origin, Destination}
    /\ \/ ToSet(stops) \subseteq ToSet(tour)
       \/ solver = "route_optimization_api"
       \/ /\ solver = "greedy" /\ Len(stops) > LocalLimit
          /\ \A j \in ToSet(stops) \ ToSet(tour) : <<Last(Front(tour)), j>> \in blocked
    /\ solver = "brute_force" =>
          \A other \in Orders : RouteTime(tour) <= RouteTime(Between(other))

ToursAreSound == tourAt = "done" => TourIsSound
================================================================================
