---- MODULE MCGateway ----
(***************************************************************************)
(* What the API does around an order: it limits requests (RateLimit), asks *)
(* other services through caches (MapsGateway), finds handoff points       *)
(* (InterceptSearch) and stations (TrainJourney), orders several stops     *)
(* (StopOrder), works a handoff out (HandoffPlan) and shows what a stop    *)
(* offers (StopCatalog).  These share no state, so an initial state is     *)
(* about one of them, the scene.                                           *)
(***************************************************************************)
EXTENDS RateLimit, MapsGateway, Places, HandoffPlan, StopCatalog
CONSTANTS c1, h1, h2, q1, q2, w1, w2, w3, u1, u2, k1, k2

\* the limiter: a process of its own, Redis in turn, Redis with all its hazards
Limiting(store, overlap, faults) == [store |-> store, overlap |-> overlap, faults |-> faults]
LimitingModes ==
    {Limiting("memory", FALSE, TRUE), Limiting("redis", FALSE, FALSE), Limiting("redis", TRUE, TRUE)}

----
\* routes on a grid of 100 m: by car past lights, a toll plaza and a pump; by
\* bicycle without a step that counts; by bus
P(x, y) == [lat |-> x, lng |-> y]
Spots == [lat : 0 .. 22, lng : 0 .. 14]
Bend == <<P(0, 0), P(12, 0), P(12, 8), P(20, 8)>>
DriveTo(p, says, m) == [end |-> p, says |-> says, meters |-> m, stops |-> <<>>]
Ride(x, y) == [end |-> y, says |-> "plain", meters |-> 0, stops |-> <<x, y>>]
Road == <<DriveTo(P(4, 0), "traffic_light", 4), DriveTo(P(12, 0), "toll_plaza", 8),
          DriveTo(P(12, 4), "petrol_pump", 4), DriveTo(P(20, 8), "plain", 12)>>
Jam(x, y, speed) == [from |-> x, to |-> y, speed |-> speed]
TripSet ==
    {[mode |-> "car", line |-> Bend, steps |-> Road, tolls |-> TRUE,
      jams |-> <<Jam(1, 2, "SLOW"), Jam(3, 9, "TRAFFIC_JAM")>>],
     [mode |-> "bike", line |-> <<P(0, 0), P(16, 0)>>, steps |-> <<>>, tolls |-> FALSE, jams |-> <<>>],
     [mode |-> "bus", line |-> Bend, steps |-> <<Ride(P(1, 1), P(12, 2)), Ride(P(12, 6), P(20, 8))>>,
      tolls |-> FALSE, jams |-> <<>>]}
SurveySet == {[s \in Spots |-> Unknown], [s \in Spots |-> (s.lat + 2 * s.lng) % 5], [s \in Spots |-> 0]}
AreaSet == {{}, {s \in Spots : s.lat >= 12}}
Sky(rain, fog, alert) == [rain |-> rain, fog |-> fog, alert |-> alert]
SkySet == {Sky(TRUE, FALSE, FALSE), Sky(TRUE, TRUE, TRUE)}
Air(uaqi, naqi, pollen) == [uaqi |-> uaqi, naqi |-> naqi, pollen |-> pollen]
AirSet == {Air(FALSE, FALSE, TRUE), Air(TRUE, TRUE, FALSE)}
Got(rider, walk, inside, area) == [rider |-> rider, walk |-> walk, inside |-> inside, area |-> area]
GotSet == {Got(FALSE, TRUE, Unknown, 0), Got(FALSE, FALSE, Unknown, 0), Got(TRUE, TRUE, 0, 0),
           Got(TRUE, FALSE, 30, 0), Got(TRUE, TRUE, Unknown, 120)}

\* a day train, a train past midnight whose times bear no date, a train that comes
\* to a station twice; the first and the last time of a run are not times
StationAt == [A |-> P(0, 0), B |-> P(6, 0), C |-> P(12, 0), D |-> P(20, 0)]
Dated(minute) == [dated |-> TRUE, minute |-> minute]
Bare(minute)  == [dated |-> FALSE, minute |-> minute]
Halt(code, arr, dep, halt, platform) ==
    [code |-> code, arr |-> arr, dep |-> dep, halt |-> halt, platform |-> platform]
RunSet ==
    {<<>>,
     <<Halt("A", Nothing, Dated(600), 0, TRUE), Halt("B", Dated(650), Dated(655), 5, TRUE),
       Halt("C", Dated(700), Dated(703), 2, FALSE), Halt("D", Dated(760), Nothing, 5, TRUE)>>,
     <<Halt("A", Nothing, Bare(1400), 0, TRUE), Halt("B", Bare(1430), Bare(1436), 6, FALSE),
       Halt("C", Bare(1445), Bare(1450), 5, TRUE), Halt("D", Bare(1500), Bare(1510), 9, TRUE)>>,
     <<Halt("A", Nothing, Dated(600), 0, TRUE), Halt("B", Dated(610), Nothing, 4, TRUE),
       Halt("C", Dated(630), Dated(640), 1, TRUE), Halt("B", Dated(660), Dated(670), 4, TRUE)>>}
Traveller(from, to, now) == [from |-> from, to |-> to, now |-> now]
TravellerSet ==
    {Traveller(P(0, 2), P(20, 2), 590), Traveller(P(5, 1), P(20, 1), 654), Traveller(P(13, 0), P(1, 0), 590),
     Traveller(P(0, 1), P(19, 0), 1390)}

----
\* waypoints on a line, one before the origin, with a detour from the second stop to the third
Place == <<0, 20, -6, 5, 9>>
Way(p) == LET d == Place[p[1]] - Place[p[2]] IN (IF d < 0 THEN -d ELSE d) + (IF p = <<4, 5>> THEN 6 ELSE 0)
Pairs == (1 .. 5) \X (1 .. 5)
TravelOf == [p \in Pairs |-> Way(p)]
CrowOf   == [p \in Pairs |-> Way(p) - (IF p = <<4, 5>> THEN 6 ELSE 0)]
BlockedSets == {{}, {<<1, 4>>, <<1, 5>>}, {p \in Pairs : p[1] = 4 /\ p[2] # 2}, Pairs}

----
\* one set of questions for each thing worked out about a handoff
Item(price, quantity, server) == [price |-> price, quantity |-> quantity, server |-> server]
Items == {Item(4, 1, "food"), Item(3, 2, "food"), Item(12, 1, "food"), Item(1, 1, "instamart"),
          Item(3, 3, "instamart")}
Carts == UNION {[1 .. n -> Items] : n \in 0 .. 3}
Times == {None, 0, 600, 2000}
StopOf(id, reachable, count, score) == [id |-> id, reachable |-> reachable, count |-> count, score |-> score]
StopLists ==
    {<<StopOf("a", None, 3, 50)>>,
     <<StopOf("a", 2, 9, 80), StopOf("b", None, 3, 60), StopOf("c", 3, 1, 70)>>,
     <<StopOf("c", None, None, 10), StopOf("a", 0, 5, 90), StopOf("b", 0, 0, 20)>>}
LevelSet == {"excellent", "good", "fair", "poor", None}

QuestionSet ==
    {[about |-> "hops", lines |-> lines] : lines \in Carts}
    \union [about : {"timing"}, coordinates : BOOLEAN, matrix : Times, weather : BOOLEAN, rain : {None, 300},
            server : {"food", "instamart"}, items : {1, 5}, eta : {900, 5400}]
    \union {[about |-> "kitchens", times |-> times] : times \in [1 .. 3 -> Times]}
    \union [about : {"halt"}, prep : {60, 900}, travel : {60, 600}, safety : {None, 0}, traffic : {None, 300},
            weather : {None, 300}, dwell : {0, 300, 1080, 1260}]
    \union [about : {"alignment"}, customer : {0, 119, 120, 700, 1500}, rider : {0, 300, 700}, prep : {None, 900},
            outside : BOOLEAN]
    \union [about : {"clocks"}, located : {None, k1}, matrix : Times, swiggy : Times, customer : Times,
            prep : {None, 600}]
    \union [about : {"stop"}, stops : StopLists, current : {"a", "b"}, outside : BOOLEAN, level : LevelSet]
    \union [about : {"meal"}, now : {0, 17999, 50400, 86399}, eta : {-60, 1, 3600}]
    \union [about : {"customer"}, mode : {"train", "car", "walk"}, known : {{}, {"train", "plate", "intercept"}},
            timetable : Times, live : BOOLEAN, matrix : Times, dwell : {None, 300}]
    \union [about : {"outdoor"}, reading : BOOLEAN, risks : SUBSET {"air", "local", "pollen"}, weather : BOOLEAN,
            rain : {None, 69, 70}, thunder : {None, 40}, alert : BOOLEAN]
    \union [about : {"address"}, parts : {None, "road"}, city : {None, "Mysuru"}, code : {None, "570001"}]

----
\* two requests at a time: two accounts, a stop of each, one that is not there
StopSet == "s1" :> [owner |-> u1, dwell |-> 300] @@ "s2" :> [owner |-> u2, dwell |-> 2400]
Of(kind, account, stop, eta, valid) ==
    [kind |-> kind, account |-> account, stop |-> stop, eta |-> eta, valid |-> valid]
Near  == {Of("reachability", u1, "s1", Absent, TRUE), Of("restaurants", u1, "s1", 100, TRUE),
          Of("restaurants", u2, "s1", Absent, TRUE), Of("coverage", u1, "s1", Absent, TRUE)}
Other == {Of("restaurants", u1, "s1", Absent, TRUE), Of("reachability", u1, "s1", Absent, TRUE),
          Of("restaurants", u2, "s2", 600, TRUE)}
Simple == {Of(kind, u1, stop, Absent, valid) :
              kind \in {"menu", "products", "dishes", "goto", "meal", "halt", "other", "address", "coupons"},
              stop \in {"s1", "s2", "none"}, valid \in BOOLEAN}
Basket == {Of(kind, u1, "s1", Absent, valid) : kind \in {"preview", "basket"}, valid \in BOOLEAN}
Two(x, y) == k1 :> x @@ k2 :> y
ErrandSet ==
    {Two(x, y) : x \in Near, y \in Other} \union {Two(x, y) : x, y \in Basket}
    \union {Two(x, Of("preview", u2, "s2", Absent, TRUE)) : x \in Basket \union Simple}

\* nothing was stored, or an area, or a walk only, of the whole halt of the stop
Whole(s, area) == [ok |-> TRUE, area |-> area, span |-> StopSet[s].dwell]
ZoneSet == {[s \in DOMAIN StopSet |-> Absent]} \union {[s \in DOMAIN StopSet |-> Whole(s, area)] : area \in BOOLEAN}
Kitchen(open, placed, inside, km, crow) ==
    [open |-> open, located |-> placed, inside |-> inside, km |-> km, crow |-> crow]
KitchenList ==
    <<Kitchen(TRUE, TRUE, FALSE, 1, 200), Kitchen(TRUE, FALSE, FALSE, 9, 0), Kitchen(FALSE, TRUE, TRUE, 1, 100),
      Kitchen(TRUE, TRUE, TRUE, Absent, 900), Kitchen(TRUE, FALSE, FALSE, Absent, 0)>>
RideTimeSet == {[i \in 1 .. 5 |-> Absent], <<100, Absent, 50, 800, Absent>>}

----
VARIABLE scene

restVars == <<limitVars, gatewayVars, searchVars, trainVars, tourVars, handoffVars, catalogVars>>

\* only the scene varies: the first state of the others is one of theirs
Init ==
    /\ scene \in {"limiter", "gateway", "search", "train", "tour", "handoff", "catalog"}
    /\ scene # "limiter" => limitMode = Limiting("redis", FALSE, FALSE)
    /\ scene # "gateway" => plans = {ComputeRouteMatrix}
    /\ scene # "search"  => analysis = CHOOSE t \in TripSet : t.mode = "bike"
    /\ scene # "train"   => run = <<>> /\ traveller = Traveller(P(0, 2), P(20, 2), 590)
    /\ scene # "tour"    => stops = <<>> /\ blocked = {}
    /\ scene # "handoff" => question = [about |-> "hops", lines |-> <<>>]
    /\ scene # "catalog" => /\ errand = Two(Of("meal", u1, "s1", Absent, TRUE), Of("preview", u2, "s2", Absent, TRUE))
                            /\ zone = [s \in DOMAIN StopSet |-> Absent]
    /\ LimitInit /\ GatewayInit /\ SearchInit /\ TrainInit /\ TourInit /\ HandoffInit /\ CatalogInit

Next ==
    /\ \/ scene = "limiter" /\ LimitNext
          /\ UNCHANGED <<gatewayVars, searchVars, trainVars, tourVars, handoffVars, catalogVars>>
       \/ scene = "gateway" /\ GatewayNext
          /\ UNCHANGED <<limitVars, searchVars, trainVars, tourVars, handoffVars, catalogVars>>
       \/ scene = "search" /\ SearchNext
          /\ UNCHANGED <<limitVars, gatewayVars, trainVars, tourVars, handoffVars, catalogVars>>
       \/ scene = "train" /\ TrainNext
          /\ UNCHANGED <<limitVars, gatewayVars, searchVars, tourVars, handoffVars, catalogVars>>
       \/ scene = "tour" /\ TourNext
          /\ UNCHANGED <<limitVars, gatewayVars, searchVars, trainVars, handoffVars, catalogVars>>
       \/ scene = "handoff" /\ HandoffNext
          /\ UNCHANGED <<limitVars, gatewayVars, searchVars, trainVars, tourVars, catalogVars>>
       \/ scene = "catalog" /\ CatalogNext
          /\ UNCHANGED <<limitVars, gatewayVars, searchVars, trainVars, tourVars, handoffVars>>
    /\ UNCHANGED scene

Spec == Init /\ [][Next]_<<scene, restVars>>

\* The callers and the arguments of the clients are alike.
Alike == Permutations({q1, q2}) \union Permutations({w1, w2, w3})
====
