------------------------------ MODULE TrainJourney ------------------------------
(***************************************************************************)
(* A journey by a train that is running (services/railways): the stations  *)
(* of its run with the times the railway expects, the part of them between *)
(* the traveller's ends, and the stations where the train stops long       *)
(* enough for a handoff, scored and chosen as the points of InterceptSearch*)
(*                                                                         *)
(* Each action is one await.  Times are minutes since the midnight the     *)
(* train's day began with; a time NTES gives with its date is "dated", one *)
(* without is "bare".  Stations lie on one line of the grid.  The texts    *)
(* that are parsed and the requests to NTES, which MapsGateway counts, are *)
(* left out.                                                               *)
(***************************************************************************)
EXTENDS InterceptSearch

CONSTANTS Runs,            \* what NTES says of a train: rows [code, arr, dep, halt, platform]
          StationPlaces,   \* where the map finds a station, by its code
          Travellers,      \* the ends of a journey: [from, to, now]
          Nothing,         \* no time, no place, no station
          StationMeters    \* the 20 km that chosen stations are apart, in units of 100 m

VARIABLES run,        \* the rows of this train
          traveller,
          trainAt,    \* the await it has reached
          located,    \* per station of the run: its place, or Nothing
          plan        \* [from, to, duration, offered] of the journey

trainVars == <<run, traveller, trainAt, located, plan>>

ClockTimes == {Nothing} \union [dated : BOOLEAN, minute : Nat]

ASSUME RunsAssumption ==
    /\ Nothing \notin Int
    /\ \A code \in DOMAIN StationPlaces : StationPlaces[code] \in Points /\ StationPlaces[code] # Nothing
    /\ Runs \subseteq Seq([code : DOMAIN StationPlaces, arr : ClockTimes, dep : ClockTimes,
                           halt : Nat, platform : BOOLEAN])
    /\ Travellers \subseteq [from : Points, to : Points, now : Nat]

\* as for the points of a route
ASSUME StationsAssumption ==
    /\ StationMeters \in Nat
    /\ Most(TopKHeapThreshold, PoolSize) <= GeohashThreshold \/ StationMeters <= 8

NoPlan == [from |-> 1, to |-> 0, duration |-> 0, offered |-> <<>>]

TrainInit ==
    /\ run \in Runs /\ traveller \in Travellers
    /\ trainAt = "run" /\ located = <<>> /\ plan = NoPlan

----------------------------------------------------------------------------
\* parseNtesDateTime: a time without a date is one of the day the train started
Minute(t) == IF t = Nothing THEN Nothing ELSE IF t.dated THEN t.minute ELSE t.minute % 1440

\* a stop as parseRunStations gives it: in seconds, counted from the departure
HaltSeconds(row) ==
    LET arr == Minute(row.arr) dep == Minute(row.dep)
    IN  IF arr # Nothing /\ dep # Nothing /\ dep > arr THEN (dep - arr) * 60
        ELSE IF row.halt = 0 THEN 120 ELSE row.halt * 60

Passed(row) == Minute(row.dep) # Nothing /\ Minute(row.dep) < traveller.now - 1

EtaSeconds(row) ==
    IF Minute(row.dep) = Nothing \/ Passed(row) THEN Nothing
    ELSE Most(0, Minute(row.dep) - traveller.now) * 60

\* etaForStationIntercept: of two stations with one code the later one counts
EtaForStation(code) ==
    EtaSeconds(run[Max({i \in DOMAIN run : run[i].code = code})])

----------------------------------------------------------------------------
FetchRun ==
    /\ trainAt = "run"
    /\ \/ run # <<>> /\ trainAt' = "geocode"
       \/ trainAt' = "refused"                   \* NTES fails, or knows no stations
    /\ UNCHANGED <<run, traveller, located, plan>>

\* the index of the located station nearest to an end, the first of equals
NearestTo(p, places) ==
    LET known == {i \in DOMAIN places : places[i] # Nothing}
    IN  Min({i \in known : \A j \in known : Apart2(p, places[i]) <= Apart2(p, places[j])})

\* a train that runs the other way is taken the way it runs
SelectStationWindow(places) ==
    LET ends == {NearestTo(traveller.from, places), NearestTo(traveller.to, places)}
    IN  <<Min(ends), Max(ends)>>

Stretch(w) == [i \in 1 .. w[2] - w[1] + 1 |-> w[1] + i - 1]
RoutePoints(w, places) == Only(Stretch(w), {i \in DOMAIN places : places[i] # Nothing})

\* the expected time of the last station, or the way at 20 km/h
RideDuration(w, places) ==
    LET points == RoutePoints(w, places)
        first  == EtaSeconds(run[w[1]]) last == EtaSeconds(run[w[2]])
        way    == Before([k \in DOMAIN points |-> places[points[k]]], Len(points))
    IN  IF first # Nothing /\ last # Nothing THEN Most(last - first, last) ELSE way * 18

\* each station is looked for alone, and may not be found
GeocodeStations ==
    /\ trainAt = "geocode"
    /\ \E found \in SUBSET {run[i].code : i \in DOMAIN run} :
          LET places == [i \in DOMAIN run |->
                            IF run[i].code \in found THEN StationPlaces[run[i].code] ELSE Nothing]
              w == IF \A i \in DOMAIN run : places[i] = Nothing THEN <<1, Len(run)>>
                   ELSE SelectStationWindow(places)
          IN  /\ located' = places
              /\ \/ /\ Len(RoutePoints(w, places)) < 2
                    /\ trainAt' = "refused" /\ UNCHANGED plan
                 \/ /\ Len(RoutePoints(w, places)) >= 2
                    /\ trainAt' = "plan"
                    /\ plan' = [plan EXCEPT !.from = w[1], !.to = w[2],
                                            !.duration = RideDuration(w, places)]
    /\ UNCHANGED <<run, traveller>>

CanHandOver(i) == ~Passed(run[i]) /\ HaltSeconds(run[i]) >= 180 /\ located[i] # Nothing

\* a platform that is known makes a station 5 better, until it is scored again
StationPoint(i, count) ==
    LET first == located[RoutePoints(<<plan.from, plan.to>>, located)[1]]
        way   == Leg(first, located[i])
        c     == [Candidate(located[i], "stop", HaltSeconds(run[i]), way, count) EXCEPT !.safety = 90]
        eta   == IF EtaSeconds(run[i]) = Nothing THEN RoundDiv(way * 144, 10) ELSE EtaSeconds(run[i])
    IN  [c EXCEPT !.score = Score(c) + (IF run[i].platform THEN 5 ELSE 0), !.eta = eta, !.station = i]

ChooseStations ==
    /\ trainAt = "plan" /\ trainAt' = "reach"
    /\ \E survey \in Surveys :
          LET able   == Only(Stretch(<<plan.from, plan.to>>), {i \in DOMAIN run : CanHandOver(i)})
              points == [k \in DOMAIN able |->
                            StationPoint(able[k], ResolveCount(survey, located[able[k]]))]
          IN  plan' = [plan EXCEPT !.offered = FilterAndRankPoints(points, StationMeters)]
    /\ UNCHANGED <<run, traveller, located>>

AttachStationReachability ==
    /\ trainAt = "reach" /\ trainAt' = "planned"
    /\ \E got \in [DOMAIN plan.offered -> ReachOutcomes] :
          plan' = [plan EXCEPT !.offered =
                      [k \in DOMAIN @ |-> Rescored(Reachability(@[k], got[k]))]]
    /\ UNCHANGED <<run, traveller, located>>

TrainNext == FetchRun \/ GeocodeStations \/ ChooseStations \/ AttachStationReachability

TrainSpec == TrainInit /\ [][TrainNext]_trainVars

----------------------------------------------------------------------------
\* The stations offered for a handoff are on the traveller's part of the run,
\* apart from each other, and the train is still to leave them after a halt of
\* three minutes or more; some station is offered if there is one; and where the
\* railway's times carry the journey and none is after that of its last station,
\* the traveller is at each of them before it ends; and the time looked up later
\* under its name is the one it was planned with, unless the train comes to that
\* station twice (buildTrainJourneyPlan, etaForStationIntercept).
TrainPlanIsSound ==
    trainAt = "planned" =>
        LET offered == plan.offered
            dep(i)  == Minute(run[i].dep)
            timed   == /\ EtaSeconds(run[plan.from]) # Nothing /\ EtaSeconds(run[plan.to]) # Nothing
                       /\ \A i \in plan.from .. plan.to : dep(i) = Nothing \/ dep(i) <= dep(plan.to)
            at(k)   == offered[k].station
            eta(k)  == EtaSeconds(run[at(k)])
        IN  /\ \A k \in DOMAIN offered :
                  /\ at(k) \in plan.from .. plan.to /\ CanHandOver(at(k))
                  /\ offered[k].score \in 0 .. 100
                  /\ timed /\ eta(k) # Nothing => eta(k) <= plan.duration
                  /\ (\A i \in DOMAIN run : run[i].code = run[at(k)].code => i = at(k)) =>
                        EtaForStation(run[at(k)].code) = eta(k) /\ eta(k) \in {Nothing, offered[k].eta}
            /\ \A i, j \in DOMAIN offered : i < j => ~Within(offered[i], offered[j], StationMeters)
            /\ (\E i \in plan.from .. plan.to : CanHandOver(i)) => offered # <<>>
================================================================================
