--------------------------------- MODULE Places ---------------------------------
(***************************************************************************)
(* The places of a journey: the handoff points of a route, the stations of *)
(* a train and the order of several stops.  They share no state.           *)
(***************************************************************************)
EXTENDS TrainJourney, StopOrder

placesVars == <<searchVars, trainVars, tourVars>>

PlacesSpec == SearchSpec /\ TrainSpec /\ TourSpec

\* What is chosen is worth choosing: the handoff points of a route, the stations
\* of a train and the order of several stops, whatever the services answered or
\* failed to answer (services/intercept, services/railways,
\* services/route-optimization).
PlacesAreWellChosen == SearchIsSound /\ TrainPlanIsSound /\ ToursAreSound
================================================================================
