---- MODULE MCPages ----
(***************************************************************************)
(* Three more pages over the server: live tracking and location sharing     *)
(* (LiveTracking), planning a journey and choosing a stop (JourneyPlanner,  *)
(* and AddressField for the fields of its form), and the administrator's    *)
(* console (AdminConsole).  An initial state is about one of them, the      *)
(* scene, and the others stand still.                                       *)
(***************************************************************************)
EXTENDS LiveTracking, AddressField, AdminConsole, TLC
CONSTANTS o1, o2, j1, j2, w1, w2, w3, boss, rick

TripOf == o1 :> j1 @@ o2 :> j2
Tracking(parcels, sharing, calm) == [parcels |-> parcels, sharing |-> sharing, calm |-> calm]
TrackingModes ==
    {Tracking({o1, o2}, FALSE, FALSE), Tracking({o1}, TRUE, FALSE), Tracking({o1, o2}, TRUE, TRUE)}

DemoTexts == [from |-> w1, to |-> w2]
TooNear == {<<w, w>> : w \in {w1, w2, w3}} \union {<<w1, w3>>}
Planning(typed, tidy, patient) == [typed |-> typed, tidy |-> tidy, patient |-> patient]
PlanningModes ==
    {Planning(TRUE, TRUE, TRUE), Planning(FALSE, TRUE, TRUE), Planning(FALSE, FALSE, FALSE),
     Planning(TRUE, FALSE, FALSE)}

\* the third text is too short to ask about, the others are asked about alike
BriefTexts == {w3}
PlacesFor == w1 :> {w1, w2} @@ w2 :> {w1, w2} @@ w3 :> {}
Filling(keyed, waits, sends) == [keyed |-> keyed, waits |-> waits, submits |-> sends]
Hasty == Filling(TRUE, FALSE, FALSE)
FillingModes == {Filling(TRUE, TRUE, FALSE), Filling(TRUE, FALSE, TRUE), Filling(FALSE, FALSE, FALSE), Hasty}

Managing(pressed, others, faulty) == [pressed |-> pressed, moves |-> others, faults |-> faulty]
ManagingModes ==
    {Managing({"assign", "cancel"}, 0, 0), Managing({"role", "revoke"}, 0, 0),
     Managing({"assign"}, 1, 0), Managing({"tick"}, 0, 1)}

VARIABLE scene

Init ==
    /\ scene \in {"tracking", "planning", "filling", "managing"}
    /\ TrackInit /\ PlanInit /\ FieldInit /\ AdminInit
    /\ scene # "tracking" => trackMode = Tracking({o1, o2}, FALSE, FALSE)
    /\ scene \notin {"planning", "filling"} => planMode = Planning(TRUE, TRUE, TRUE)
    /\ scene = "planning" => planMode # Planning(TRUE, FALSE, FALSE)
    /\ scene = "filling" => planMode.typed /\ (planMode.tidy <=> fieldMode # Hasty)
    /\ scene # "filling" => fieldMode = Filling(FALSE, FALSE, FALSE) /\ library = "neither"
    /\ scene # "managing" => adminMode = Managing({"tick"}, 0, 1)

Next ==
    /\ \/ scene = "tracking" /\ TrackNext /\ UNCHANGED <<planVars, fieldVars, adminVars>>
       \/ scene = "planning" /\ PlanNext /\ UNCHANGED <<trackVars, fieldVars, adminVars>>
       \/ scene = "filling" /\ FieldNext /\ UNCHANGED <<trackVars, adminVars>>
       \/ scene = "managing" /\ AdminNext /\ UNCHANGED <<trackVars, planVars, fieldVars>>
    /\ UNCHANGED scene

\* Where a page is not the scene it is never opened, and its fairness asks nothing.
Spec ==
    /\ Init /\ [][Next]_<<scene, trackVars, planVars, fieldVars, adminVars>>
    /\ TrackFairness /\ AdminFairness

\* Type correctness of the components: what the pages keep of answers that
\* come late, partly or not at all stays within what the code declares.
PagesTypes == TrackTypes /\ PlanTypes /\ FieldTypes /\ AdminTypes

\* The form means what it shows: a journey is the one that was typed, and what
\* the fields offer belongs to the text and the other place that are there
\* (QuickRouteForm.tsx, PlaceAutocompleteInput.tsx).
FormMeansWhatItShows == JourneyAsTyped /\ OffersAreCurrent /\ PickedPairFits
====
