--------------------------- MODULE JourneyPlanner ---------------------------
(***************************************************************************)
(* Planning a journey: the route form with its two address fields, the     *)
(* places resolved for them, the journey store of the browser, the page of *)
(* stops, and the handlers behind them, which insert the journey first and *)
(* its intercepts later, without a transaction.                            *)
(***************************************************************************)
EXTENDS Naturals, Sequences, SequencesExt

CONSTANTS
    Words,         \* what the customer can mean by an address
    Near,          \* pairs of them outside the band of 5 to 500 km
    Demo,          \* the texts a form starts with
    MaxEdits,      \* bound: edits of the form
    MaxJourneys,   \* bound: journeys analysed
    MaxAsked,      \* bound: submissions, and loads of stops, under way
    PlanModes,     \* input: circumstances, records of PlanMode
    NoWord, NoStop

PlanMode ==
    [typed: BOOLEAN,   \* the form is edited
     tidy: BOOLEAN,    \* the customer waits until his submission, or his choice
                       \* of a suggestion or about sharing, is dealt with
     patient: BOOLEAN] \* he does not go back to the stops while they load

Ends == {"from", "to"}
Draft == [Ends -> Words]

ASSUME PlanAssumption ==
    /\ Demo \in Draft /\ NoWord \notin Words
    /\ {MaxEdits, MaxJourneys, MaxAsked} \subseteq Nat
    /\ PlanModes \subseteq PlanMode

VARIABLES
    text,      \* from, to: what stands in the fields
    place,     \* fromPlace, toPlace: the place resolved for each field
    picks,     \* suggestions clicked whose details are being fetched
    edits,     \* edits of the form so far
    submits,   \* onSubmit and the requests it makes, one record for each
    journeys,  \* the rows of the server: the ends asked for, the ends analysed,
               \* and how many intercepts are stored with it
    current,   \* the journey in the store, 0 when there is none
    stops,     \* intercepts in the store: of which journey, and how many
    selected,  \* selectedInterceptId
    loading, planError,
    page,      \* the page that is open
    loads,     \* loadIntercepts under way: the journey asked about
    toggles,   \* updateTelemetry under way: the journey captured before it
    planMode

planVars == <<text, place, picks, edits, submits, journeys, current, stops, selected,
              loading, planError, page, loads, toggles, planMode>>
formVars == <<text, place, picks, edits>>
storeVars == <<current, stops, selected, loading, planError, page, loads>>

Stop == [of: 1..MaxJourneys, nr: 1..2]
NoStops == [of |-> 0, n |-> 0]

PlanTypes ==
    /\ text \in Draft
    /\ place \in [Ends -> Words \union {NoWord}]
    /\ picks \subseteq [end: Ends, word: Words]
    /\ edits \in 0..MaxEdits
    /\ submits \in Seq([pc: {"resolve", "analyze", "stored", "analyzed", "fetched", "failed"},
                        shown: Draft, place: [Ends -> Words \union {NoWord}],
                        ends: Draft, journey: 0..MaxJourneys, here: BOOLEAN,
                        n: 0..2])
    /\ journeys \in Seq([shown: Draft, ends: Draft, n: 0..2])
    /\ Len(submits) <= MaxAsked /\ Len(journeys) <= MaxJourneys
    /\ current \in 0..MaxJourneys
    /\ stops \in [of: 0..MaxJourneys, n: 0..2]
    /\ selected \in Stop \union {NoStop}
    /\ {loading, planError} \subseteq BOOLEAN
    /\ page \in {"plan", "stops", "menu"}
    /\ loads \in Seq(1..MaxJourneys) /\ Len(loads) <= MaxAsked
    /\ toggles \in Seq(1..MaxJourneys) /\ Len(toggles) <= 1
    /\ planMode \in PlanModes

\* The form as it is mounted: two demo addresses, nothing resolved.
PlanInit ==
    /\ planMode \in PlanModes
    /\ text = Demo
    /\ place = [e \in Ends |-> NoWord]
    /\ picks = {} /\ edits = 0
    /\ submits = <<>> /\ journeys = <<>>
    /\ current = 0 /\ stops = NoStops /\ selected = NoStop
    /\ loading = FALSE /\ planError = FALSE
    /\ page = "plan" /\ loads = <<>> /\ toggles = <<>>

MayEdit == planMode.tidy => submits = <<>> /\ toggles = <<>> /\ picks = {}

-----------------------------------------------------------------------------
(* The form.                                                               *)

\* emitTextChange: text that diverges from the resolved place clears it.
TypeText(e, w) ==
    /\ planMode.typed /\ page = "plan" /\ edits < MaxEdits /\ MayEdit
    /\ text' = [text EXCEPT ![e] = w]
    /\ place' = [place EXCEPT ![e] = NoWord]
    /\ edits' = edits + 1
    /\ UNCHANGED <<picks, submits, journeys, storeVars, toggles, planMode>>

\* pickSuggestion waits for the details of the place ...
PickSuggestion(e, w) ==
    /\ planMode.typed /\ page = "plan" /\ edits < MaxEdits /\ MayEdit
    /\ picks = {}
    /\ picks' = {[end |-> e, word |-> w]}
    /\ edits' = edits + 1
    /\ UNCHANGED <<text, place, submits, journeys, storeVars, toggles, planMode>>

\* ... and then sets text and place over whatever was typed since; without the
\* details the label stands there and no place.
PickAnswered(p) ==
    /\ text' = [text EXCEPT ![p.end] = p.word]
    /\ \E at \in {p.word, NoWord} : place' = [place EXCEPT ![p.end] = at]
    /\ picks' = picks \ {p}
    /\ UNCHANGED <<edits, submits, journeys, storeVars, toggles, planMode>>

InBand(o, d) == <<o, d>> \notin Near /\ <<d, o>> \notin Near

\* pairBlocked: both ends are resolved, too close or too far apart.
PairBlocked ==
    /\ NoWord \notin {place["from"], place["to"]}
    /\ ~InBand(place["from"], place["to"])

\* Mutant: it is not disabled while the store is loading.
SubmitWhileLoading == page = "plan" /\ ~PairBlocked

\* The button is disabled while the store is loading.  It is not while an
\* earlier submission still resolves its addresses.
SubmitAllowed == page = "plan" /\ ~loading /\ ~PairBlocked

\* onSubmit, with the texts and places of the moment.
Submit ==
    /\ SubmitAllowed /\ MayEdit
    /\ Len(submits) < MaxAsked /\ Len(journeys) + Len(submits) < MaxJourneys
    /\ submits' = Append(submits,
          [pc |-> "resolve", shown |-> text, place |-> place, ends |-> text,
           journey |-> 0, here |-> TRUE, n |-> 0])
    /\ UNCHANGED <<formVars, journeys, storeVars, toggles, planMode>>

\* resolveAddressToCoords for the ends that have no place: it finds the place of
\* the text or, without a key or a result, none.
Resolutions(s) ==
    {r \in [Ends -> Words \union {NoWord}] :
        \A e \in Ends : IF s.place[e] = NoWord THEN r[e] \in {s.shown[e], NoWord}
                                               ELSE r[e] = s.place[e]}

\* The places found are kept in the form, if it is still there, in band or not.
\* A pair out of band ends the submission; otherwise buildJourney posts the
\* addresses of the places, or the texts.
Resolved(i) ==
    LET s == submits[i]
    IN  /\ s.pc = "resolve"
        /\ \E r \in Resolutions(s) :
              LET both == NoWord \notin {r["from"], r["to"]}
                  ok == both => InBand(r["from"], r["to"])
              IN  /\ place' = IF both /\ s.here THEN r ELSE place
                  /\ \/ /\ ~ok
                        /\ submits' = RemoveAt(submits, i)
                        /\ UNCHANGED <<loading, planError>>
                     \/ /\ ok
                        /\ submits' = [submits EXCEPT ![i].pc = "analyze",
                              ![i].ends = [e \in Ends |-> IF r[e] = NoWord THEN s.shown[e]
                                                                            ELSE r[e]]]
                        /\ loading' = TRUE /\ planError' = FALSE
        /\ UNCHANGED <<text, picks, edits, journeys, current, stops, selected, page,
                       loads, toggles, planMode>>

-----------------------------------------------------------------------------
(* POST /routes/analyze and the two requests that follow it.               *)

\* The journey is inserted ...
JourneyInserted(i) ==
    LET s == submits[i]
    IN  /\ s.pc = "analyze" /\ Len(journeys) < MaxJourneys
        /\ journeys' = Append(journeys, [shown |-> s.shown, ends |-> s.ends, n |-> 0])
        /\ submits' = [submits EXCEPT ![i].pc = "stored", ![i].journey = Len(journeys) + 1]
        /\ UNCHANGED <<formVars, storeVars, toggles, planMode>>

\* ... and, after the outdoor conditions, its intercepts, if there are any.
InterceptsInserted(i) ==
    LET s == submits[i]
    IN  /\ s.pc = "stored"
        /\ \E n \in 0..2 : journeys' = [journeys EXCEPT ![s.journey].n = n]
        /\ submits' = [submits EXCEPT ![i].pc = "analyzed"]
        /\ UNCHANGED <<formVars, storeVars, toggles, planMode>>

\* GET /routes/:id and GET /routes/:id/intercepts.
JourneyFetched(i) ==
    LET s == submits[i]
    IN  /\ s.pc = "analyzed"
        /\ submits' = [submits EXCEPT ![i].pc = "fetched", ![i].n = journeys[s.journey].n]
        /\ UNCHANGED <<formVars, journeys, storeVars, toggles, planMode>>

\* Any of them is refused or fails: a journey may be left without intercepts.
BuildLost(i) ==
    /\ submits[i].pc \in {"analyze", "stored", "analyzed"}
    /\ submits' = [submits EXCEPT ![i].pc = "failed"]
    /\ UNCHANGED <<formVars, journeys, storeVars, toggles, planMode>>

-----------------------------------------------------------------------------
(* The store and the pages.                                                *)

\* The first stop is selected when none is: by the page of stops, and where "plan"
\* is the page of routes; on the dashboard it is not.
Selections(at, list) ==
    IF selected # NoStop \/ list.n = 0 \/ at = "menu" THEN {selected}
    ELSE {[of |-> list.of, nr |-> 1]} \union (IF at = "plan" THEN {NoStop} ELSE {})

\* Mutant: the first stop is selected also when there is none.
ShownSelectsAny(at, cur, list) ==
    LET asks == at = "stops" /\ cur # 0 /\ list.n = 0 /\ page # "stops"
    IN  /\ page' = at /\ current' = cur /\ stops' = list
        /\ selected' = IF at = "stops" /\ selected = NoStop
                       THEN [of |-> list.of, nr |-> 1] ELSE selected
        /\ loads' = IF asks THEN Append(loads, cur) ELSE loads
        /\ Len(loads') <= MaxAsked

\* What is shown, on which page, and the effects that run then: a selection, and
\* the page of stops loads the stops of a journey without any when it opens and
\* when the journey or their number changes.
Shown(at, cur, list) ==
    LET asks == /\ at = "stops" /\ cur # 0 /\ list.n = 0
                /\ page # "stops" \/ cur # current \/ list.n # stops.n
    IN  /\ page' = at /\ current' = cur /\ stops' = list
        /\ selected' \in Selections(at, list)
        /\ loads' = IF asks THEN Append(loads, cur) ELSE loads
        /\ Len(loads') <= MaxAsked

\* loading and error after it: a load that starts raises one and clears the other.
StoreFlags(busy, failed) ==
    /\ loading' = (busy \/ Len(loads') > Len(loads))
    /\ planError' = (failed /\ Len(loads') <= Len(loads))

\* The form is gone when the page changes, with its requests for details; a new
\* one starts from the demo addresses.  A submission of it goes on.
Forms(at, subs) ==
    IF at = page THEN submits' = subs /\ UNCHANGED <<text, place, picks>>
    ELSE /\ submits' = [j \in DOMAIN subs |-> [subs[j] EXCEPT !.here = FALSE]]
         /\ text' = Demo /\ place' = [e \in Ends |-> NoWord] /\ picks' = {}

\* buildJourney sets the journey and its intercepts together, and leaves the
\* selection; onSuccess of the route page goes to the stops, if there are any.
BuildAnswered(i) ==
    LET s == submits[i]
    IN  /\ s.pc = "fetched"
        /\ \E at \in {page, "stops"} :
              /\ at = page \/ s.n > 0
              /\ Shown(at, s.journey, [of |-> s.journey, n |-> s.n])
              /\ StoreFlags(FALSE, planError)
              /\ Forms(at, RemoveAt(submits, i))
        /\ UNCHANGED <<edits, journeys, toggles, planMode>>

BuildFailed(i) ==
    /\ submits[i].pc = "failed"
    /\ submits' = RemoveAt(submits, i)
    /\ loading' = FALSE /\ planError' = TRUE
    /\ UNCHANGED <<formVars, journeys, current, stops, selected, page, loads, toggles, planMode>>

\* The customer goes to another page; handleOrder needs a selected stop.
GoTo(at) ==
    /\ at # page /\ MayEdit
    /\ planMode.patient /\ at = "stops" => ~loading
    /\ at = "stops" => planMode.typed = FALSE
    /\ at = "menu" => page = "stops" /\ selected # NoStop
    /\ Shown(at, current, stops)
    /\ StoreFlags(loading, planError)
    /\ Forms(at, submits)
    /\ UNCHANGED <<edits, journeys, toggles, planMode>>

SelectStop(nr) ==
    /\ page = "stops" /\ nr \in 1..stops.n /\ MayEdit
    /\ selected' = [of |-> stops.of, nr |-> nr]
    /\ selected' # selected
    /\ UNCHANGED <<formVars, submits, journeys, current, stops, loading, planError,
                   page, loads, toggles, planMode>>

\* Refresh ETAs, or Retry of the error view: loadIntercepts.
RefreshStops ==
    /\ page = "stops" /\ current # 0 /\ MayEdit
    /\ ~loading
    /\ Len(loads) < MaxAsked
    /\ loads' = Append(loads, current)
    /\ loading' = TRUE /\ planError' = FALSE
    /\ UNCHANGED <<formVars, submits, journeys, current, stops, selected, page, toggles, planMode>>

\* Its answer goes into the store whatever the journey is by then.
StopsLoaded(i) ==
    LET list == [of |-> loads[i], n |-> journeys[loads[i]].n]
    IN  /\ stops' = list
        /\ selected' \in Selections(page, list)
        /\ LET again == page = "stops" /\ list.n = 0 /\ stops.n > 0
           IN  /\ loads' = IF again THEN Append(RemoveAt(loads, i), current)
                                    ELSE RemoveAt(loads, i)
               /\ loading' = again
               /\ planError' = (planError /\ ~again)
        /\ UNCHANGED <<formVars, submits, journeys, current, page, toggles, planMode>>

StopsFailed(i) ==
    /\ loads' = RemoveAt(loads, i)
    /\ loading' = FALSE /\ planError' = TRUE
    /\ UNCHANGED <<formVars, submits, journeys, current, stops, selected, page, toggles, planMode>>

\* onLocationShareToggle of the form: updateTelemetry keeps the journey it found.
ShareFromForm ==
    /\ page = "plan" /\ current # 0 /\ toggles = <<>> /\ MayEdit /\ ~planMode.typed
    /\ toggles' = <<current>>
    /\ UNCHANGED <<formVars, submits, journeys, storeVars, planMode>>

\* Answered: that journey is the current one again.  A failure changes nothing.
ShareAnswered ==
    /\ toggles # <<>>
    /\ \/ /\ Shown(page, toggles[1], stops)
          /\ StoreFlags(loading, planError)
       \/ UNCHANGED storeVars
    /\ toggles' = <<>>
    /\ UNCHANGED <<formVars, submits, journeys, planMode>>

PlanNext ==
    \/ \E e \in Ends, w \in Words : TypeText(e, w) \/ PickSuggestion(e, w)
    \/ \E p \in picks : PickAnswered(p)
    \/ Submit
    \/ \E i \in DOMAIN submits :
          \/ Resolved(i) \/ JourneyInserted(i) \/ InterceptsInserted(i) \/ JourneyFetched(i)
          \/ BuildLost(i) \/ BuildAnswered(i) \/ BuildFailed(i)
    \/ \E at \in {"plan", "stops", "menu"} : GoTo(at)
    \/ \E nr \in 1..2 : SelectStop(nr)
    \/ RefreshStops
    \/ \E i \in DOMAIN loads : StopsLoaded(i) \/ StopsFailed(i)
    \/ ShareFromForm \/ ShareAnswered

-----------------------------------------------------------------------------
\* A customer who waits for his submissions has the journey analysed between the
\* addresses that stood in the form when he submitted it, whether they were typed,
\* picked from late suggestions, or resolved by an earlier submission.
JourneyAsTyped ==
    planMode.tidy => \A i \in DOMAIN journeys : journeys[i].ends = journeys[i].shown

\* For the same customer, if he does not go back to the stops while they load, the
\* stops shown are those of the journey in the store: no load of stops is under way
\* for another journey when a new one arrives.  (One who goes to the stops and back
\* has several loads under way; the first answer ends `loading` for all of them,
\* he may submit again, and the last one puts its stops under the new journey.)
StopsAreOfJourney ==
    planMode.tidy /\ planMode.patient /\ stops.n > 0 => stops.of = current
=============================================================================
