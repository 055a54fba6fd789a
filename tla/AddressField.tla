----------------------------- MODULE AddressField -----------------------------
(***************************************************************************)
(* The two address fields of the form of JourneyPlanner in detail: how a   *)
(* field comes to be one with suggestions, Google's own element or a plain *)
(* input (PlaceAutocompleteInput.tsx, google-maps-loader.ts), and how the  *)
(* suggestions follow the text of the field and the place of the other     *)
(* end, from which their distances are counted.                            *)
(*                                                                         *)
(* Each render runs the effects: a field whose text or anchor has changed  *)
(* cancels what it waits for and starts a timer, the timer sends a         *)
(* request, and its answer replaces the suggestions unless it was          *)
(* cancelled.  Only the request for the details of a suggestion that was   *)
(* clicked cannot be cancelled.  A place that is resolved again at the     *)
(* same spot counts as no change.                                          *)
(***************************************************************************)
EXTENDS JourneyPlanner, FiniteSets

CONSTANTS
    Short,       \* texts of fewer than two characters
    Suggests,    \* the places Google suggests for each text
    MaxFetches,  \* bound: requests for suggestions sent by one field
    FieldModes   \* input: circumstances, records of FieldMode

FieldMode ==
    [keyed: BOOLEAN,   \* a key for the Maps API is configured
     waits: BOOLEAN,   \* the customer picks only from suggestions that have settled
     submits: BOOLEAN] \* he submits the form

ASSUME FieldAssumption ==
    /\ \A w \in Words : Suggests[w] \subseteq Words
    /\ MaxFetches \in Nat
    /\ FieldModes \subseteq FieldMode

VARIABLES
    script,     \* loadPromise: the Maps script of this page load
    library,    \* what importLibrary("places") has when the script is there
    kind,       \* mode of each field
    due,        \* fields whose 220 ms timer runs
    fetches,    \* requests for suggestions of each field, oldest first
    offers,     \* suggestions of each field: the text and anchor they are for
    open,       \* fields whose list is open
    fieldMode

fieldVars == <<script, library, kind, due, fetches, offers, open, fieldMode>>

NoOffers == [word |-> NoWord, anchor |-> NoWord]
Kinds == {"loading", "element", "suggestions", "fallback"}
Fetch == [word: Words, anchor: Words \union {NoWord}, live: BOOLEAN]

FieldTypes ==
    /\ script \in {"loading", "ready", "failed"}
    /\ library \in {"suggestions", "element", "neither"}
    /\ kind \in [Ends -> Kinds]
    /\ due \subseteq Ends /\ open \subseteq Ends
    /\ \A e \in Ends :
          /\ fetches[e] \in Seq(Fetch) /\ Len(fetches[e]) <= MaxFetches
          /\ Cardinality({i \in DOMAIN fetches[e] : fetches[e][i].live}) <= 1
    /\ offers \in [Ends -> [word: Words \union {NoWord}, anchor: Words \union {NoWord}]]
    /\ fieldMode \in FieldModes

Other(e) == IF e = "from" THEN "to" ELSE "from"

\* A field that is mounted loads the library; without a key it is plain at once.
Mounted == [e \in Ends |-> IF fieldMode.keyed THEN "loading" ELSE "fallback"]

FieldInit ==
    /\ fieldMode \in FieldModes
    /\ script = "loading" /\ library \in {"suggestions", "element", "neither"}
    /\ kind = Mounted
    /\ due = {} /\ open = {}
    /\ fetches = [e \in Ends |-> <<>>]
    /\ offers = [e \in Ends |-> NoOffers]

Cancelled(sent) == [i \in DOMAIN sent |-> [sent[i] EXCEPT !.live = FALSE]]

-----------------------------------------------------------------------------
(* The effects of a field, after a step that leads to the given suggestions *)
(* and requests.                                                            *)

\* Mutant: the anchor is missing from the effect's dependencies.
RerunsForText(e) ==
    /\ kind'[e] = "suggestions"
    /\ kind[e] # kind'[e] \/ text[e] # text'[e]

\* What the effect depends on: the mode, the text, and the place of the other end.
Reruns(e) ==
    /\ kind'[e] = "suggestions"
    /\ \/ kind[e] # kind'[e] \/ text[e] # text'[e]
       \/ place[Other(e)] # place'[Other(e)]

\* It cancels what the field waits for; a text that is too short clears the
\* suggestions at once, any other starts the timer.
Effects(list, sent) ==
    LET rerun == {e \in Ends : Reruns(e)}
        brief == {e \in rerun : text'[e] \in Short}
    IN  /\ due' = (due \ rerun) \union (rerun \ brief)
        /\ fetches' = [e \in Ends |-> IF e \in rerun THEN Cancelled(sent[e]) ELSE sent[e]]
        /\ offers' = [e \in Ends |-> IF e \in brief THEN NoOffers ELSE list[e]]

Listed(e) == kind[e] = "suggestions" /\ offers[e] # NoOffers

\* A suggestion can be clicked unless it is too near or too far from the anchor;
\* without an anchor there is no distance.
Enabled(e, w) ==
    /\ w \in Suggests[offers[e].word]
    /\ offers[e].anchor = NoWord \/ InBand(offers[e].anchor, w)

\* A field has settled: no timer, and no request whose answer will be shown.
SettledField(e) ==
    e \notin due /\ \A i \in DOMAIN fetches[e] : ~fetches[e][i].live

-----------------------------------------------------------------------------
\* The script has loaded, or not.  A promise that was rejected is kept, so that
\* fields mounted later fail too.
ScriptEnds ==
    /\ fieldMode.keyed /\ script = "loading"
    /\ script' \in {"ready", "failed"}
    /\ UNCHANGED <<planVars, library, kind, due, fetches, offers, open, fieldMode>>

\* loadPlacesLibrary has answered: the fields prefer suggestions, then the
\* element, which may fail to mount.
LibraryLoaded(e) ==
    /\ kind[e] = "loading" /\ script # "loading"
    /\ kind' = [kind EXCEPT ![e] =
          IF script = "failed" \/ library = "neither" THEN "fallback" ELSE library]
    /\ UNCHANGED planVars
    /\ Effects(offers, fetches)
    /\ UNCHANGED <<script, library, open, fieldMode>>

ElementFails(e) ==
    /\ kind[e] = "loading" /\ script = "ready" /\ library = "element"
    /\ kind' = [kind EXCEPT ![e] = "fallback"]
    /\ UNCHANGED <<planVars, script, library, due, fetches, offers, open, fieldMode>>

\* The customer types; Google's element keeps its text to itself.
TypeInField(e, w) ==
    /\ kind[e] # "element" /\ w # text[e]
    /\ TypeText(e, w)
    /\ open' = IF kind[e] = "suggestions" THEN open \union {e} ELSE open
    /\ UNCHANGED <<script, library, kind, fieldMode>>
    /\ Effects(offers, fetches)

\* The timer ends: the text and anchor of the render that started it are sent.
TimerEnds(e) ==
    /\ e \in due /\ Len(fetches[e]) < MaxFetches
    /\ due' = due \ {e}
    /\ fetches' = [fetches EXCEPT ![e] =
          Append(@, [word |-> text[e], anchor |-> place[Other(e)], live |-> TRUE])]
    /\ UNCHANGED <<planVars, script, library, kind, offers, open, fieldMode>>

\* The answer of a request that was not cancelled is shown, and opens the list
\* also of a field that nobody is in.
SuggestionsAnswered(e, i) ==
    LET f == fetches[e][i]
    IN  /\ fetches' = [fetches EXCEPT ![e] = RemoveAt(@, i)]
        /\ offers' = IF f.live THEN [offers EXCEPT ![e] = [word |-> f.word, anchor |-> f.anchor]]
                               ELSE offers
        /\ open' = IF f.live THEN open \union {e} ELSE open
        /\ UNCHANGED <<planVars, script, library, kind, due, fieldMode>>

SuggestionsFailed(e, i) ==
    /\ fetches' = [fetches EXCEPT ![e] = RemoveAt(@, i)]
    /\ offers' = IF fetches[e][i].live THEN [offers EXCEPT ![e] = NoOffers] ELSE offers
    /\ UNCHANGED <<planVars, script, library, kind, due, open, fieldMode>>

\* onFocus opens a list that is not empty, onBlur closes it a moment later.
FocusField(e) ==
    /\ Listed(e) /\ e \notin open /\ Suggests[offers[e].word] # {}
    /\ open' = open \union {e}
    /\ UNCHANGED <<planVars, script, library, kind, due, fetches, offers, fieldMode>>

BlurField(e) ==
    /\ e \in open /\ open' = open \ {e}
    /\ UNCHANGED <<planVars, script, library, kind, due, fetches, offers, fieldMode>>

\* A suggestion of the list is clicked, or one of the element's own.
PickInField(e, w) ==
    /\ \/ Listed(e) /\ e \in open /\ Enabled(e, w)
       \/ kind[e] = "element" /\ w \notin Short
    /\ fieldMode.waits => \A end \in Ends : SettledField(end)
    /\ PickSuggestion(e, w)
    /\ UNCHANGED fieldVars

\* The details arrive, or not: the list of the field is cleared and closed.
PickEnds(p) ==
    /\ PickAnswered(p)
    /\ UNCHANGED <<script, library, kind, fieldMode>>
    /\ open' = IF kind[p.end] = "suggestions" THEN open \ {p.end} ELSE open
    /\ Effects([offers EXCEPT ![p.end] = NoOffers], fetches)

\* The form is submitted as it stands, and what it resolves are new anchors.
SubmitFields == fieldMode.submits /\ Submit /\ UNCHANGED fieldVars

FieldsResolved(i) ==
    /\ Resolved(i)
    /\ UNCHANGED <<script, library, kind, open, fieldMode>>
    /\ Effects(offers, fetches)

\* Another page and back: new fields, over the same script.
RemountForm ==
    /\ MayEdit /\ edits < MaxEdits /\ edits' = edits + 1
    /\ text' = Demo /\ place' = [e \in Ends |-> NoWord] /\ picks' = {}
    /\ submits' = [j \in DOMAIN submits |-> [submits[j] EXCEPT !.here = FALSE]]
    /\ kind' = Mounted /\ due' = {} /\ open' = {}
    /\ fetches' = [e \in Ends |-> Cancelled(fetches[e])]
    /\ offers' = [e \in Ends |-> NoOffers]
    /\ UNCHANGED <<journeys, storeVars, toggles, planMode, script, library, fieldMode>>

FieldNext ==
    \/ ScriptEnds
    \/ \E e \in Ends :
          \/ LibraryLoaded(e) \/ ElementFails(e) \/ TimerEnds(e) \/ FocusField(e) \/ BlurField(e)
          \/ \E w \in Words : TypeInField(e, w) \/ PickInField(e, w)
          \/ \E i \in DOMAIN fetches[e] : SuggestionsAnswered(e, i) \/ SuggestionsFailed(e, i)
    \/ \E p \in picks : PickEnds(p)
    \/ SubmitFields
    \/ \E i \in DOMAIN submits : FieldsResolved(i)
    \/ RemountForm

-----------------------------------------------------------------------------
\* Once a field has settled, what it offers is for the text it shows and counted
\* from the place that stands at the other end, whatever was typed, picked or
\* resolved there meanwhile.
OffersAreCurrent ==
    \A e \in Ends :
      Listed(e) /\ SettledField(e)
        => offers[e] = [word |-> text[e], anchor |-> place[Other(e)]]

\* A customer who waits for the suggestions, and picks both ends from them, has
\* two places that a journey can join: what is greyed in one field follows the
\* other, in any order of picking and typing.  (The element greys nothing, a
\* submission resolves whatever was typed.)
PickedPairFits ==
    (/\ fieldMode.waits /\ planMode.tidy /\ ~fieldMode.submits
     /\ \A e \in Ends : kind[e] = "suggestions" /\ place[e] # NoWord)
        => InBand(place["from"], place["to"])
=============================================================================
