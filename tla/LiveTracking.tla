---------------------------- MODULE LiveTracking ----------------------------
(***************************************************************************)
(* The tracking page in the browser: the tracking store with its one poll  *)
(* timer and its snapshot that all orders share, live location sharing     *)
(* from the page, and the telemetry handler of the server, which reads the *)
(* journey's JSON column, merges, and writes it back.                      *)
(***************************************************************************)
EXTENDS Naturals, Sequences, SequencesExt

CONSTANTS
    Parcels,       \* orders with a tracking page
    Trip,          \* the journey of each
    MaxFix,        \* bound: GPS positions sent
    MaxFlight,     \* bound: tracking requests, and patches, in flight
    TrackModes,    \* input: circumstances, records of TrackMode
    Nowhere

TrackMode ==
    [parcels: SUBSET Parcels,  \* orders whose pages are opened
     sharing: BOOLEAN,         \* location sharing is used
     calm: BOOLEAN]            \* the customer waits for the answers, which come,
                               \* and in order

ASSUME TrackAssumption ==
    /\ Nowhere \notin Parcels
    /\ {MaxFix, MaxFlight} \subseteq Nat
    /\ TrackModes \subseteq TrackMode

VARIABLES
    at,        \* the order whose page is mounted
    timers,    \* intervals that run, by the order they poll
    poll,      \* pollInterval: the interval the store knows
    tracks,    \* GET /orders/:id/track in flight
    snapshot,  \* the store's snapshot: of which order, and its sharing flag
    trackError,
    share,     \* shareLocation of the page
    choice,    \* history: what the customer last chose on this page
    fixes,     \* GPS positions sent so far
    patches,   \* PATCH /routes/:id/telemetry handlers
    trip,      \* vehicleDetailsJson of each journey: sharing, last position
    trackMode

trackVars == <<at, timers, poll, tracks, snapshot, trackError, share, choice,
               fixes, patches, trip, trackMode>>

Trips == {Trip[o] : o \in Parcels}
TripData == [sharing: BOOLEAN, fix: 0..MaxFix]
NoSnapshot == [order |-> Nowhere, sharing |-> FALSE]

TrackTypes ==
    /\ at \in Parcels \union {Nowhere} /\ poll \in Parcels \union {Nowhere}
    /\ timers \subseteq Parcels
    /\ snapshot \in [order: Parcels \union {Nowhere}, sharing: BOOLEAN]
    /\ tracks \in Seq([order: Parcels, served: BOOLEAN, sharing: BOOLEAN])
    /\ Len(tracks) <= MaxFlight /\ Len(patches) <= MaxFlight
    /\ patches \in Seq([order: Parcels, trip: Trips, sharing: BOOLEAN, fix: 0..MaxFix,
                        pc: {"sent", "read", "done"}, read: TripData])
    /\ trip \in [Trips -> TripData]
    /\ {trackError, share} \subseteq BOOLEAN
    /\ choice \in {"none", "on", "off"} /\ fixes \in 0..MaxFix
    /\ trackMode \in TrackModes

TrackInit ==
    /\ at = Nowhere /\ timers = {} /\ poll = Nowhere
    /\ tracks = <<>> /\ snapshot = NoSnapshot /\ trackError = FALSE
    /\ share = FALSE /\ choice = "none" /\ fixes = 0
    /\ patches = <<>>
    /\ trackMode \in TrackModes
    /\ trip \in [Trips -> [sharing: IF trackMode.sharing THEN BOOLEAN ELSE {FALSE},
                           fix: {0}]]

MayAct == trackMode.calm => tracks = <<>> /\ patches = <<>>

\* fetchTrack sends a request; the store's error is forgotten.
FetchTrack(o) ==
    /\ Len(tracks) < MaxFlight
    /\ tracks' = Append(tracks, [order |-> o, served |-> FALSE, sharing |-> FALSE])
    /\ trackError' = FALSE

\* startPolling clears the interval the store knows.
StartPolling(o) ==
    /\ timers' = (timers \ {poll}) \union {o}
    /\ poll' = o

\* Mutant: the interval is forgotten, not cleared.
StopPollingForgets ==
    /\ timers' = timers
    /\ poll' = Nowhere

StopPolling ==
    /\ timers' = timers \ {poll}
    /\ poll' = Nowhere

\* The page of an order is opened, or follows its address to another order: the
\* effects run, the cleanup of the earlier order first.  The store's snapshot is
\* the one that was there; if it says so, this page shares at once.
OpenTrack(o) ==
    /\ o \in trackMode.parcels /\ at # o /\ MayAct
    /\ at' = o
    /\ FetchTrack(o)
    /\ StartPolling(o)
    /\ share' = IF at = Nowhere THEN snapshot.sharing ELSE share
    /\ choice' = "none"
    /\ UNCHANGED <<snapshot, fixes, patches, trip, trackMode>>

LeaveTrack ==
    /\ at # Nowhere /\ MayAct
    /\ at' = Nowhere
    /\ StopPolling
    /\ share' = FALSE /\ choice' = "none"
    /\ UNCHANGED <<tracks, snapshot, trackError, fixes, patches, trip, trackMode>>

\* An interval fires, or the refresh button is pressed.
PollTick(o) ==
    /\ o \in timers
    /\ FetchTrack(o)
    /\ UNCHANGED <<at, timers, poll, snapshot, share, choice, fixes, patches, trip, trackMode>>

TrackServed(i) ==
    /\ ~tracks[i].served
    /\ trackMode.calm => \A j \in 1..(i - 1) : tracks[j].served
    /\ tracks' = [tracks EXCEPT ![i].served = TRUE,
                                ![i].sharing = trip[Trip[tracks[i].order]].sharing]
    /\ UNCHANGED <<at, timers, poll, snapshot, trackError, share, choice, fixes,
                   patches, trip, trackMode>>

\* An answer goes into the snapshot whichever page is open.  The effect on
\* liveLocationSharing runs when that value has changed.
TrackAnswered(i) ==
    /\ tracks[i].served
    /\ trackMode.calm => i = 1
    /\ snapshot' = [order |-> tracks[i].order, sharing |-> tracks[i].sharing]
    /\ share' = (share \/ (at # Nowhere /\ tracks[i].sharing /\ ~snapshot.sharing))
    /\ tracks' = RemoveAt(tracks, i)
    /\ UNCHANGED <<at, timers, poll, trackError, choice, fixes, patches, trip, trackMode>>

\* A failed request: the old snapshot stays, the page shows the error.
TrackFailed(i) ==
    /\ ~trackMode.calm
    /\ tracks' = RemoveAt(tracks, i)
    /\ trackError' = TRUE
    /\ UNCHANGED <<at, timers, poll, snapshot, share, choice, fixes, patches, trip, trackMode>>

\* LiveLocationPanel is there while a snapshot is shown.
PanelShown == at # Nowhere /\ snapshot.order # Nowhere /\ ~trackError

\* Mutant: the watch goes on when sharing is switched off.
WatchingForever == PanelShown

\* useLiveLocation: positions are watched while sharing is enabled.
Watching == PanelShown /\ share

Patch(sharing, fix) ==
    [order |-> at, trip |-> Trip[snapshot.order], sharing |-> sharing, fix |-> fix,
     pc |-> "sent", read |-> [sharing |-> FALSE, fix |-> 0]]

\* onShareToggle: the page first, then the journey of the snapshot shown.
ToggleShare(on) ==
    /\ trackMode.sharing
    /\ PanelShown /\ share # on /\ MayAct
    /\ Len(patches) < MaxFlight
    /\ share' = on
    /\ choice' = IF on THEN "on" ELSE "off"
    /\ patches' = Append(patches, Patch(on, 0))
    /\ UNCHANGED <<at, timers, poll, tracks, snapshot, trackError, fixes, trip, trackMode>>

\* onTrackLocation: a position, and with it that it is shared.
SendLocation ==
    /\ Watching
    /\ fixes < MaxFix /\ Len(patches) < MaxFlight
    /\ fixes' = fixes + 1
    /\ patches' = Append(patches, Patch(TRUE, fixes + 1))
    /\ UNCHANGED <<at, timers, poll, tracks, snapshot, trackError, share, choice, trip, trackMode>>

\* The handler: requireJourneyOwnership reads the row ...
TelemetryRead(i) ==
    /\ patches[i].pc = "sent"
    /\ trackMode.calm => i = 1
    /\ patches' = [patches EXCEPT ![i].pc = "read", ![i].read = trip[patches[i].trip]]
    /\ UNCHANGED <<at, timers, poll, tracks, snapshot, trackError, share, choice,
                   fixes, trip, trackMode>>

\* ... mergeVehicleDetails takes what the patch has over what was read, and the
\* whole column is written.
TelemetryWrite(i) ==
    LET p == patches[i]
    IN  /\ p.pc = "read"
        /\ trip' = [trip EXCEPT ![p.trip] =
              [sharing |-> p.sharing, fix |-> IF p.fix = 0 THEN p.read.fix ELSE p.fix]]
        /\ patches' = [patches EXCEPT ![i].pc = "done"]
        /\ UNCHANGED <<at, timers, poll, tracks, snapshot, trackError, share, choice,
                       fixes, trackMode>>

\* Answered: the page of the order it came from fetches again.  A failed patch is
\* ignored.
PatchAnswered(i) ==
    /\ \/ patches[i].pc = "done" /\ FetchTrack(patches[i].order)
       \/ ~trackMode.calm /\ patches[i].pc = "sent" /\ UNCHANGED <<tracks, trackError>>
    /\ patches' = RemoveAt(patches, i)
    /\ UNCHANGED <<at, timers, poll, snapshot, share, choice, fixes, trip, trackMode>>

TrackNext ==
    \/ \E o \in Parcels : OpenTrack(o) \/ PollTick(o)
    \/ \E i \in DOMAIN tracks : TrackServed(i) \/ TrackAnswered(i) \/ TrackFailed(i)
    \/ \E on \in BOOLEAN : ToggleShare(on)
    \/ \E i \in DOMAIN patches : TelemetryRead(i) \/ TelemetryWrite(i) \/ PatchAnswered(i)
    \/ LeaveTrack \/ SendLocation

\* The interval fires again and again, every request is answered or fails, and
\* of requests that are sent again and again some reach the server and some
\* answers arrive.
TrackFairness ==
    /\ \A o \in Parcels : WF_trackVars(PollTick(o))
    /\ SF_trackVars(tracks # <<>> /\ TrackServed(1))
    /\ WF_trackVars(tracks # <<>> /\ (TrackAnswered(1) \/ TrackFailed(1)))
    /\ \A o \in Parcels :
          SF_trackVars(tracks # <<>> /\ tracks[1].order = o /\ TrackAnswered(1))

-----------------------------------------------------------------------------
\* Sharing that the customer switched off on a page stays off there, as long as
\* he waits for the answers and they come in order: neither a poll nor a GPS
\* position brings it back.  (A position under way when he switches it off does:
\* it says liveLocationSharing, is written last, and the page follows it.)
SwitchedOffStaysOff ==
    trackMode.calm /\ choice = "off" => ~share

\* A customer who stays on an order's page comes to see that order, for good:
\* late answers about another order, into the same snapshot, come to an end,
\* because only the page's own interval polls.
PageShowsItsOrder ==
    \A o \in Parcels : <>[](at = o) => <>[](snapshot.order = o)
=============================================================================
