----------------------------- MODULE Pages_proofs -----------------------------
(***************************************************************************)
(* Proofs about the pages of MCPages, for every number of orders, journeys, *)
(* texts, requests and users: the state of each page keeps its type, and    *)
(*   - live location sharing that a calm customer switched off stays off;   *)
(*   - a journey is the one that was typed, what a field offers belongs to  *)
(*     its text and to the place at the other end, and two places picked    *)
(*     from such offers can be joined by a journey;                         *)
(*   - the stops that are shown are those of the journey of the store.      *)
(*                                                                         *)
(* Each page has its inductive invariant: OffStays for tracking (the order  *)
(* of the answers under way and what they say of sharing), PlanKnown,       *)
(* TypedInv and StopsInv for planning, FieldInv and FitInv for the fields   *)
(* of its form, AdminKnown for the console.  At the end they are put        *)
(* together: a step of one scene leaves the pages of the others alone.      *)
(***************************************************************************)
EXTENDS MCPages, SequenceTheorems, FiniteSetTheorems, TLAPS

\* What is left of a list of requests once one of them is answered.
LEMMA RemovedAt ==
    ASSUME NEW S, NEW q \in Seq(S), NEW i \in 1..Len(q)
    PROVE  /\ RemoveAt(q, i) \in Seq(S)
           /\ Len(RemoveAt(q, i)) = Len(q) - 1
           /\ \A k \in 1..(Len(q) - 1) : RemoveAt(q, i)[k] = IF k < i THEN q[k] ELSE q[k + 1]
<1> DEFINE a == SubSeq(q, 1, i - 1)
           b == SubSeq(q, i + 1, Len(q))
<1>1. /\ a \in Seq(S) /\ Len(a) = i - 1
      /\ \A k \in 1..(i - 1) : a[k] = q[k]
  BY SubSeqProperties
<1>2. /\ b \in Seq(S) /\ Len(b) = Len(q) - i
      /\ \A k \in 1..(Len(q) - i) : b[k] = q[i + k]
  BY SubSeqProperties
<1>3. RemoveAt(q, i) = a \o b
  BY DEF RemoveAt
<1> HIDE DEF a, b
<1>4. /\ a \o b \in Seq(S)
      /\ Len(a \o b) = Len(a) + Len(b)
      /\ \A k \in 1..(Len(a) + Len(b)) :
            (a \o b)[k] = IF k <= Len(a) THEN a[k] ELSE b[k - Len(a)]
  BY <1>1, <1>2, ConcatProperties, Zenon
<1>5. Len(a) + Len(b) = Len(q) - 1
  BY <1>1, <1>2
<1>6. ASSUME NEW k \in 1..(Len(q) - 1)
      PROVE  (a \o b)[k] = IF k < i THEN q[k] ELSE q[k + 1]
  <2>1. CASE k < i
    BY <2>1, <1>1, <1>4, <1>5
  <2>2. CASE ~(k < i)
    <3>1. (a \o b)[k] = b[k - Len(a)]
      BY <2>2, <1>1, <1>4, <1>5
    <3>2. k - Len(a) \in 1..(Len(q) - i) /\ i + (k - Len(a)) = k + 1
      BY <2>2, <1>1
    <3> QED
      BY <2>2, <3>1, <3>2, <1>2
  <2> QED
    BY <2>1, <2>2
<1>7. /\ a \o b \in Seq(S)
      /\ Len(a \o b) = Len(q) - 1
  BY <1>4, <1>5
<1> QED
  BY <1>3, <1>6, <1>7, Zenon

-----------------------------------------------------------------------------
(* Live tracking.                                                          *)

Track == [order: Parcels, served: BOOLEAN, sharing: BOOLEAN]
PatchSent == [order: Parcels, trip: Trips, sharing: BOOLEAN, fix: 0..MaxFix,
              pc: {"sent", "read", "done"}, read: TripData]

\* The journey of an order is one of the journeys, and what is known of it is read.
LEMMA TripsTyped ==
    TrackTypes => \A o \in Parcels : Trip[o] \in Trips /\ trip[Trip[o]] \in TripData
  BY DEF TrackTypes, Trips

\* A patch is sent from a page that shows a snapshot, for the journey of that one.
LEMMA PatchTyped ==
    TrackTypes /\ at \in Parcels /\ snapshot.order \in Parcels
        => \A s \in BOOLEAN, f \in 0..MaxFix : Patch(s, f) \in PatchSent
<1> SUFFICES ASSUME TrackTypes, at \in Parcels, snapshot.order \in Parcels,
                    NEW s \in BOOLEAN, NEW f \in 0..MaxFix
             PROVE  Patch(s, f) \in PatchSent
  OBVIOUS
<1>1. [sharing |-> FALSE, fix |-> 0] \in TripData
  BY TrackAssumption DEF TripData
<1> QED
  BY <1>1, TripsTyped DEF Patch, PatchSent

\* The panel is shown on a page, with a snapshot of some order.
LEMMA PanelOnPage ==
    TrackTypes /\ PanelShown => at \in Parcels /\ snapshot.order \in Parcels
  BY DEF TrackTypes, PanelShown

\* The page starts typed.
LEMMA TrackTypesInit == TrackInit => TrackTypes
<1> SUFFICES ASSUME TrackInit PROVE TrackTypes
  OBVIOUS
<1>1. trip \in [Trips -> TripData]
  <2> DEFINE S == IF trackMode.sharing THEN BOOLEAN ELSE {FALSE}
  <2>1. S \subseteq BOOLEAN
    BY Zenon
  <2>2. 0 \in 0..MaxFix
    BY TrackAssumption
  <2>3. trip \in [Trips -> [sharing: S, fix: {0}]]
    BY DEF TrackInit
  <2> HIDE DEF S
  <2>4. \A d \in [sharing: S, fix: {0}] : d \in TripData
    BY <2>1, <2>2 DEF TripData
  <2> QED  BY <2>3, <2>4
<1>2. NoSnapshot \in [order: Parcels \union {Nowhere}, sharing: BOOLEAN]
  BY DEF NoSnapshot
<1>3. /\ tracks = <<>> /\ patches = <<>> /\ Len(tracks) = 0 /\ Len(patches) = 0
      /\ tracks \in Seq(Track) /\ patches \in Seq(PatchSent)
  BY DEF TrackInit
<1>4. /\ Len(tracks) <= MaxFlight /\ Len(patches) <= MaxFlight
      /\ fixes \in 0..MaxFix
  BY <1>3, TrackAssumption DEF TrackInit
<1> QED
  BY <1>1, <1>2, <1>3, <1>4 DEF TrackInit, TrackTypes, Track, PatchSent

\* A request for the tracking data is sent.
LEMMA FetchTyped ==
    TrackTypes => \A o \in Parcels : FetchTrack(o) =>
        /\ tracks' \in Seq(Track) /\ Len(tracks') = Len(tracks) + 1 /\ Len(tracks') <= MaxFlight
        /\ \A i \in DOMAIN tracks : tracks'[i] = tracks[i]
        /\ tracks'[Len(tracks')] = [order |-> o, served |-> FALSE, sharing |-> FALSE]
        /\ trackError' = FALSE
<1> SUFFICES ASSUME TrackTypes, NEW o \in Parcels, FetchTrack(o)
             PROVE  /\ tracks' \in Seq(Track) /\ Len(tracks') = Len(tracks) + 1
                    /\ Len(tracks') <= MaxFlight
                    /\ \A i \in DOMAIN tracks : tracks'[i] = tracks[i]
                    /\ tracks'[Len(tracks')] = [order |-> o, served |-> FALSE, sharing |-> FALSE]
                    /\ trackError' = FALSE
  OBVIOUS
<1> DEFINE t == [order |-> o, served |-> FALSE, sharing |-> FALSE]
<1>1. t \in Track
  BY DEF Track
<1>2. tracks \in Seq(Track) /\ tracks' = Append(tracks, t) /\ trackError' = FALSE
  BY DEF TrackTypes, FetchTrack, Track
<1>3. Len(tracks) < MaxFlight /\ MaxFlight \in Nat
  BY TrackAssumption DEF FetchTrack
<1> HIDE DEF t
<1>4. /\ tracks' \in Seq(Track) /\ Len(tracks') = Len(tracks) + 1
      /\ \A i \in DOMAIN tracks : tracks'[i] = tracks[i]
      /\ tracks'[Len(tracks')] = t
  BY <1>1, <1>2
<1> QED
  BY <1>2, <1>3, <1>4 DEF t

\* What stays of the requests, and of the patches, when one of them is over.
LEMMA TracksLeft ==
    TrackTypes => \A i \in DOMAIN tracks :
        /\ RemoveAt(tracks, i) \in Seq(Track) /\ Len(RemoveAt(tracks, i)) = Len(tracks) - 1
        /\ \A k \in 1..(Len(tracks) - 1) :
              RemoveAt(tracks, i)[k] = IF k < i THEN tracks[k] ELSE tracks[k + 1]
<1> SUFFICES ASSUME TrackTypes, NEW i \in DOMAIN tracks
             PROVE  /\ RemoveAt(tracks, i) \in Seq(Track)
                    /\ Len(RemoveAt(tracks, i)) = Len(tracks) - 1
                    /\ \A k \in 1..(Len(tracks) - 1) :
                          RemoveAt(tracks, i)[k] = IF k < i THEN tracks[k] ELSE tracks[k + 1]
  OBVIOUS
<1>1. tracks \in Seq(Track) /\ i \in 1..Len(tracks)
  BY DEF TrackTypes, Track
<1> QED
  BY <1>1, RemovedAt

\* What is left of the patches once one is answered.
LEMMA PatchesLeft ==
    TrackTypes => \A i \in DOMAIN patches :
        /\ RemoveAt(patches, i) \in Seq(PatchSent) /\ Len(RemoveAt(patches, i)) = Len(patches) - 1
        /\ \A k \in 1..(Len(patches) - 1) :
              RemoveAt(patches, i)[k] = IF k < i THEN patches[k] ELSE patches[k + 1]
<1> SUFFICES ASSUME TrackTypes, NEW i \in DOMAIN patches
             PROVE  /\ RemoveAt(patches, i) \in Seq(PatchSent)
                    /\ Len(RemoveAt(patches, i)) = Len(patches) - 1
                    /\ \A k \in 1..(Len(patches) - 1) :
                          RemoveAt(patches, i)[k] = IF k < i THEN patches[k] ELSE patches[k + 1]
  OBVIOUS
<1>1. patches \in Seq(PatchSent) /\ i \in 1..Len(patches)
  BY DEF TrackTypes, PatchSent
<1> QED
  BY <1>1, RemovedAt

\* A patch is sent.
LEMMA PatchAdded ==
    TrackTypes => \A p \in PatchSent : Len(patches) < MaxFlight =>
        /\ Append(patches, p) \in Seq(PatchSent)
        /\ Len(Append(patches, p)) = Len(patches) + 1 /\ Len(Append(patches, p)) <= MaxFlight
        /\ \A k \in DOMAIN patches : Append(patches, p)[k] = patches[k]
        /\ Append(patches, p)[Len(patches) + 1] = p
  BY TrackAssumption DEF TrackTypes, PatchSent

\* No step of the page, the store or the server leaves the types.
LEMMA TrackTypesStep == TrackTypes /\ [TrackNext]_trackVars => TrackTypes'
<1> SUFFICES ASSUME TrackTypes, [TrackNext]_trackVars PROVE TrackTypes'
  OBVIOUS
<1>0. /\ at \in Parcels \union {Nowhere} /\ poll \in Parcels \union {Nowhere}
      /\ timers \subseteq Parcels
      /\ snapshot \in [order: Parcels \union {Nowhere}, sharing: BOOLEAN]
      /\ tracks \in Seq(Track) /\ patches \in Seq(PatchSent)
      /\ Len(tracks) <= MaxFlight /\ Len(patches) <= MaxFlight
      /\ trip \in [Trips -> TripData]
      /\ trackError \in BOOLEAN /\ share \in BOOLEAN
      /\ choice \in {"none", "on", "off"} /\ fixes \in 0..MaxFix
      /\ trackMode \in TrackModes
      /\ MaxFix \in Nat /\ MaxFlight \in Nat
  BY TrackAssumption DEF TrackTypes, Track, PatchSent
<1>1. CASE \E o \in Parcels : OpenTrack(o)
  <2>1. PICK o \in Parcels : OpenTrack(o)
    BY <1>1
  <2>2. tracks' \in Seq(Track) /\ Len(tracks') <= MaxFlight /\ trackError' \in BOOLEAN
    BY <2>1, FetchTyped DEF OpenTrack
  <2>3. share' \in BOOLEAN
    BY <2>1, <1>0 DEF OpenTrack
  <2> QED
    BY <2>1, <2>2, <2>3, <1>0 DEF OpenTrack, StartPolling, TrackTypes, Track, PatchSent
<1>2. CASE \E o \in Parcels : PollTick(o)
  <2>1. PICK o \in Parcels : PollTick(o)
    BY <1>2
  <2>2. tracks' \in Seq(Track) /\ Len(tracks') <= MaxFlight /\ trackError' \in BOOLEAN
    BY <2>1, FetchTyped DEF PollTick
  <2> QED
    BY <2>1, <2>2, <1>0 DEF PollTick, TrackTypes, Track, PatchSent
<1>3. ASSUME NEW i \in DOMAIN tracks, TrackServed(i)
      PROVE  TrackTypes'
  <2>0. tracks[i] \in Track
    BY <1>0
  <2>1. tracks[i] \in Track /\ tracks[i].order \in Parcels
    BY <2>0 DEF Track
  <2>2. trip[Trip[tracks[i].order]].sharing \in BOOLEAN
    BY <2>1, TripsTyped DEF TripData
  <2>3. tracks' \in Seq(Track) /\ Len(tracks') = Len(tracks)
    <3> DEFINE v == trip[Trip[tracks[i].order]].sharing
    <3>1. [tracks[i] EXCEPT !.served = TRUE, !.sharing = v] \in Track
      BY <2>1, <2>2 DEF Track
    <3>2. tracks' = [tracks EXCEPT ![i] = [tracks[i] EXCEPT !.served = TRUE, !.sharing = v]]
      BY <1>3 DEF TrackServed
    <3> HIDE DEF v
    <3> QED  BY <3>1, <3>2, <1>0
  <2> QED
    BY <2>3, <1>3, <1>0 DEF TrackServed, TrackTypes, Track, PatchSent
<1>4. ASSUME NEW i \in DOMAIN tracks, TrackAnswered(i)
      PROVE  TrackTypes'
  <2>0. tracks[i] \in Track
    BY <1>0
  <2>1. tracks[i] \in Track /\ tracks[i].order \in Parcels /\ tracks[i].sharing \in BOOLEAN
    BY <2>0 DEF Track
  <2>2. snapshot' \in [order: Parcels \union {Nowhere}, sharing: BOOLEAN]
    BY <2>1, <1>4 DEF TrackAnswered
  <2>3. tracks' \in Seq(Track) /\ Len(tracks') <= MaxFlight
    BY <1>4, <1>0, TracksLeft DEF TrackAnswered
  <2>4. share' \in BOOLEAN
    BY <1>4 DEF TrackAnswered
  <2> QED
    BY <2>2, <2>3, <2>4, <1>4, <1>0 DEF TrackAnswered, TrackTypes, Track, PatchSent
<1>5. ASSUME NEW i \in DOMAIN tracks, TrackFailed(i)
      PROVE  TrackTypes'
  <2>1. tracks' \in Seq(Track) /\ Len(tracks') <= MaxFlight
    BY <1>5, <1>0, TracksLeft DEF TrackFailed
  <2> QED
    BY <2>1, <1>5, <1>0 DEF TrackFailed, TrackTypes, Track, PatchSent
<1>6. ASSUME NEW on \in BOOLEAN, ToggleShare(on)
      PROVE  TrackTypes'
  <2>1. Patch(on, 0) \in PatchSent
    BY <1>6, <1>0, PanelOnPage, PatchTyped DEF ToggleShare
  <2>2. patches' \in Seq(PatchSent) /\ Len(patches') <= MaxFlight
    BY <1>6, <2>1, PatchAdded DEF ToggleShare
  <2> QED
    BY <2>2, <1>6, <1>0 DEF ToggleShare, TrackTypes, Track, PatchSent
<1>7. CASE SendLocation
  <2>0. fixes + 1 \in 0..MaxFix /\ fixes' \in 0..MaxFix
    BY <1>7, <1>0 DEF SendLocation
  <2>1. Patch(TRUE, fixes + 1) \in PatchSent /\ fixes' \in 0..MaxFix
    BY <1>7, <2>0, PanelOnPage, PatchTyped DEF SendLocation, Watching
  <2>2. patches' \in Seq(PatchSent) /\ Len(patches') <= MaxFlight
    BY <1>7, <2>1, PatchAdded DEF SendLocation
  <2> QED
    BY <2>1, <2>2, <1>7, <1>0 DEF SendLocation, TrackTypes, Track, PatchSent
<1>8. ASSUME NEW i \in DOMAIN patches, TelemetryRead(i)
      PROVE  TrackTypes'
  <2>0. patches[i] \in PatchSent
    BY <1>0
  <2>1. patches[i] \in PatchSent /\ trip[patches[i].trip] \in TripData
    BY <1>0, <2>0 DEF PatchSent
  <2>2. patches' \in Seq(PatchSent) /\ Len(patches') = Len(patches)
    <3> DEFINE v == trip[patches[i].trip]
    <3>1. [patches[i] EXCEPT !.pc = "read", !.read = v] \in PatchSent
      BY <2>1 DEF PatchSent
    <3>2. patches' = [patches EXCEPT ![i] = [patches[i] EXCEPT !.pc = "read", !.read = v]]
      BY <1>8 DEF TelemetryRead
    <3> HIDE DEF v
    <3> QED  BY <3>1, <3>2, <1>0
  <2> QED
    BY <2>2, <1>8, <1>0 DEF TelemetryRead, TrackTypes, Track, PatchSent
<1>9. ASSUME NEW i \in DOMAIN patches, TelemetryWrite(i)
      PROVE  TrackTypes'
  <2> DEFINE p == patches[i]
             w == [sharing |-> p.sharing, fix |-> IF p.fix = 0 THEN p.read.fix ELSE p.fix]
  <2>1. p \in PatchSent
    BY <1>0
  <2>2. w \in TripData
    BY <2>1 DEF PatchSent, TripData
  <2>3. trip' = [trip EXCEPT ![p.trip] = w] /\ p.trip \in Trips
    BY <1>9, <2>1 DEF TelemetryWrite, PatchSent
  <2>4. [p EXCEPT !.pc = "done"] \in PatchSent
    BY <2>1 DEF PatchSent
  <2>5. patches' = [patches EXCEPT ![i] = [p EXCEPT !.pc = "done"]]
    BY <1>9 DEF TelemetryWrite
  <2> HIDE DEF w
  <2>6. trip' \in [Trips -> TripData]
    BY <2>2, <2>3, <1>0
  <2> HIDE DEF p
  <2>7. patches' \in Seq(PatchSent) /\ Len(patches') = Len(patches)
    BY <2>4, <2>5, <1>0
  <2> QED
    BY <2>6, <2>7, <1>9, <1>0 DEF TelemetryWrite, TrackTypes, Track, PatchSent
<1>10. ASSUME NEW i \in DOMAIN patches, PatchAnswered(i)
       PROVE  TrackTypes'
  <2>0. patches[i] \in PatchSent
    BY <1>0
  <2>1. patches[i].order \in Parcels
    BY <2>0 DEF PatchSent
  <2>2. tracks' \in Seq(Track) /\ Len(tracks') <= MaxFlight /\ trackError' \in BOOLEAN
    BY <1>10, <2>1, <1>0, FetchTyped DEF PatchAnswered
  <2>3. patches' \in Seq(PatchSent) /\ Len(patches') <= MaxFlight
    BY <1>10, <1>0, PatchesLeft DEF PatchAnswered
  <2> QED
    BY <2>2, <2>3, <1>10, <1>0 DEF PatchAnswered, TrackTypes, Track, PatchSent
<1>11. CASE LeaveTrack
  BY <1>11, <1>0 DEF LeaveTrack, StopPolling, TrackTypes, Track, PatchSent
<1>12. CASE UNCHANGED trackVars
  BY <1>12 DEF trackVars, TrackTypes
<1> QED
  BY <1>1, <1>2, <1>3, <1>4, <1>5, <1>6, <1>7, <1>8, <1>9, <1>10, <1>11, <1>12 DEF TrackNext

\* While the customer waits and the answers come in order, everything under way
\* is of the order on the page, nothing is while no page is open, requests are
\* served in the order they were sent, and once none is under way the snapshot is
\* of that order.
CalmInv ==
    /\ timers \subseteq {at} /\ poll = at
    /\ ~trackError
    /\ at = Nowhere => tracks = <<>> /\ patches = <<>>
    /\ \A i \in DOMAIN tracks : tracks[i].order = at
    /\ \A i \in DOMAIN patches : patches[i].order = at
    /\ \A j \in DOMAIN tracks : \A i \in 1..j : tracks[j].served => tracks[i].served
    /\ at # Nowhere /\ tracks = <<>> => snapshot.order = at

\* What the page will have been told last is what the server has by now: a patch
\* that was written still brings a request, a request is still to be served, or
\* the last answer, under way or shown, is up to date.
FreshInv ==
    at # Nowhere =>
        \/ \E i \in DOMAIN patches : patches[i].pc = "done"
        \/ \E i \in DOMAIN tracks : ~tracks[i].served
        \/ tracks # <<>> /\ tracks[Len(tracks)].sharing = trip[Trip[at]].sharing
        \/ tracks = <<>> /\ snapshot.sharing = trip[Trip[at]].sharing

\* After sharing was switched off it only ever goes off: from what is shown over
\* the answers under way, in their order, to what the server has, none is sharing
\* where an earlier one was not, and no patch says so.
OffInv ==
    choice = "off" =>
        /\ at # Nowhere /\ ~share
        /\ \A i \in DOMAIN patches : ~patches[i].sharing
        /\ \A i \in DOMAIN tracks : tracks[i].served /\ tracks[i].sharing
              => snapshot.sharing /\ \A j \in 1..i : tracks[j].sharing
        /\ trip[Trip[at]].sharing
              => snapshot.sharing /\ \A i \in DOMAIN tracks : tracks[i].served => tracks[i].sharing

OffStays == trackMode.calm => CalmInv /\ FreshInv /\ OffInv

\* Before anything is opened nothing is under way and nothing was chosen.
LEMMA CalmInit == TrackInit => OffStays
<1> SUFFICES ASSUME TrackInit PROVE OffStays
  OBVIOUS
<1>1. DOMAIN tracks = {} /\ DOMAIN patches = {} /\ at = Nowhere /\ choice = "none"
  BY DEF TrackInit
<1> QED
  BY <1>1 DEF TrackInit, OffStays, CalmInv, FreshInv, OffInv

\* A request was sent: the earlier ones stay, and it is not served yet.
LEMMA CalmFetch ==
    TrackTypes /\ (\A i \in DOMAIN tracks : tracks[i].order = at')
        /\ (\A j \in DOMAIN tracks : \A i \in 1..j : tracks[j].served => tracks[i].served)
        /\ at' \in Parcels /\ FetchTrack(at')
    => /\ ~trackError' /\ tracks' # <<>>
       /\ \A i \in DOMAIN tracks' : tracks'[i].order = at'
       /\ \A j \in DOMAIN tracks' : \A i \in 1..j : tracks'[j].served => tracks'[i].served
       /\ Len(tracks') \in DOMAIN tracks' /\ ~tracks'[Len(tracks')].served
<1> SUFFICES ASSUME TrackTypes, at' \in Parcels, FetchTrack(at'),
                    \A i \in DOMAIN tracks : tracks[i].order = at',
                    \A j \in DOMAIN tracks : \A i \in 1..j : tracks[j].served => tracks[i].served
             PROVE  /\ ~trackError' /\ tracks' # <<>>
                    /\ \A i \in DOMAIN tracks' : tracks'[i].order = at'
                    /\ \A j \in DOMAIN tracks' : \A i \in 1..j :
                          tracks'[j].served => tracks'[i].served
                    /\ Len(tracks') \in DOMAIN tracks' /\ ~tracks'[Len(tracks')].served
  OBVIOUS
<1> DEFINE n == Len(tracks)
<1>1. /\ tracks \in Seq(Track) /\ tracks' \in Seq(Track) /\ Len(tracks') = n + 1
      /\ \A i \in DOMAIN tracks : tracks'[i] = tracks[i]
      /\ tracks'[n + 1] = [order |-> at', served |-> FALSE, sharing |-> FALSE]
      /\ trackError' = FALSE
  BY FetchTyped DEF TrackTypes, Track
<1>2. DOMAIN tracks = 1..n /\ DOMAIN tracks' = 1..(n + 1) /\ n \in Nat
  BY <1>1
<1>3. tracks'[n + 1].order = at' /\ ~tracks'[n + 1].served
  BY <1>1
<1> HIDE DEF n
<1>4. \A i \in 1..(n + 1) : i \in 1..n \/ i = n + 1
  BY <1>2
<1>5. \A i \in 1..n : tracks'[i].order = at'
  BY <1>1, <1>2
<1>6. \A i \in DOMAIN tracks' : tracks'[i].order = at'
  BY <1>2, <1>3, <1>4, <1>5
<1>7. \A j \in 1..n : \A i \in 1..j : tracks'[j].served => tracks'[i].served
  <2>1. \A j \in 1..n : \A i \in 1..j : i \in 1..n
    BY <1>2
  <2> QED  BY <2>1, <1>1, <1>2
<1>8. \A j \in DOMAIN tracks' : \A i \in 1..j : tracks'[j].served => tracks'[i].served
  BY <1>2, <1>3, <1>4, <1>7
<1>9. n + 1 \in DOMAIN tracks' /\ tracks' # <<>>
  BY <1>1, <1>2
<1> QED
  BY <1>1, <1>3, <1>6, <1>8, <1>9

\* The types of what is under way, in the form the steps use them.
LEMMA UnderWay ==
    TrackTypes =>
        /\ tracks \in Seq(Track) /\ patches \in Seq(PatchSent)
        /\ \A i \in DOMAIN tracks : tracks[i] \in Track
        /\ \A i \in DOMAIN patches : patches[i] \in PatchSent
        /\ DOMAIN tracks = 1..Len(tracks) /\ DOMAIN patches = 1..Len(patches)
        /\ Len(tracks) \in Nat /\ Len(patches) \in Nat
<1> SUFFICES ASSUME TrackTypes
             PROVE  /\ tracks \in Seq(Track) /\ patches \in Seq(PatchSent)
                    /\ \A i \in DOMAIN tracks : tracks[i] \in Track
                    /\ \A i \in DOMAIN patches : patches[i] \in PatchSent
                    /\ DOMAIN tracks = 1..Len(tracks) /\ DOMAIN patches = 1..Len(patches)
                    /\ Len(tracks) \in Nat /\ Len(patches) \in Nat
  OBVIOUS
<1>1. tracks \in Seq(Track) /\ patches \in Seq(PatchSent)
  BY DEF TrackTypes, Track, PatchSent
<1> QED
  BY <1>1

\* A request that is served carries what the server has, and the others stay.
LEMMA ServedEffect ==
    TrackTypes => \A k \in DOMAIN tracks : TrackServed(k) =>
        /\ DOMAIN tracks' = DOMAIN tracks /\ Len(tracks') = Len(tracks) /\ tracks' # <<>>
        /\ \A i \in DOMAIN tracks : i # k => tracks'[i] = tracks[i]
        /\ tracks'[k].order = tracks[k].order /\ tracks'[k].served
        /\ tracks'[k].sharing = trip[Trip[tracks[k].order]].sharing
<1> SUFFICES ASSUME TrackTypes, NEW k \in DOMAIN tracks, TrackServed(k)
             PROVE  /\ DOMAIN tracks' = DOMAIN tracks /\ Len(tracks') = Len(tracks)
                    /\ tracks' # <<>>
                    /\ \A i \in DOMAIN tracks : i # k => tracks'[i] = tracks[i]
                    /\ tracks'[k].order = tracks[k].order /\ tracks'[k].served
                    /\ tracks'[k].sharing = trip[Trip[tracks[k].order]].sharing
  OBVIOUS
<1> DEFINE v == trip[Trip[tracks[k].order]].sharing
           u == [tracks[k] EXCEPT !.served = TRUE, !.sharing = v]
<1>0. tracks \in Seq(Track) /\ tracks[k] \in Track
  BY UnderWay
<1>1. v \in BOOLEAN
  <2>1. tracks[k].order \in Parcels
    BY <1>0 DEF Track
  <2> QED  BY <2>1, TripsTyped DEF TripData
<1>2. tracks' = [tracks EXCEPT ![k] = u]
  BY DEF TrackServed
<1> HIDE DEF v
<1>3. u \in Track /\ u.order = tracks[k].order /\ u.served /\ u.sharing = v
  BY <1>0, <1>1 DEF Track
<1> HIDE DEF u
<1>4. /\ DOMAIN tracks' = DOMAIN tracks /\ Len(tracks') = Len(tracks) /\ tracks' # <<>>
      /\ \A i \in DOMAIN tracks : i # k => tracks'[i] = tracks[i]
      /\ tracks'[k] = u
  BY <1>0, <1>2, <1>3
<1> QED
  BY <1>3, <1>4 DEF v

\* The handler of a patch reads and writes; the patch stays what was sent.
LEMMA PatchEffect ==
    TrackTypes => \A k \in DOMAIN patches : TelemetryRead(k) \/ TelemetryWrite(k) =>
        /\ DOMAIN patches' = DOMAIN patches /\ patches' # <<>>
        /\ \A i \in DOMAIN patches : i # k => patches'[i] = patches[i]
        /\ patches'[k].order = patches[k].order /\ patches'[k].sharing = patches[k].sharing
        /\ TelemetryRead(k) => patches[k].pc = "sent"
        /\ TelemetryWrite(k) => patches'[k].pc = "done"
<1> SUFFICES ASSUME TrackTypes, NEW k \in DOMAIN patches, TelemetryRead(k) \/ TelemetryWrite(k)
             PROVE  /\ DOMAIN patches' = DOMAIN patches /\ patches' # <<>>
                    /\ \A i \in DOMAIN patches : i # k => patches'[i] = patches[i]
                    /\ patches'[k].order = patches[k].order
                    /\ patches'[k].sharing = patches[k].sharing
                    /\ TelemetryRead(k) => patches[k].pc = "sent"
                    /\ TelemetryWrite(k) => patches'[k].pc = "done"
  OBVIOUS
<1> DEFINE u == [patches[k] EXCEPT !.pc = "read", !.read = trip[patches[k].trip]]
           w == [patches[k] EXCEPT !.pc = "done"]
<1>0. patches \in Seq(PatchSent) /\ patches[k] \in PatchSent
  BY UnderWay
<1>1. /\ u.order = patches[k].order /\ u.sharing = patches[k].sharing
      /\ w.order = patches[k].order /\ w.sharing = patches[k].sharing /\ w.pc = "done"
  BY <1>0 DEF PatchSent
<1>2. CASE TelemetryRead(k)
  <2>1. patches' = [patches EXCEPT ![k] = u] /\ patches[k].pc = "sent"
    BY <1>2 DEF TelemetryRead
  <2>2. ~TelemetryWrite(k)
    BY <2>1 DEF TelemetryWrite
  <2> HIDE DEF u
  <2> QED  BY <1>0, <1>1, <2>1, <2>2
<1>3. CASE TelemetryWrite(k)
  <2>1. patches' = [patches EXCEPT ![k] = w] /\ patches[k].pc = "read"
    BY <1>3 DEF TelemetryWrite
  <2>2. ~TelemetryRead(k)
    BY <2>1 DEF TelemetryRead
  <2> HIDE DEF w
  <2> QED  BY <1>0, <1>1, <2>1, <2>2
<1> QED
  BY <1>2, <1>3

\* Every step of a calm page keeps the order of what is under way.
LEMMA CalmStep == TrackTypes /\ trackMode.calm /\ CalmInv /\ [TrackNext]_trackVars => CalmInv'
<1> SUFFICES ASSUME TrackTypes, trackMode.calm, CalmInv, [TrackNext]_trackVars PROVE CalmInv'
  OBVIOUS
<1>0. /\ at \in Parcels \union {Nowhere} /\ timers \subseteq Parcels
      /\ tracks \in Seq(Track) /\ patches \in Seq(PatchSent)
      /\ DOMAIN tracks = 1..Len(tracks) /\ DOMAIN patches = 1..Len(patches)
      /\ Len(tracks) \in Nat /\ Len(patches) \in Nat
      /\ Nowhere \notin Parcels
  BY TrackAssumption, UnderWay DEF TrackTypes
<1>1. CASE \E o \in Parcels : OpenTrack(o)
  <2>1. PICK o \in Parcels : OpenTrack(o)
    BY <1>1
  <2>2. tracks = <<>> /\ patches = <<>> /\ at' = o /\ patches' = patches /\ FetchTrack(at')
    BY <2>1 DEF OpenTrack, MayAct
  <2>3. timers' \subseteq {at'} /\ poll' = at'
    BY <2>1 DEF OpenTrack, StartPolling, CalmInv
  <2>4. DOMAIN tracks = {} /\ DOMAIN patches = {}
    BY <2>2
  <2> QED
    BY <2>2, <2>3, <2>4, <1>0, CalmFetch DEF CalmInv
<1>2. CASE \E o \in Parcels : PollTick(o)
  <2>1. PICK o \in Parcels : PollTick(o)
    BY <1>2
  <2>2. o = at /\ at' = at /\ at # Nowhere /\ FetchTrack(at')
    BY <2>1, <1>0 DEF PollTick, CalmInv
  <2>3. UNCHANGED <<timers, poll, patches, snapshot>>
    BY <2>1 DEF PollTick
  <2> QED
    BY <2>2, <2>3, <1>0, CalmFetch DEF CalmInv
<1>3. ASSUME NEW k \in DOMAIN tracks, TrackServed(k)
      PROVE  CalmInv'
  <2>1. /\ DOMAIN tracks' = DOMAIN tracks /\ tracks' # <<>>
        /\ \A i \in DOMAIN tracks : /\ tracks'[i].order = tracks[i].order
                                    /\ i # k => tracks'[i].served = tracks[i].served
        /\ tracks'[k].served
    BY <1>3, ServedEffect
  <2>2. \A i \in 1..(k - 1) : tracks[i].served
    BY <1>3 DEF TrackServed
  <2>3. UNCHANGED <<at, timers, poll, trackError, patches, snapshot>>
    BY <1>3 DEF TrackServed
  <2>4. ASSUME NEW j \in DOMAIN tracks, NEW i \in 1..j, tracks'[j].served
        PROVE  tracks'[i].served
    <3>1. i \in DOMAIN tracks /\ j \in 1..Len(tracks) /\ k \in 1..Len(tracks)
      BY <1>0
    <3>2. CASE i = k
      BY <3>2, <2>1
    <3>3. CASE j = k /\ i # k
      <4>1. i \in 1..(k - 1)
        BY <3>3, <3>1
      <4> QED  BY <4>1, <3>1, <3>3, <2>1, <2>2
    <3>4. CASE j # k /\ i # k
      BY <3>1, <3>4, <2>1, <2>4 DEF CalmInv
    <3> QED  BY <3>2, <3>3, <3>4
  <2> QED
    BY <2>1, <2>3, <2>4 DEF CalmInv
<1>4. ASSUME NEW k \in DOMAIN tracks, TrackAnswered(k)
      PROVE  CalmInv'
  <2>1. /\ k = 1 /\ snapshot'.order = tracks[1].order /\ tracks' = RemoveAt(tracks, 1)
        /\ UNCHANGED <<at, timers, poll, trackError, patches>>
    BY <1>4 DEF TrackAnswered
  <2>2. /\ tracks' \in Seq(Track) /\ Len(tracks') = Len(tracks) - 1
        /\ \A i \in 1..(Len(tracks) - 1) : tracks'[i] = tracks[i + 1]
    <3>1. /\ tracks' \in Seq(Track) /\ Len(tracks') = Len(tracks) - 1
          /\ \A i \in 1..(Len(tracks) - 1) :
                tracks'[i] = IF i < 1 THEN tracks[i] ELSE tracks[i + 1]
      BY <2>1, TracksLeft
    <3> QED  BY <3>1, <1>0
  <2>3. DOMAIN tracks' = 1..(Len(tracks) - 1) /\ Len(tracks) \in Nat
    BY <2>2, <1>0
  <2>4. at # Nowhere
    BY <1>4, <1>0 DEF CalmInv
  <2>5. \A i \in 1..(Len(tracks) - 1) : i + 1 \in DOMAIN tracks
    BY <1>0, <2>3
  <2>6. \A j \in DOMAIN tracks' : \A i \in 1..j : tracks'[j].served => tracks'[i].served
    <3>1. \A j \in 1..(Len(tracks) - 1) : \A i \in 1..j :
             i \in 1..(Len(tracks) - 1) /\ i + 1 \in 1..(j + 1)
      BY <2>3
    <3> QED
      BY <3>1, <2>2, <2>3, <2>5 DEF CalmInv
  <2>7. \A i \in DOMAIN tracks' : tracks'[i].order = at'
    BY <2>1, <2>2, <2>3, <2>5 DEF CalmInv
  <2> QED
    BY <2>1, <2>4, <2>6, <2>7 DEF CalmInv
<1>5. ASSUME NEW k \in DOMAIN tracks, TrackFailed(k)
      PROVE  CalmInv'
  BY <1>5 DEF TrackFailed
<1>6. \A p : Append(patches, p) # <<>> /\ DOMAIN Append(patches, p) = 1..(Len(patches) + 1)
             /\ (\A i \in DOMAIN patches : Append(patches, p)[i] = patches[i])
             /\ Append(patches, p)[Len(patches) + 1] = p
  BY <1>0
<1>7. \A i \in 1..(Len(patches) + 1) : i \in DOMAIN patches \/ i = Len(patches) + 1
  BY <1>0
<1>8. ASSUME NEW on \in BOOLEAN, NEW f,
             patches' = Append(patches, Patch(on, f)), PanelShown,
             UNCHANGED <<at, timers, poll, tracks, snapshot, trackError>>
      PROVE  CalmInv'
  <2>1. Patch(on, f).order = at /\ at # Nowhere
    BY <1>8 DEF Patch, PanelShown
  <2>2. \A i \in DOMAIN patches' : patches'[i].order = at
    BY <2>1, <1>6, <1>7, <1>8 DEF CalmInv
  <2> QED
    BY <2>1, <2>2, <1>8 DEF CalmInv
<1>9. CASE (\E on \in BOOLEAN : ToggleShare(on)) \/ SendLocation
  <2>1. CASE \E on \in BOOLEAN : ToggleShare(on)
    BY <2>1, <1>8 DEF ToggleShare
  <2>2. CASE SendLocation
    BY <2>2, <1>8 DEF SendLocation, Watching
  <2> QED  BY <1>9, <2>1, <2>2
<1>10. ASSUME NEW k \in DOMAIN patches, TelemetryRead(k) \/ TelemetryWrite(k)
       PROVE  CalmInv'
  <2>1. DOMAIN patches' = DOMAIN patches /\ \A i \in DOMAIN patches : patches'[i].order = patches[i].order
    BY <1>10, PatchEffect
  <2>2. patches # <<>> /\ UNCHANGED <<at, timers, poll, tracks, snapshot, trackError>>
    BY <1>10 DEF TelemetryRead, TelemetryWrite
  <2> QED
    BY <2>1, <2>2 DEF CalmInv
<1>11. ASSUME NEW k \in DOMAIN patches, PatchAnswered(k)
       PROVE  CalmInv'
  <2>1. patches[k].order = at /\ at # Nowhere
    BY <1>11, <1>0 DEF CalmInv
  <2>2. /\ FetchTrack(at') /\ at' = at /\ patches' = RemoveAt(patches, k)
        /\ UNCHANGED <<timers, poll, snapshot>>
    BY <1>11, <2>1 DEF PatchAnswered
  <2>3. \A i \in DOMAIN patches' : \E j \in DOMAIN patches : patches'[i] = patches[j]
    <3>1. /\ patches' \in Seq(PatchSent) /\ Len(patches') = Len(patches) - 1
          /\ \A i \in 1..(Len(patches) - 1) :
                patches'[i] = IF i < k THEN patches[i] ELSE patches[i + 1]
      BY <2>2, PatchesLeft
    <3>2. DOMAIN patches' = 1..(Len(patches) - 1)
      BY <3>1, <1>0
    <3>3. \A i \in 1..(Len(patches) - 1) : i \in DOMAIN patches /\ i + 1 \in DOMAIN patches
      BY <1>0
    <3> QED  BY <3>1, <3>2, <3>3
  <2> QED
    BY <2>1, <2>2, <2>3, <1>0, CalmFetch DEF CalmInv
<1>12. CASE LeaveTrack
  <2>1. /\ tracks' = <<>> /\ patches' = <<>> /\ at' = Nowhere /\ poll' = Nowhere
        /\ timers' = {} /\ trackError' = trackError
    BY <1>12 DEF LeaveTrack, MayAct, StopPolling, CalmInv
  <2> QED  BY <2>1 DEF CalmInv
<1>13. CASE UNCHANGED trackVars
  BY <1>13 DEF trackVars, CalmInv
<1> QED
  BY <1>1, <1>2, <1>3, <1>4, <1>5, <1>9, <1>10, <1>11, <1>12, <1>13 DEF TrackNext

\* Requests that were appended, or are left when the first is answered.
LEMMA TracksAnswered ==
    TrackTypes /\ trackMode.calm => \A k \in DOMAIN tracks : TrackAnswered(k) =>
        /\ k = 1 /\ tracks[1].served /\ snapshot'.sharing = tracks[1].sharing
        /\ Len(tracks') = Len(tracks) - 1 /\ DOMAIN tracks' = 1..(Len(tracks) - 1)
        /\ \A i \in 1..(Len(tracks) - 1) : tracks'[i] = tracks[i + 1] /\ i + 1 \in DOMAIN tracks
<1> SUFFICES ASSUME TrackTypes, trackMode.calm, NEW k \in DOMAIN tracks, TrackAnswered(k)
             PROVE  /\ k = 1 /\ tracks[1].served /\ snapshot'.sharing = tracks[1].sharing
                    /\ Len(tracks') = Len(tracks) - 1 /\ DOMAIN tracks' = 1..(Len(tracks) - 1)
                    /\ \A i \in 1..(Len(tracks) - 1) :
                          tracks'[i] = tracks[i + 1] /\ i + 1 \in DOMAIN tracks
  OBVIOUS
<1>1. /\ k = 1 /\ tracks[1].served /\ snapshot'.sharing = tracks[1].sharing
      /\ tracks' = RemoveAt(tracks, 1)
  BY DEF TrackAnswered
<1>2. /\ tracks' \in Seq(Track) /\ Len(tracks') = Len(tracks) - 1
      /\ \A i \in 1..(Len(tracks) - 1) :
            tracks'[i] = IF i < 1 THEN tracks[i] ELSE tracks[i + 1]
  BY <1>1, TracksLeft
<1>3. DOMAIN tracks' = 1..(Len(tracks) - 1)
  BY <1>2, UnderWay
<1>4. \A i \in 1..(Len(tracks) - 1) : ~(i < 1) /\ i + 1 \in DOMAIN tracks
  BY UnderWay
<1> QED
  BY <1>1, <1>2, <1>3, <1>4

\* Every step leaves something that will tell the page what the server has, or nothing to tell.
LEMMA FreshStep ==
    TrackTypes /\ trackMode.calm /\ CalmInv /\ FreshInv /\ [TrackNext]_trackVars => FreshInv'
<1> SUFFICES ASSUME TrackTypes, trackMode.calm, CalmInv, FreshInv, [TrackNext]_trackVars,
                    at' # Nowhere
             PROVE  FreshInv'
  BY DEF FreshInv
<1>0. /\ tracks \in Seq(Track) /\ patches \in Seq(PatchSent)
      /\ DOMAIN tracks = 1..Len(tracks) /\ DOMAIN patches = 1..Len(patches)
      /\ Len(tracks) \in Nat /\ Len(patches) \in Nat
      /\ at' \in Parcels
  BY UnderWay, TrackTypesStep DEF TrackTypes
<1>a. ASSUME at' = at \/ tracks = <<>>, FetchTrack(at') PROVE FreshInv'
  <2>1. \A i \in DOMAIN tracks : tracks[i].order = at'
    BY <1>a DEF CalmInv
  <2>2. \A j \in DOMAIN tracks : \A i \in 1..j : tracks[j].served => tracks[i].served
    BY DEF CalmInv
  <2>3. Len(tracks') \in DOMAIN tracks' /\ ~tracks'[Len(tracks')].served
    BY <2>1, <2>2, <1>0, <1>a, CalmFetch
  <2> QED  BY <2>3 DEF FreshInv
<1>1. CASE \E o \in Parcels : OpenTrack(o)
  BY <1>1, <1>a DEF OpenTrack, MayAct
<1>2. CASE \E o \in Parcels : PollTick(o)
  <2>1. at' = at /\ FetchTrack(at')
    BY <1>2 DEF PollTick, CalmInv
  <2> QED  BY <2>1, <1>a
<1>3. ASSUME NEW k \in DOMAIN tracks, TrackServed(k)
      PROVE  FreshInv'
  <2>1. UNCHANGED <<at, patches, trip>> /\ ~tracks[k].served
    BY <1>3 DEF TrackServed
  <2>2. /\ DOMAIN tracks' = DOMAIN tracks /\ Len(tracks') = Len(tracks) /\ tracks' # <<>>
        /\ \A i \in DOMAIN tracks : i # k => tracks'[i] = tracks[i]
        /\ tracks'[k].sharing = trip[Trip[tracks[k].order]].sharing
    BY <1>3, ServedEffect
  <2>3. CASE k = Len(tracks)
    <3>1. tracks[k].order = at
      BY DEF CalmInv
    <3> QED  BY <2>1, <2>2, <2>3, <3>1 DEF FreshInv
  <2>4. CASE k # Len(tracks)
    <3>1. k \in 1..Len(tracks) /\ Len(tracks) \in DOMAIN tracks
      BY <1>0
    <3>2. ~tracks[Len(tracks)].served
      BY <2>1, <3>1 DEF CalmInv
    <3>3. tracks'[Len(tracks)] = tracks[Len(tracks)]
      BY <2>2, <2>4, <3>1
    <3> QED  BY <2>2, <3>1, <3>2, <3>3 DEF FreshInv
  <2> QED  BY <2>3, <2>4
<1>4. ASSUME NEW k \in DOMAIN tracks, TrackAnswered(k)
      PROVE  FreshInv'
  <2> DEFINE n == Len(tracks)
  <2>1. /\ k = 1 /\ tracks[1].served /\ snapshot'.sharing = tracks[1].sharing
        /\ Len(tracks') = n - 1 /\ DOMAIN tracks' = 1..(n - 1)
        /\ \A i \in 1..(n - 1) : tracks'[i] = tracks[i + 1]
    BY <1>4, TracksAnswered
  <2>2. UNCHANGED <<at, patches, trip>>
    BY <1>4 DEF TrackAnswered
  <2>3. n \in Nat /\ n >= 1
    BY <1>0
  <2>4. tracks # <<>>
    BY <2>3
  <2>5. CASE \E i \in DOMAIN patches : patches[i].pc = "done"
    BY <2>2, <2>5 DEF FreshInv
  <2>6. CASE \E i \in DOMAIN tracks : ~tracks[i].served
    <3>1. PICK i \in DOMAIN tracks : ~tracks[i].served
      BY <2>6
    <3>2. i - 1 \in 1..(n - 1) /\ (i - 1) + 1 = i
      BY <3>1, <2>1, <2>3, <1>0
    <3>3. tracks'[i - 1] = tracks[i] /\ i - 1 \in DOMAIN tracks'
      BY <2>1, <3>2
    <3> QED  BY <3>1, <3>3 DEF FreshInv
  <2>7. CASE tracks[n].sharing = trip[Trip[at]].sharing
    <3>1. CASE n = 1
      <4>1. tracks' = <<>>
        <5>1. tracks' \in Seq(Track)
          BY <1>4, TracksLeft DEF TrackAnswered
        <5> QED  BY <5>1, <2>1, <3>1, EmptySeq
      <4> QED  BY <4>1, <3>1, <2>1, <2>2, <2>7 DEF FreshInv
    <3>2. CASE n # 1
      <4>1. n - 1 \in 1..(n - 1) /\ (n - 1) + 1 = n
        BY <2>3, <3>2
      <4>2. tracks'[n - 1] = tracks[n] /\ tracks' # <<>>
        BY <2>1, <4>1
      <4> QED  BY <4>2, <2>1, <2>2, <2>7 DEF FreshInv
    <3> QED  BY <3>1, <3>2
  <2> QED
    BY <2>2, <2>4, <2>5, <2>6, <2>7 DEF FreshInv
<1>5. ASSUME NEW k \in DOMAIN tracks, TrackFailed(k)
      PROVE  FreshInv'
  BY <1>5 DEF TrackFailed
<1>6. ASSUME NEW p, patches' = Append(patches, p), UNCHANGED <<at, tracks, snapshot, trip>>
      PROVE  FreshInv'
  <2>1. \A i \in DOMAIN patches : i \in DOMAIN patches' /\ patches'[i] = patches[i]
    BY <1>0, <1>6
  <2> QED  BY <1>6, <2>1 DEF FreshInv
<1>7. CASE (\E on \in BOOLEAN : ToggleShare(on)) \/ SendLocation
  BY <1>6, <1>7 DEF ToggleShare, SendLocation
<1>8. ASSUME NEW k \in DOMAIN patches, TelemetryRead(k)
      PROVE  FreshInv'
  <2>1. UNCHANGED <<at, tracks, snapshot, trip>>
    BY <1>8 DEF TelemetryRead
  <2>2. /\ DOMAIN patches' = DOMAIN patches /\ patches[k].pc = "sent"
        /\ \A i \in DOMAIN patches : i # k => patches'[i] = patches[i]
    BY <1>8, PatchEffect
  <2> QED  BY <2>1, <2>2 DEF FreshInv
<1>9. ASSUME NEW k \in DOMAIN patches, TelemetryWrite(k)
      PROVE  FreshInv'
  <2>1. DOMAIN patches' = DOMAIN patches /\ patches'[k].pc = "done"
    BY <1>9, PatchEffect
  <2> QED  BY <2>1 DEF FreshInv
<1>10. ASSUME NEW k \in DOMAIN patches, PatchAnswered(k)
       PROVE  FreshInv'
  <2>1. patches[k].order = at
    BY DEF CalmInv
  <2>2. FetchTrack(at') /\ at' = at
    BY <1>10, <2>1 DEF PatchAnswered
  <2> QED  BY <2>2, <1>a
<1>11. CASE LeaveTrack
  BY <1>11 DEF LeaveTrack
<1>12. CASE UNCHANGED trackVars
  BY <1>12 DEF trackVars, FreshInv
<1> QED
  BY <1>1, <1>2, <1>3, <1>4, <1>5, <1>7, <1>8, <1>9, <1>10, <1>11, <1>12 DEF TrackNext

\* Once sharing is off, no step of a calm page makes anything say it is on.
LEMMA OffStep ==
    TrackTypes /\ trackMode.calm /\ CalmInv /\ FreshInv /\ OffInv /\ [TrackNext]_trackVars => OffInv'
<1> SUFFICES ASSUME TrackTypes, trackMode.calm, CalmInv, FreshInv, OffInv, [TrackNext]_trackVars,
                    choice' = "off"
             PROVE  OffInv'
  BY DEF OffInv
<1>0. /\ tracks \in Seq(Track) /\ patches \in Seq(PatchSent)
      /\ DOMAIN tracks = 1..Len(tracks) /\ DOMAIN patches = 1..Len(patches)
      /\ Len(tracks) \in Nat /\ Len(patches) \in Nat
  BY UnderWay
<1>a. ASSUME choice = "off", at' = at, share' = share, snapshot' = snapshot, trip' = trip,
             FetchTrack(at'), \A i \in DOMAIN patches' : ~patches'[i].sharing
      PROVE  OffInv'
  <2>1. at' \in Parcels
    BY <1>a DEF OffInv, TrackTypes
  <2>2. /\ Len(tracks') = Len(tracks) + 1 /\ tracks' \in Seq(Track)
        /\ \A i \in DOMAIN tracks : tracks'[i] = tracks[i]
        /\ tracks'[Len(tracks')] = [order |-> at', served |-> FALSE, sharing |-> FALSE]
    BY <1>a, <2>1, FetchTyped
  <2>3. /\ DOMAIN tracks' = 1..(Len(tracks) + 1) /\ ~tracks'[Len(tracks) + 1].served
        /\ \A i \in 1..(Len(tracks) + 1) : i \in 1..Len(tracks) \/ i = Len(tracks) + 1
    BY <2>2, <1>0
  <2>4. \A i \in DOMAIN tracks' : tracks'[i].served => i \in DOMAIN tracks /\ tracks'[i] = tracks[i]
    BY <2>2, <2>3, <1>0
  <2>5. \A i \in DOMAIN tracks : \A j \in 1..i : tracks'[j] = tracks[j]
    BY <2>2, <1>0
  <2> QED
    BY <1>a, <2>4, <2>5 DEF OffInv
<1>1. CASE (\E o \in Parcels : OpenTrack(o)) \/ LeaveTrack
  BY <1>1 DEF OpenTrack, LeaveTrack
<1>2. CASE \E o \in Parcels : PollTick(o)
  <2>1. /\ at' = at /\ FetchTrack(at') /\ choice = "off"
        /\ UNCHANGED <<share, snapshot, trip, patches>>
    BY <1>2 DEF PollTick, CalmInv
  <2>2. \A i \in DOMAIN patches' : ~patches'[i].sharing
    BY <2>1 DEF OffInv
  <2> QED  BY <2>1, <2>2, <1>a
<1>3. ASSUME NEW k \in DOMAIN tracks, TrackServed(k)
      PROVE  OffInv'
  <2>1. UNCHANGED <<at, share, choice, snapshot, patches, trip>> /\ ~tracks[k].served
    BY <1>3 DEF TrackServed
  <2>2. /\ DOMAIN tracks' = DOMAIN tracks
        /\ \A i \in DOMAIN tracks : i # k => tracks'[i] = tracks[i]
        /\ tracks'[k].sharing = trip[Trip[at]].sharing
    <3>1. tracks[k].order = at
      BY DEF CalmInv
    <3> QED  BY <1>3, <3>1, ServedEffect
  <2>3. \A i \in 1..(k - 1) : tracks[i].served
    BY <1>3 DEF TrackServed
  <2>4. \A i \in DOMAIN tracks : \A j \in 1..i : j \in DOMAIN tracks
    BY <1>0
  <2>5. \A i \in DOMAIN tracks : i # k /\ tracks[i].served => \A j \in 1..i : j # k
    BY <2>1, <2>4 DEF CalmInv
  <2>6. ASSUME tracks'[k].sharing
        PROVE  snapshot'.sharing /\ \A j \in 1..k : tracks'[j].sharing
    <3>1. snapshot.sharing /\ \A i \in DOMAIN tracks : tracks[i].served => tracks[i].sharing
      BY <2>1, <2>2, <2>6 DEF OffInv
    <3>2. \A j \in 1..k : j = k \/ j \in 1..(k - 1)
      BY <1>0
    <3> QED  BY <3>1, <3>2, <2>1, <2>2, <2>3, <2>4, <2>6
  <2>7. ASSUME NEW i \in DOMAIN tracks, tracks'[i].served, tracks'[i].sharing
        PROVE  snapshot'.sharing /\ \A j \in 1..i : tracks'[j].sharing
    <3>1. CASE i = k
      BY <2>6, <2>7, <3>1
    <3>2. CASE i # k
      <4>1. tracks[i].served /\ tracks[i].sharing
        BY <2>2, <2>7, <3>2
      <4>2. snapshot.sharing /\ \A j \in 1..i : tracks[j].sharing
        BY <2>1, <4>1 DEF OffInv
      <4> QED  BY <4>1, <4>2, <2>1, <2>2, <2>4, <2>5, <3>2
    <3> QED  BY <3>1, <3>2
  <2>8. trip'[Trip[at']].sharing
           => snapshot'.sharing /\ \A i \in DOMAIN tracks' : tracks'[i].served => tracks'[i].sharing
    BY <2>1, <2>2 DEF OffInv
  <2> QED
    BY <2>1, <2>2, <2>7, <2>8 DEF OffInv
<1>4. ASSUME NEW k \in DOMAIN tracks, TrackAnswered(k)
      PROVE  OffInv'
  <2> DEFINE n == Len(tracks)
  <2>1. /\ k = 1 /\ tracks[1].served /\ snapshot'.sharing = tracks[1].sharing
        /\ DOMAIN tracks' = 1..(n - 1)
        /\ \A i \in 1..(n - 1) : tracks'[i] = tracks[i + 1] /\ i + 1 \in DOMAIN tracks
    BY <1>4, TracksAnswered
  <2>2. UNCHANGED <<at, choice, patches, trip>>
    BY <1>4 DEF TrackAnswered
  <2>3. tracks[1].sharing => snapshot.sharing
    BY <1>4, <2>1, <2>2 DEF OffInv
  <2>4. ~share'
    BY <1>4, <2>1, <2>2, <2>3 DEF TrackAnswered, OffInv
  <2>5. ASSUME NEW i \in 1..(n - 1), tracks'[i].served, tracks'[i].sharing
        PROVE  snapshot'.sharing /\ \A j \in 1..i : tracks'[j].sharing
    <3>1. \A j \in 1..(i + 1) : tracks[j].sharing
      BY <2>1, <2>2, <2>5 DEF OffInv
    <3>2. /\ 1 \in 1..(i + 1)
          /\ \A j \in 1..i : j + 1 \in 1..(i + 1) /\ j \in 1..(n - 1)
      BY <1>0
    <3> QED  BY <3>1, <3>2, <2>1
  <2>6. trip'[Trip[at']].sharing
           => snapshot'.sharing /\ \A i \in DOMAIN tracks' : tracks'[i].served => tracks'[i].sharing
    BY <1>4, <2>1, <2>2 DEF OffInv
  <2> QED
    BY <2>1, <2>2, <2>4, <2>5, <2>6 DEF OffInv
<1>5. ASSUME NEW k \in DOMAIN tracks, TrackFailed(k)
      PROVE  OffInv'
  BY <1>5 DEF TrackFailed
<1>6. ASSUME NEW on \in BOOLEAN, ToggleShare(on)
      PROVE  OffInv'
  <2>1. /\ on = FALSE /\ share' = FALSE /\ tracks = <<>> /\ patches = <<>> /\ PanelShown
        /\ patches' = Append(patches, Patch(FALSE, 0))
        /\ UNCHANGED <<at, tracks, snapshot, trip>>
    BY <1>6 DEF ToggleShare, MayAct
  <2>2. at # Nowhere
    BY <2>1 DEF PanelShown
  <2>3. DOMAIN tracks = {} /\ DOMAIN patches = {}
    BY <2>1
  <2>4. snapshot.sharing = trip[Trip[at]].sharing
    BY <2>1, <2>2, <2>3 DEF FreshInv
  <2>5. Patch(FALSE, 0).sharing = FALSE
    BY DEF Patch
  <2>6. \A i \in DOMAIN patches' : ~patches'[i].sharing
    <3> DEFINE p == Patch(FALSE, 0)
    <3>1. patches' = Append(<<>>, p)
      BY <2>1
    <3> HIDE DEF p
    <3>2. patches' = <<p>>
      BY <3>1
    <3>3. DOMAIN patches' = {1} /\ patches'[1] = p
      BY <3>2
    <3> QED  BY <2>5, <3>3 DEF p
  <2> QED
    BY <2>1, <2>2, <2>3, <2>4, <2>6 DEF OffInv
<1>7. CASE SendLocation
  BY <1>7 DEF SendLocation, Watching, OffInv
<1>8. ASSUME NEW k \in DOMAIN patches, TelemetryRead(k) \/ TelemetryWrite(k)
      PROVE  OffInv'
  <2>1. UNCHANGED <<at, share, choice, tracks, snapshot>>
    BY <1>8 DEF TelemetryRead, TelemetryWrite
  <2>2. \A i \in DOMAIN patches' : ~patches'[i].sharing
    BY <1>8, <2>1, PatchEffect DEF OffInv
  <2>3. trip'[Trip[at']].sharing => trip[Trip[at]].sharing
    <3>1. CASE TelemetryRead(k)
      BY <2>1, <3>1 DEF TelemetryRead
    <3>2. CASE TelemetryWrite(k)
      <4> DEFINE p == patches[k]
                 w == [sharing |-> p.sharing, fix |-> IF p.fix = 0 THEN p.read.fix ELSE p.fix]
      <4>1. trip' = [trip EXCEPT ![p.trip] = w]
        BY <3>2 DEF TelemetryWrite
      <4>2. ~w.sharing
        BY <2>1 DEF OffInv
      <4>3. Trip[at] \in DOMAIN trip
        BY <2>1, TripsTyped DEF OffInv, TrackTypes
      <4> HIDE DEF w, p
      <4> QED  BY <2>1, <4>1, <4>2, <4>3
    <3> QED  BY <1>8, <3>1, <3>2
  <2> QED
    BY <2>1, <2>2, <2>3 DEF OffInv
<1>9. ASSUME NEW k \in DOMAIN patches, PatchAnswered(k)
      PROVE  OffInv'
  <2>1. patches[k].order = at
    BY DEF CalmInv
  <2>2. /\ FetchTrack(at') /\ patches' = RemoveAt(patches, k)
        /\ UNCHANGED <<at, share, choice, snapshot, trip>>
    BY <1>9, <2>1 DEF PatchAnswered
  <2>3. \A i \in DOMAIN patches' : ~patches'[i].sharing
    <3>1. /\ patches' \in Seq(PatchSent) /\ Len(patches') = Len(patches) - 1
          /\ \A i \in 1..(Len(patches) - 1) :
                patches'[i] = IF i < k THEN patches[i] ELSE patches[i + 1]
      BY <2>2, PatchesLeft
    <3>2. DOMAIN patches' = 1..(Len(patches) - 1)
      BY <3>1, <1>0
    <3>3. \A i \in 1..(Len(patches) - 1) : i \in DOMAIN patches /\ i + 1 \in DOMAIN patches
      BY <1>0
    <3>4. \A i \in DOMAIN patches : ~patches[i].sharing
      BY <2>2 DEF OffInv
    <3> QED  BY <3>1, <3>2, <3>3, <3>4
  <2> QED
    BY <2>2, <2>3, <1>a
<1>10. CASE UNCHANGED trackVars
  BY <1>10 DEF trackVars, OffInv
<1> QED
  BY <1>1, <1>2, <1>3, <1>4, <1>5, <1>6, <1>7, <1>8, <1>9, <1>10 DEF TrackNext

\* The three parts together, for a customer who is calm or not.
LEMMA OffStaysStep == TrackTypes /\ OffStays /\ [TrackNext]_trackVars => OffStays'
<1>1. [TrackNext]_trackVars => trackMode' = trackMode
  BY DEF TrackNext, trackVars, OpenTrack, LeaveTrack, PollTick, TrackServed, TrackAnswered,
         TrackFailed, ToggleShare, SendLocation, TelemetryRead, TelemetryWrite, PatchAnswered
<1> QED
  BY <1>1, CalmStep, FreshStep, OffStep DEF OffStays
-----------------------------------------------------------------------------
(* Planning a journey.                                                     *)

Places == [Ends -> Words \union {NoWord}]
Submission ==
    [pc: {"resolve", "analyze", "stored", "analyzed", "fetched", "failed"},
     shown: Draft, place: Places, ends: Draft, journey: 0..MaxJourneys, here: BOOLEAN, n: 0..2]
JourneyRow == [shown: Draft, ends: Draft, n: 0..2]

\* The form; the submissions and the rows of the server; the store and its
\* requests.  What is remembered of a journey is of one that was inserted, and
\* stops that are listed belong to one.
FormKnown ==
    /\ text \in Draft /\ place \in Places /\ picks \subseteq [end: Ends, word: Words]
    /\ edits \in 0..MaxEdits /\ planMode \in PlanModes

ServerKnown ==
    /\ submits \in Seq(Submission) /\ Len(submits) <= MaxAsked
    /\ journeys \in Seq(JourneyRow) /\ Len(journeys) <= MaxJourneys
    /\ \A i \in DOMAIN submits :
          submits[i].pc \in {"stored", "analyzed", "fetched"}
             => submits[i].journey \in 1..Len(journeys)

StoreKnown ==
    /\ current \in 0..MaxJourneys /\ current <= Len(journeys)
    /\ stops \in [of: 0..MaxJourneys, n: 0..2] /\ (stops.n > 0 => stops.of >= 1)
    /\ selected \in Stop \union {NoStop}
    /\ loading \in BOOLEAN /\ planError \in BOOLEAN /\ page \in {"plan", "stops", "menu"}
    /\ loads \in Seq(1..MaxJourneys) /\ Len(loads) <= MaxAsked
    /\ \A i \in DOMAIN loads : loads[i] <= Len(journeys)
    /\ toggles \in Seq(1..MaxJourneys) /\ Len(toggles) <= 1
    /\ \A i \in DOMAIN toggles : toggles[i] <= Len(journeys)
    /\ current = 0 => stops.n = 0 /\ loads = <<>> /\ toggles = <<>>

PlanKnown == FormKnown /\ ServerKnown /\ StoreKnown

\* The bounds are numbers, and a list of requests has a place for each.
LEMMA ServerFacts ==
    ServerKnown =>
        /\ DOMAIN submits = 1..Len(submits) /\ Len(submits) \in Nat
        /\ \A i \in DOMAIN submits : submits[i] \in Submission
        /\ DOMAIN journeys = 1..Len(journeys) /\ Len(journeys) \in Nat
        /\ \A i \in DOMAIN journeys : journeys[i] \in JourneyRow
        /\ MaxEdits \in Nat /\ MaxJourneys \in Nat /\ MaxAsked \in Nat
<1> SUFFICES ASSUME ServerKnown
             PROVE  /\ DOMAIN submits = 1..Len(submits) /\ Len(submits) \in Nat
                    /\ \A i \in DOMAIN submits : submits[i] \in Submission
                    /\ DOMAIN journeys = 1..Len(journeys) /\ Len(journeys) \in Nat
                    /\ \A i \in DOMAIN journeys : journeys[i] \in JourneyRow
                    /\ MaxEdits \in Nat /\ MaxJourneys \in Nat /\ MaxAsked \in Nat
  OBVIOUS
<1>1. submits \in Seq(Submission) /\ journeys \in Seq(JourneyRow)
  BY DEF ServerKnown
<1>2. MaxEdits \in Nat /\ MaxJourneys \in Nat /\ MaxAsked \in Nat
  BY PlanAssumption
<1>3. /\ DOMAIN submits = 1..Len(submits) /\ Len(submits) \in Nat
      /\ \A i \in DOMAIN submits : submits[i] \in Submission
  BY <1>1
<1>4. /\ DOMAIN journeys = 1..Len(journeys) /\ Len(journeys) \in Nat
      /\ \A i \in DOMAIN journeys : journeys[i] \in JourneyRow
  BY <1>1
<1> QED
  BY <1>2, <1>3, <1>4

\* The same of the loads of stops and of the choice about sharing.
LEMMA StoreFacts ==
    StoreKnown =>
        /\ loads \in Seq(1..MaxJourneys)
        /\ DOMAIN loads = 1..Len(loads) /\ Len(loads) \in Nat
        /\ \A i \in DOMAIN loads : loads[i] \in 1..MaxJourneys
        /\ toggles \in Seq(1..MaxJourneys)
        /\ DOMAIN toggles = 1..Len(toggles) /\ Len(toggles) \in Nat
        /\ \A i \in DOMAIN toggles : toggles[i] \in 1..MaxJourneys
<1> SUFFICES ASSUME StoreKnown
             PROVE  /\ loads \in Seq(1..MaxJourneys)
                    /\ DOMAIN loads = 1..Len(loads) /\ Len(loads) \in Nat
                    /\ \A i \in DOMAIN loads : loads[i] \in 1..MaxJourneys
                    /\ toggles \in Seq(1..MaxJourneys)
                    /\ DOMAIN toggles = 1..Len(toggles) /\ Len(toggles) \in Nat
                    /\ \A i \in DOMAIN toggles : toggles[i] \in 1..MaxJourneys
  OBVIOUS
<1>1. loads \in Seq(1..MaxJourneys) /\ toggles \in Seq(1..MaxJourneys)
  BY DEF StoreKnown
<1>2. DOMAIN loads = 1..Len(loads) /\ Len(loads) \in Nat
  BY <1>1
<1>3. DOMAIN toggles = 1..Len(toggles) /\ Len(toggles) \in Nat
  BY <1>1
<1> QED
  BY <1>1, <1>2, <1>3, ElementOfSeq

\* What stays as it is stays known; the server and the store also look at the
\* number of journeys.
LEMMA FormStays == FormKnown /\ UNCHANGED <<formVars, planMode>> => FormKnown'
  BY DEF FormKnown, formVars

\* The submissions and the rows stay.
LEMMA ServerStays == ServerKnown /\ UNCHANGED <<submits, journeys>> => ServerKnown'
  BY DEF ServerKnown

\* The store stays.
LEMMA StoreStays ==
    StoreKnown /\ UNCHANGED <<storeVars, toggles>> /\ Len(journeys') = Len(journeys) => StoreKnown'
  BY DEF StoreKnown, storeVars

\* What is known is typed.
LEMMA KnownIsTyped == PlanKnown => PlanTypes
<1> SUFFICES ASSUME PlanKnown PROVE PlanTypes
  OBVIOUS
<1>1. /\ text \in Draft /\ place \in Places /\ picks \subseteq [end: Ends, word: Words]
      /\ edits \in 0..MaxEdits /\ planMode \in PlanModes
      /\ submits \in Seq(Submission) /\ Len(submits) <= MaxAsked
      /\ journeys \in Seq(JourneyRow) /\ Len(journeys) <= MaxJourneys
      /\ current \in 0..MaxJourneys
      /\ stops \in [of: 0..MaxJourneys, n: 0..2] /\ selected \in Stop \union {NoStop}
      /\ page \in {"plan", "stops", "menu"}
      /\ loads \in Seq(1..MaxJourneys) /\ Len(loads) <= MaxAsked
      /\ toggles \in Seq(1..MaxJourneys) /\ Len(toggles) <= 1
  BY DEF PlanKnown, FormKnown, ServerKnown, StoreKnown
<1>2. {loading, planError} \subseteq BOOLEAN
  BY Zenon DEF PlanKnown, StoreKnown
<1> QED
  BY <1>1, <1>2, Zenon DEF PlanTypes, Places, Submission, JourneyRow

\* The page as it is mounted.
LEMMA PlanKnownInit == PlanInit => PlanKnown
<1> SUFFICES ASSUME PlanInit PROVE PlanKnown
  OBVIOUS
<1>1. /\ submits = <<>> /\ journeys = <<>> /\ loads = <<>> /\ toggles = <<>>
      /\ DOMAIN submits = {} /\ DOMAIN loads = {} /\ DOMAIN toggles = {}
      /\ Len(submits) = 0 /\ Len(journeys) = 0 /\ Len(loads) = 0 /\ Len(toggles) = 0
      /\ submits \in Seq(Submission) /\ journeys \in Seq(JourneyRow)
      /\ loads \in Seq(1..MaxJourneys) /\ toggles \in Seq(1..MaxJourneys)
  BY DEF PlanInit
<1>2. /\ 0 \in 0..MaxEdits /\ 0 \in 0..MaxJourneys /\ 0 <= MaxAsked /\ 0 <= MaxJourneys
      /\ NoStops \in [of: 0..MaxJourneys, n: 0..2] /\ NoStops.n = 0 /\ Demo \in Draft
  BY PlanAssumption DEF NoStops
<1>3. [e \in Ends |-> NoWord] \in Places
  BY DEF Places
<1>4. FormKnown
  BY <1>2, <1>3 DEF PlanInit, FormKnown
<1>5. ServerKnown
  BY <1>1, <1>2 DEF ServerKnown
<1>6. loading \in BOOLEAN /\ planError \in BOOLEAN
  BY DEF PlanInit
<1>7. StoreKnown
  BY <1>1, <1>2, <1>6 DEF PlanInit, StoreKnown
<1> QED
  BY <1>4, <1>5, <1>7 DEF PlanKnown

\* A submission is taken from the list, or goes on, or loses its form.
LEMMA SubmitsLeft ==
    ServerKnown => \A i \in DOMAIN submits :
        /\ RemoveAt(submits, i) \in Seq(Submission)
        /\ Len(RemoveAt(submits, i)) = Len(submits) - 1
        /\ DOMAIN RemoveAt(submits, i) = 1..(Len(submits) - 1)
        /\ \A k \in DOMAIN RemoveAt(submits, i) :
              \E j \in DOMAIN submits : j # i /\ RemoveAt(submits, i)[k] = submits[j]
<1> SUFFICES ASSUME ServerKnown, NEW i \in DOMAIN submits
             PROVE  /\ RemoveAt(submits, i) \in Seq(Submission)
                    /\ Len(RemoveAt(submits, i)) = Len(submits) - 1
                    /\ DOMAIN RemoveAt(submits, i) = 1..(Len(submits) - 1)
                    /\ \A k \in DOMAIN RemoveAt(submits, i) :
                          \E j \in DOMAIN submits : j # i /\ RemoveAt(submits, i)[k] = submits[j]
  OBVIOUS
<1> DEFINE r == RemoveAt(submits, i)
<1>1. submits \in Seq(Submission) /\ i \in 1..Len(submits) /\ DOMAIN submits = 1..Len(submits)
  BY ServerFacts DEF ServerKnown
<1>2. /\ r \in Seq(Submission) /\ Len(r) = Len(submits) - 1
      /\ \A k \in 1..(Len(submits) - 1) : r[k] = IF k < i THEN submits[k] ELSE submits[k + 1]
  BY <1>1, RemovedAt
<1> HIDE DEF r
<1>3. DOMAIN r = 1..(Len(submits) - 1)
  BY <1>1, <1>2
<1>4. ASSUME NEW k \in 1..(Len(submits) - 1)
      PROVE  \E j \in DOMAIN submits : j # i /\ r[k] = submits[j]
  <2>1. CASE k < i
    <3>1. k \in 1..Len(submits) /\ k # i
      BY <1>1, <2>1
    <3> QED  BY <1>1, <1>2, <2>1, <3>1
  <2>2. CASE ~(k < i)
    <3>1. k + 1 \in 1..Len(submits) /\ k + 1 # i
      BY <1>1, <2>2
    <3> QED  BY <1>1, <1>2, <2>2, <3>1
  <2> QED  BY <2>1, <2>2
<1> QED
  BY <1>2, <1>3, <1>4 DEF r

\* One submission is replaced by another record.
LEMMA SubmitGoesOn ==
    ServerKnown => \A i \in DOMAIN submits, u \in Submission :
        /\ [submits EXCEPT ![i] = u] \in Seq(Submission)
        /\ Len([submits EXCEPT ![i] = u]) = Len(submits)
        /\ DOMAIN [submits EXCEPT ![i] = u] = DOMAIN submits
        /\ \A k \in DOMAIN submits :
              [submits EXCEPT ![i] = u][k] = IF k = i THEN u ELSE submits[k]
  BY ServerFacts DEF ServerKnown

\* The form is gone, or it stays: what it holds, and what its submissions are.
LEMMA FormsTyped ==
    FormKnown => \A pg \in {"plan", "stops", "menu"}, subs \in Seq(Submission) : Forms(pg, subs) =>
        /\ submits' \in Seq(Submission) /\ Len(submits') = Len(subs)
        /\ DOMAIN submits' = DOMAIN subs
        /\ \A k \in DOMAIN subs :
              /\ submits'[k].pc = subs[k].pc /\ submits'[k].journey = subs[k].journey
              /\ submits'[k].shown = subs[k].shown /\ submits'[k].ends = subs[k].ends
              /\ submits'[k].place = subs[k].place
        /\ text' \in Draft /\ place' \in Places /\ picks' \subseteq [end: Ends, word: Words]
<1> SUFFICES ASSUME FormKnown, NEW pg \in {"plan", "stops", "menu"}, NEW subs \in Seq(Submission), Forms(pg, subs)
             PROVE  /\ submits' \in Seq(Submission) /\ Len(submits') = Len(subs)
                    /\ DOMAIN submits' = DOMAIN subs
                    /\ \A k \in DOMAIN subs :
                          /\ submits'[k].pc = subs[k].pc /\ submits'[k].journey = subs[k].journey
                          /\ submits'[k].shown = subs[k].shown /\ submits'[k].ends = subs[k].ends
                          /\ submits'[k].place = subs[k].place
                    /\ text' \in Draft /\ place' \in Places
                    /\ picks' \subseteq [end: Ends, word: Words]
  OBVIOUS
<1>1. CASE pg = page
  BY <1>1 DEF Forms, FormKnown
<1>2. CASE pg # page
  <2>1. submits' = [j \in DOMAIN subs |-> [subs[j] EXCEPT !.here = FALSE]]
    BY <1>2 DEF Forms
  <2>2. DOMAIN subs = 1..Len(subs) /\ Len(subs) \in Nat /\ \A k \in DOMAIN subs : subs[k] \in Submission
    OBVIOUS
  <2>3. \A k \in DOMAIN subs :
           /\ submits'[k] \in Submission
           /\ submits'[k].pc = subs[k].pc /\ submits'[k].journey = subs[k].journey
           /\ submits'[k].shown = subs[k].shown /\ submits'[k].ends = subs[k].ends
           /\ submits'[k].place = subs[k].place
    BY <2>1, <2>2 DEF Submission
  <2>4. DOMAIN submits' = 1..Len(subs)
    BY <2>1, <2>2
  <2>5. submits' = [j \in 1..Len(subs) |-> submits'[j]]
    BY <2>1, <2>2
  <2>6. submits' \in Seq(Submission)
    BY <2>2, <2>3, <2>5, SeqDef
  <2>7. Len(submits') = Len(subs)
    BY <2>2, <2>4, <2>6
  <2>8. text' \in Draft /\ place' \in Places /\ picks' \subseteq [end: Ends, word: Words]
    BY <1>2, PlanAssumption DEF Forms, Places
  <2> QED
    BY <2>2, <2>3, <2>4, <2>6, <2>7, <2>8
<1> QED
  BY <1>1, <1>2

\* What a step shows: the journey and the stops it is given, a selection of
\* them, and perhaps a load of stops for the journey.
LEMMA ShownTyped ==
    StoreKnown => \A pg \in {"plan", "stops", "menu"}, cur \in 0..MaxJourneys,
                    list \in [of: 0..MaxJourneys, n: 0..2] :
        Shown(pg, cur, list) /\ (list.n > 0 => list.of >= 1) =>
            /\ page' = pg /\ current' = cur /\ stops' = list
            /\ selected' \in Stop \union {NoStop}
            /\ loads' = loads \/ (cur # 0 /\ loads' = Append(loads, cur))
            /\ loads' \in Seq(1..MaxJourneys) /\ Len(loads') <= MaxAsked
            /\ \A i \in DOMAIN loads' : loads'[i] = cur \/ \E j \in DOMAIN loads : loads'[i] = loads[j]
<1> SUFFICES ASSUME StoreKnown, NEW pg \in {"plan", "stops", "menu"}, NEW cur \in 0..MaxJourneys,
                    NEW list \in [of: 0..MaxJourneys, n: 0..2],
                    Shown(pg, cur, list), list.n > 0 => list.of >= 1
             PROVE  /\ page' = pg /\ current' = cur /\ stops' = list
                    /\ selected' \in Stop \union {NoStop}
                    /\ loads' = loads \/ (cur # 0 /\ loads' = Append(loads, cur))
                    /\ loads' \in Seq(1..MaxJourneys) /\ Len(loads') <= MaxAsked
                    /\ \A i \in DOMAIN loads' :
                          loads'[i] = cur \/ \E j \in DOMAIN loads : loads'[i] = loads[j]
  OBVIOUS
<1>1. /\ page' = pg /\ current' = cur /\ stops' = list /\ selected' \in Selections(pg, list)
      /\ loads' = loads \/ (cur # 0 /\ loads' = Append(loads, cur))
      /\ Len(loads') <= MaxAsked
  BY DEF Shown
<1>2. selected' \in Stop \union {NoStop}
  <2>1. selected \in Stop \union {NoStop}
    BY DEF StoreKnown
  <2>2. list.n = 0 \/ [of |-> list.of, nr |-> 1] \in Stop
    BY DEF Stop
  <2> QED  BY <1>1, <2>1, <2>2 DEF Selections
<1>3. loads \in Seq(1..MaxJourneys) /\ DOMAIN loads = 1..Len(loads) /\ Len(loads) \in Nat
  BY StoreFacts
<1>4. cur # 0 => cur \in 1..MaxJourneys
  BY PlanAssumption
<1>5. loads' \in Seq(1..MaxJourneys)
  <2>1. CASE loads' = loads
    BY <1>3, <2>1
  <2>2. CASE cur # 0 /\ loads' = Append(loads, cur)
    BY <1>3, <1>4, <2>2, Append(loads, cur) \in Seq(1..MaxJourneys)
  <2> QED  BY <1>1, <2>1, <2>2
<1>6. \A i \in DOMAIN loads' : loads'[i] = cur \/ \E j \in DOMAIN loads : loads'[i] = loads[j]
  <2>1. CASE loads' = loads
    BY <2>1
  <2>2. CASE cur # 0 /\ loads' = Append(loads, cur)
    <3>1. DOMAIN loads' = 1..(Len(loads) + 1)
      BY <1>3, <1>4, <2>2
    <3>2. \A i \in 1..(Len(loads) + 1) : i \in 1..Len(loads) \/ i = Len(loads) + 1
      BY <1>3
    <3>3. (\A i \in 1..Len(loads) : loads'[i] = loads[i]) /\ loads'[Len(loads) + 1] = cur
      BY <1>3, <1>4, <2>2
    <3> QED  BY <1>3, <3>1, <3>2, <3>3
  <2> QED  BY <1>1, <2>1, <2>2
<1> QED
  BY <1>1, <1>2, <1>5, <1>6

\* One submission of the list moves on, to a stage of which the journey is known
\* if it has one.
LEMMA SubmitKnown ==
    ServerKnown => \A i \in DOMAIN submits, u \in Submission :
        /\ submits' = [submits EXCEPT ![i] = u] /\ Len(journeys') >= Len(journeys)
        /\ journeys' \in Seq(JourneyRow) /\ Len(journeys') <= MaxJourneys
        /\ u.pc \in {"stored", "analyzed", "fetched"} => u.journey \in 1..Len(journeys')
        => ServerKnown'
<1> SUFFICES ASSUME ServerKnown, NEW i \in DOMAIN submits, NEW u \in Submission,
                    submits' = [submits EXCEPT ![i] = u], Len(journeys') >= Len(journeys),
                    journeys' \in Seq(JourneyRow), Len(journeys') <= MaxJourneys,
                    u.pc \in {"stored", "analyzed", "fetched"} => u.journey \in 1..Len(journeys')
             PROVE  ServerKnown'
  OBVIOUS
<1>1. /\ submits' \in Seq(Submission) /\ Len(submits') = Len(submits)
      /\ DOMAIN submits' = DOMAIN submits
      /\ \A k \in DOMAIN submits : submits'[k] = IF k = i THEN u ELSE submits[k]
  BY SubmitGoesOn
<1>2. ASSUME NEW k \in DOMAIN submits, submits'[k].pc \in {"stored", "analyzed", "fetched"}
      PROVE  submits'[k].journey \in 1..Len(journeys')
  <2>1. CASE k = i
    BY <1>1, <1>2, <2>1
  <2>2. CASE k # i
    <3>1. submits'[k] = submits[k]
      BY <1>1, <2>2
    <3>2. submits[k].journey \in 1..Len(journeys)
      BY <1>2, <3>1 DEF ServerKnown
    <3>3. Len(journeys) \in Nat /\ Len(journeys') \in Nat
      BY ServerFacts
    <3> QED  BY <3>1, <3>2, <3>3
  <2> QED  BY <2>1, <2>2
<1> QED
  BY <1>1, <1>2 DEF ServerKnown

\* One is done, and the others keep what they know.
LEMMA SubmitDone ==
    ServerKnown => \A i \in DOMAIN submits :
        submits' = RemoveAt(submits, i) /\ journeys' = journeys => ServerKnown'
<1> SUFFICES ASSUME ServerKnown, NEW i \in DOMAIN submits,
                    submits' = RemoveAt(submits, i), journeys' = journeys
             PROVE  ServerKnown'
  OBVIOUS
<1>1. /\ submits' \in Seq(Submission) /\ Len(submits') = Len(submits) - 1
      /\ \A k \in DOMAIN submits' : \E j \in DOMAIN submits : submits'[k] = submits[j]
  BY SubmitsLeft
<1>2. Len(submits') <= MaxAsked
  BY <1>1, ServerFacts DEF ServerKnown
<1>3. \A k \in DOMAIN submits' :
         submits'[k].pc \in {"stored", "analyzed", "fetched"} => submits'[k].journey \in 1..Len(journeys)
  BY <1>1 DEF ServerKnown
<1> QED
  BY <1>1, <1>2, <1>3 DEF ServerKnown

\* Edits of the form.
LEMMA KnownTypeText ==
    PlanKnown => \A e \in Ends, w \in Words : TypeText(e, w) => PlanKnown'
<1> SUFFICES ASSUME PlanKnown, NEW e \in Ends, NEW w \in Words, TypeText(e, w)
             PROVE  PlanKnown'
  OBVIOUS
<1>1. ServerKnown'
  BY ServerStays DEF PlanKnown, TypeText
<1>2. StoreKnown'
  BY StoreStays DEF PlanKnown, TypeText
<1>3. FormKnown'
  <2>1. text' \in Draft
    BY DEF PlanKnown, FormKnown, TypeText, Draft
  <2>2. place' \in Places
    BY DEF PlanKnown, FormKnown, TypeText, Places
  <2>3. edits' \in 0..MaxEdits
    BY PlanAssumption DEF PlanKnown, FormKnown, TypeText
  <2> QED  BY <2>1, <2>2, <2>3 DEF PlanKnown, FormKnown, TypeText
<1> QED
  BY <1>1, <1>2, <1>3 DEF PlanKnown

\* A suggestion is clicked: its details are asked for.
LEMMA KnownPickSuggestion ==
    PlanKnown => \A e \in Ends, w \in Words : PickSuggestion(e, w) => PlanKnown'
<1> SUFFICES ASSUME PlanKnown, NEW e \in Ends, NEW w \in Words, PickSuggestion(e, w)
             PROVE  PlanKnown'
  OBVIOUS
<1>1. ServerKnown'
  BY ServerStays DEF PlanKnown, PickSuggestion
<1>2. StoreKnown'
  BY StoreStays DEF PlanKnown, PickSuggestion
<1>3. FormKnown'
  <2>1. edits' \in 0..MaxEdits
    BY PlanAssumption DEF PlanKnown, FormKnown, PickSuggestion
  <2>2. picks' \subseteq [end: Ends, word: Words]
    BY DEF PickSuggestion
  <2> QED  BY <2>1, <2>2 DEF PlanKnown, FormKnown, PickSuggestion
<1> QED
  BY <1>1, <1>2, <1>3 DEF PlanKnown

\* The details arrive, or do not.
LEMMA KnownPickAnswered ==
    PlanKnown => \A p \in picks : PickAnswered(p) => PlanKnown'
<1> SUFFICES ASSUME PlanKnown, NEW p \in picks, PickAnswered(p)
             PROVE  PlanKnown'
  OBVIOUS
<1>1. ServerKnown'
  BY ServerStays DEF PlanKnown, PickAnswered
<1>2. StoreKnown'
  BY StoreStays DEF PlanKnown, PickAnswered
<1>3. FormKnown'
  <2>1. p.end \in Ends /\ p.word \in Words
    BY DEF PlanKnown, FormKnown
  <2>2. text' \in Draft
    BY <2>1 DEF PlanKnown, FormKnown, PickAnswered, Draft
  <2>3. place' \in Places
    BY <2>1 DEF PlanKnown, FormKnown, PickAnswered, Places
  <2> QED  BY <2>2, <2>3 DEF PlanKnown, FormKnown, PickAnswered
<1> QED
  BY <1>1, <1>2, <1>3 DEF PlanKnown

\* The form is submitted, and its addresses are resolved.
LEMMA KnownSubmit == PlanKnown /\ Submit => PlanKnown'
<1> SUFFICES ASSUME PlanKnown, Submit PROVE PlanKnown'
  OBVIOUS
<1>1. FormKnown'
  BY FormStays DEF PlanKnown, Submit
<1>2. StoreKnown'
  BY StoreStays DEF PlanKnown, Submit
<1> DEFINE u == [pc |-> "resolve", shown |-> text, place |-> place, ends |-> text,
                 journey |-> 0, here |-> TRUE, n |-> 0]
<1>3. u \in Submission /\ u.pc = "resolve"
  BY PlanAssumption DEF PlanKnown, FormKnown, Submission
<1>4. submits' = Append(submits, u) /\ journeys' = journeys /\ Len(submits) < MaxAsked
  BY DEF Submit
<1> HIDE DEF u
<1>5. submits \in Seq(Submission) /\ Len(submits) \in Nat /\ MaxAsked \in Nat
  BY ServerFacts DEF PlanKnown, ServerKnown
<1>6. submits' \in Seq(Submission) /\ Len(submits') <= MaxAsked
  BY <1>3, <1>4, <1>5
<1>7. ASSUME NEW k \in DOMAIN submits', submits'[k].pc \in {"stored", "analyzed", "fetched"}
      PROVE  submits'[k].journey \in 1..Len(journeys)
  <2>1. DOMAIN submits' = 1..(Len(submits) + 1)
    BY <1>3, <1>4, <1>5
  <2>2. CASE k = Len(submits) + 1
    BY <1>3, <1>4, <1>5, <1>7, <2>2
  <2>3. CASE k # Len(submits) + 1
    <3>1. k \in DOMAIN submits
      BY <1>5, <2>1, <2>3
    <3>2. submits'[k] = submits[k]
      BY <1>3, <1>4, <1>5, <3>1
    <3> QED  BY <1>7, <3>1, <3>2 DEF PlanKnown, ServerKnown
  <2> QED  BY <2>2, <2>3
<1>8. ServerKnown'
  BY <1>4, <1>6, <1>7 DEF PlanKnown, ServerKnown
<1> QED
  BY <1>1, <1>2, <1>8 DEF PlanKnown

\* The addresses are resolved: the submission ends, or goes to the server.
LEMMA KnownResolved ==
    PlanKnown => \A i \in DOMAIN submits : Resolved(i) => PlanKnown'
<1> SUFFICES ASSUME PlanKnown, NEW i \in DOMAIN submits, Resolved(i)
             PROVE  PlanKnown'
  OBVIOUS
<1> DEFINE s == submits[i]
<1>1. s \in Submission
  BY ServerFacts DEF PlanKnown
<1>2. PICK r \in Resolutions(s) :
         LET both == NoWord \notin {r["from"], r["to"]}
             ok == both => InBand(r["from"], r["to"])
         IN  /\ place' = IF both /\ s.here THEN r ELSE place
             /\ \/ /\ ~ok
                   /\ submits' = RemoveAt(submits, i)
                   /\ UNCHANGED <<loading, planError>>
                \/ /\ ok
                   /\ submits' = [submits EXCEPT ![i].pc = "analyze",
                         ![i].ends = [e \in Ends |-> IF r[e] = NoWord THEN s.shown[e] ELSE r[e]]]
                   /\ loading' = TRUE /\ planError' = FALSE
  BY DEF Resolved
<1>3. r \in Places
  BY DEF Resolutions, Places
<1>4. /\ UNCHANGED <<text, picks, edits, journeys, current, stops, selected, page,
                     loads, toggles, planMode>>
  BY DEF Resolved
<1>5. FormKnown'
  BY <1>2, <1>3, <1>4 DEF PlanKnown, FormKnown
<1>6. CASE submits' = RemoveAt(submits, i) /\ UNCHANGED <<loading, planError>>
  <2>1. ServerKnown'
    BY <1>4, <1>6, SubmitDone DEF PlanKnown
  <2>2. StoreKnown'
    BY <1>4, <1>6, StoreStays DEF PlanKnown, storeVars
  <2> QED  BY <1>5, <2>1, <2>2 DEF PlanKnown
<1>7. CASE /\ submits' = [submits EXCEPT ![i].pc = "analyze",
                 ![i].ends = [e \in Ends |-> IF r[e] = NoWord THEN s.shown[e] ELSE r[e]]]
           /\ loading' = TRUE /\ planError' = FALSE
  <2> DEFINE d == [e \in Ends |-> IF r[e] = NoWord THEN s.shown[e] ELSE r[e]]
             u == [[s EXCEPT !.pc = "analyze"] EXCEPT !.ends = d]
  <2>1. d \in Draft
    BY <1>1, <1>3 DEF Submission, Draft, Places
  <2>2. submits \in Seq(Submission)
    BY DEF PlanKnown, ServerKnown
  <2>3. submits' = [submits EXCEPT ![i] = u]
    BY <1>7, <2>2
  <2> HIDE DEF d
  <2>4. u \in Submission /\ u.pc = "analyze"
    BY <1>1, <2>1 DEF Submission
  <2> HIDE DEF u
  <2>5. Len(journeys') >= Len(journeys) /\ journeys' \in Seq(JourneyRow) /\ Len(journeys') <= MaxJourneys
    BY <1>4, ServerFacts DEF PlanKnown, ServerKnown
  <2>6. ServerKnown'
    BY <2>3, <2>4, <2>5, SubmitKnown DEF PlanKnown
  <2>7. loading' \in BOOLEAN /\ planError' \in BOOLEAN
    BY <1>7
  <2>8. StoreKnown'
    BY <1>4, <2>7 DEF PlanKnown, StoreKnown
  <2> QED  BY <1>5, <2>6, <2>8 DEF PlanKnown
<1> QED
  BY <1>2, <1>6, <1>7

\* The server answers one of the three requests, or does not.
LEMMA KnownJourneyInserted ==
    PlanKnown => \A i \in DOMAIN submits : JourneyInserted(i) => PlanKnown'
<1> SUFFICES ASSUME PlanKnown, NEW i \in DOMAIN submits, JourneyInserted(i)
             PROVE  PlanKnown'
  OBVIOUS
<1> DEFINE s == submits[i]
           added == [shown |-> s.shown, ends |-> s.ends, n |-> 0]
           u == [[s EXCEPT !.pc = "stored"] EXCEPT !.journey = Len(journeys) + 1]
<1>1. s \in Submission /\ submits \in Seq(Submission)
  BY ServerFacts DEF PlanKnown, ServerKnown
<1>2. journeys \in Seq(JourneyRow) /\ Len(journeys) \in Nat /\ MaxJourneys \in Nat
  BY ServerFacts DEF PlanKnown, ServerKnown
<1>3. /\ journeys' = Append(journeys, added) /\ Len(journeys) < MaxJourneys
      /\ UNCHANGED <<formVars, storeVars, toggles, planMode>>
  BY DEF JourneyInserted
<1>4. submits' = [submits EXCEPT ![i] = u]
  BY <1>1 DEF JourneyInserted
<1>5. added \in JourneyRow
  BY <1>1 DEF Submission, JourneyRow
<1>6. u \in Submission /\ u.journey = Len(journeys) + 1
  <2>1. Len(journeys) + 1 \in 0..MaxJourneys
    BY <1>2, <1>3
  <2> QED  BY <1>1, <2>1 DEF Submission
<1> HIDE DEF u, added
<1>7. journeys' \in Seq(JourneyRow) /\ Len(journeys') = Len(journeys) + 1
  BY <1>2, <1>3, <1>5
<1>8. /\ Len(journeys') >= Len(journeys) /\ Len(journeys') <= MaxJourneys
      /\ u.journey \in 1..Len(journeys')
  BY <1>2, <1>3, <1>6, <1>7
<1>9. ServerKnown'
  BY <1>4, <1>6, <1>7, <1>8, SubmitKnown DEF PlanKnown
<1>10. FormKnown'
  BY <1>3, FormStays DEF PlanKnown
<1>11. StoreKnown'
  <2>1. UNCHANGED <<current, stops, selected, loading, planError, page, loads, toggles>>
    BY <1>3 DEF storeVars
  <2>2. current <= Len(journeys')
    BY <1>2, <1>7, PlanAssumption DEF PlanKnown, StoreKnown
  <2>3. \A k \in DOMAIN loads : loads[k] <= Len(journeys')
    BY <1>2, <1>7, StoreFacts DEF PlanKnown, StoreKnown
  <2>4. \A k \in DOMAIN toggles : toggles[k] <= Len(journeys')
    BY <1>2, <1>7, StoreFacts DEF PlanKnown, StoreKnown
  <2> QED  BY <2>1, <2>2, <2>3, <2>4 DEF PlanKnown, StoreKnown
<1> QED
  BY <1>9, <1>10, <1>11 DEF PlanKnown

\* The intercepts of a journey that was inserted are stored with its row.
LEMMA KnownInterceptsInserted ==
    PlanKnown => \A i \in DOMAIN submits : InterceptsInserted(i) => PlanKnown'
<1> SUFFICES ASSUME PlanKnown, NEW i \in DOMAIN submits, InterceptsInserted(i)
             PROVE  PlanKnown'
  OBVIOUS
<1> DEFINE s == submits[i]
           u == [s EXCEPT !.pc = "analyzed"]
<1>1. s \in Submission /\ submits \in Seq(Submission) /\ s.pc = "stored"
  BY ServerFacts DEF PlanKnown, ServerKnown, InterceptsInserted
<1>2. PICK n \in 0..2 : journeys' = [journeys EXCEPT ![s.journey].n = n]
  BY DEF InterceptsInserted
<1>3. /\ UNCHANGED <<formVars, storeVars, toggles, planMode>>
      /\ submits' = [submits EXCEPT ![i].pc = "analyzed"]
  BY DEF InterceptsInserted
<1>4. s.journey \in 1..Len(journeys) /\ DOMAIN journeys = 1..Len(journeys)
  BY <1>1, ServerFacts DEF PlanKnown, ServerKnown
<1>5. journeys' \in Seq(JourneyRow) /\ Len(journeys') = Len(journeys)
  <2> DEFINE v == [journeys[s.journey] EXCEPT !.n = n]
  <2>1. journeys[s.journey] \in JourneyRow /\ journeys \in Seq(JourneyRow)
    BY <1>4, ServerFacts DEF PlanKnown, ServerKnown
  <2>2. v \in JourneyRow
    BY <2>1 DEF JourneyRow
  <2>3. journeys' = [journeys EXCEPT ![s.journey] = v]
    BY <1>2, <2>1
  <2> HIDE DEF v
  <2> QED  BY <1>4, <2>1, <2>2, <2>3
<1>6. u \in Submission /\ u.journey = s.journey
  BY <1>1 DEF Submission
<1>7. submits' = [submits EXCEPT ![i] = u]
  BY <1>1, <1>3
<1> HIDE DEF u
<1>8. Len(journeys') >= Len(journeys) /\ Len(journeys') <= MaxJourneys
  BY <1>5, ServerFacts DEF PlanKnown, ServerKnown
<1>9. ServerKnown'
  BY <1>4, <1>5, <1>6, <1>7, <1>8, SubmitKnown DEF PlanKnown
<1>10. FormKnown'
  BY <1>3, FormStays DEF PlanKnown
<1>11. StoreKnown'
  BY <1>3, <1>5, StoreStays DEF PlanKnown
<1> QED
  BY <1>9, <1>10, <1>11 DEF PlanKnown

\* The journey and its intercepts are read back.
LEMMA KnownJourneyFetched ==
    PlanKnown => \A i \in DOMAIN submits : JourneyFetched(i) => PlanKnown'
<1> SUFFICES ASSUME PlanKnown, NEW i \in DOMAIN submits, JourneyFetched(i)
             PROVE  PlanKnown'
  OBVIOUS
<1> DEFINE s == submits[i]
           u == [[s EXCEPT !.pc = "fetched"] EXCEPT !.n = journeys[s.journey].n]
<1>1. s \in Submission /\ submits \in Seq(Submission) /\ s.pc = "analyzed"
  BY ServerFacts DEF PlanKnown, ServerKnown, JourneyFetched
<1>2. s.journey \in 1..Len(journeys) /\ journeys[s.journey] \in JourneyRow
  BY <1>1, ServerFacts DEF PlanKnown, ServerKnown
<1>3. u \in Submission /\ u.journey = s.journey
  BY <1>1, <1>2 DEF Submission, JourneyRow
<1>4. submits' = [submits EXCEPT ![i] = u]
  BY <1>1 DEF JourneyFetched
<1>5. UNCHANGED <<formVars, journeys, storeVars, toggles, planMode>>
  BY DEF JourneyFetched
<1> HIDE DEF u
<1>6. Len(journeys') >= Len(journeys) /\ journeys' \in Seq(JourneyRow) /\ Len(journeys') <= MaxJourneys
  BY <1>5, ServerFacts DEF PlanKnown, ServerKnown
<1>7. ServerKnown'
  BY <1>2, <1>3, <1>4, <1>5, <1>6, SubmitKnown DEF PlanKnown
<1>8. FormKnown'
  BY <1>5, FormStays DEF PlanKnown
<1>9. StoreKnown'
  BY <1>5, StoreStays DEF PlanKnown
<1> QED
  BY <1>7, <1>8, <1>9 DEF PlanKnown

\* One of the requests is lost.
LEMMA KnownBuildLost ==
    PlanKnown => \A i \in DOMAIN submits : BuildLost(i) => PlanKnown'
<1> SUFFICES ASSUME PlanKnown, NEW i \in DOMAIN submits, BuildLost(i)
             PROVE  PlanKnown'
  OBVIOUS
<1> DEFINE u == [submits[i] EXCEPT !.pc = "failed"]
<1>1. submits[i] \in Submission /\ submits \in Seq(Submission)
  BY ServerFacts DEF PlanKnown, ServerKnown
<1>2. u \in Submission /\ u.pc = "failed"
  BY <1>1 DEF Submission
<1>3. submits' = [submits EXCEPT ![i] = u]
  BY <1>1 DEF BuildLost
<1>4. UNCHANGED <<formVars, journeys, storeVars, toggles, planMode>>
  BY DEF BuildLost
<1> HIDE DEF u
<1>5. Len(journeys') >= Len(journeys) /\ journeys' \in Seq(JourneyRow) /\ Len(journeys') <= MaxJourneys
  BY <1>4, ServerFacts DEF PlanKnown, ServerKnown
<1>6. ServerKnown'
  BY <1>2, <1>3, <1>5, SubmitKnown DEF PlanKnown
<1>7. FormKnown'
  BY <1>4, FormStays DEF PlanKnown
<1>8. StoreKnown'
  BY <1>4, StoreStays DEF PlanKnown
<1> QED
  BY <1>6, <1>7, <1>8 DEF PlanKnown

\* The page changes, or it stays, over submissions that know their journeys.
LEMMA KnownForms ==
    PlanKnown => \A pg \in {"plan", "stops", "menu"}, subs \in Seq(Submission) :
        /\ Forms(pg, subs) /\ Len(subs) <= MaxAsked /\ UNCHANGED <<edits, journeys, planMode>>
        /\ \A k \in DOMAIN subs :
              subs[k].pc \in {"stored", "analyzed", "fetched"} => subs[k].journey \in 1..Len(journeys)
        => FormKnown' /\ ServerKnown'
<1> SUFFICES ASSUME PlanKnown, NEW pg \in {"plan", "stops", "menu"}, NEW subs \in Seq(Submission), Forms(pg, subs),
                    Len(subs) <= MaxAsked, UNCHANGED <<edits, journeys, planMode>>,
                    \A k \in DOMAIN subs : subs[k].pc \in {"stored", "analyzed", "fetched"}
                                              => subs[k].journey \in 1..Len(journeys)
             PROVE  FormKnown' /\ ServerKnown'
  OBVIOUS
<1>1. /\ submits' \in Seq(Submission) /\ Len(submits') = Len(subs)
      /\ DOMAIN submits' = DOMAIN subs
      /\ \A k \in DOMAIN subs : submits'[k].pc = subs[k].pc /\ submits'[k].journey = subs[k].journey
      /\ text' \in Draft /\ place' \in Places /\ picks' \subseteq [end: Ends, word: Words]
  BY FormsTyped DEF PlanKnown
<1>2. FormKnown'
  BY <1>1 DEF PlanKnown, FormKnown
<1>3. ServerKnown'
  BY <1>1 DEF PlanKnown, ServerKnown
<1> QED
  BY <1>2, <1>3

\* What is shown afterwards is known, if it was known to be shown.
LEMMA KnownShown ==
    PlanKnown => \A pg \in {"plan", "stops", "menu"}, cur \in 0..MaxJourneys,
                    list \in [of: 0..MaxJourneys, n: 0..2], raised \in BOOLEAN, failed \in BOOLEAN :
        /\ Shown(pg, cur, list) /\ StoreFlags(raised, failed) /\ journeys' = journeys
        /\ toggles' = toggles \/ toggles' = <<>>
        /\ cur <= Len(journeys) /\ (list.n > 0 => list.of >= 1)
        /\ cur = 0 => list.n = 0 /\ loads = <<>> /\ toggles' = <<>>
        => StoreKnown'
<1> SUFFICES ASSUME PlanKnown, NEW pg \in {"plan", "stops", "menu"}, NEW cur \in 0..MaxJourneys,
                    NEW list \in [of: 0..MaxJourneys, n: 0..2],
                    NEW raised \in BOOLEAN, NEW failed \in BOOLEAN,
                    Shown(pg, cur, list), StoreFlags(raised, failed), journeys' = journeys,
                    toggles' = toggles \/ toggles' = <<>>,
                    cur <= Len(journeys), list.n > 0 => list.of >= 1,
                    cur = 0 => list.n = 0 /\ loads = <<>> /\ toggles' = <<>>
             PROVE  StoreKnown'
  OBVIOUS
<1>1. /\ page' = pg /\ current' = cur /\ stops' = list
      /\ selected' \in Stop \union {NoStop}
      /\ loads' = loads \/ (cur # 0 /\ loads' = Append(loads, cur))
      /\ loads' \in Seq(1..MaxJourneys) /\ Len(loads') <= MaxAsked
      /\ \A i \in DOMAIN loads' : loads'[i] = cur \/ \E j \in DOMAIN loads : loads'[i] = loads[j]
  BY ShownTyped DEF PlanKnown
<1>2. loading' \in BOOLEAN /\ planError' \in BOOLEAN
  BY DEF StoreFlags
<1>3. \A i \in DOMAIN loads' : loads'[i] <= Len(journeys)
  BY <1>1 DEF PlanKnown, StoreKnown
<1>4. /\ toggles' \in Seq(1..MaxJourneys) /\ Len(toggles') <= 1
      /\ \A i \in DOMAIN toggles' : toggles'[i] <= Len(journeys)
  <2>1. CASE toggles' = toggles
    BY <2>1 DEF PlanKnown, StoreKnown
  <2>2. CASE toggles' = <<>>
    BY <2>2
  <2> QED  BY <2>1, <2>2
<1> QED
  BY <1>1, <1>2, <1>3, <1>4 DEF StoreKnown

\* The journey and its stops go into the store, and perhaps the page changes.
LEMMA KnownBuildAnswered ==
    PlanKnown => \A i \in DOMAIN submits : BuildAnswered(i) => PlanKnown'
<1> SUFFICES ASSUME PlanKnown, NEW i \in DOMAIN submits, BuildAnswered(i)
             PROVE  PlanKnown'
  OBVIOUS
<1> DEFINE s == submits[i]
           list == [of |-> s.journey, n |-> s.n]
           left == RemoveAt(submits, i)
<1>1. s \in Submission /\ s.pc = "fetched"
  BY ServerFacts DEF PlanKnown, BuildAnswered
<1>2. PICK pg \in {page, "stops"} :
         /\ Shown(pg, s.journey, list) /\ StoreFlags(FALSE, planError) /\ Forms(pg, left)
  BY DEF BuildAnswered
<1>3. UNCHANGED <<edits, journeys, toggles, planMode>>
  BY DEF BuildAnswered
<1>4. s.journey \in 1..Len(journeys) /\ s.journey \in 0..MaxJourneys /\ s.n \in 0..2
  BY <1>1 DEF PlanKnown, ServerKnown, Submission
<1>5. list \in [of: 0..MaxJourneys, n: 0..2] /\ list.of >= 1
  BY <1>4, ServerFacts DEF PlanKnown
<1>6. pg \in {"plan", "stops", "menu"} /\ planError \in BOOLEAN /\ FALSE \in BOOLEAN
  BY DEF PlanKnown, StoreKnown
<1>7. s.journey <= Len(journeys) /\ s.journey # 0
  BY <1>4, ServerFacts DEF PlanKnown
<1>8. /\ left \in Seq(Submission) /\ Len(left) = Len(submits) - 1
      /\ \A k \in DOMAIN left : \E j \in DOMAIN submits : left[k] = submits[j]
  BY SubmitsLeft DEF PlanKnown
<1> HIDE DEF list, left
<1>9. StoreKnown'
  BY <1>2, <1>3, <1>4, <1>5, <1>6, <1>7, KnownShown
<1>10. Len(left) <= MaxAsked
  BY <1>8, ServerFacts DEF PlanKnown, ServerKnown
<1>11. \A k \in DOMAIN left : left[k].pc \in {"stored", "analyzed", "fetched"}
                                => left[k].journey \in 1..Len(journeys)
  BY <1>8 DEF PlanKnown, ServerKnown
<1>12. FormKnown' /\ ServerKnown'
  BY <1>2, <1>3, <1>6, <1>8, <1>10, <1>11, KnownForms
<1> QED
  BY <1>9, <1>12 DEF PlanKnown

\* The failure is shown, and the submission is over.
LEMMA KnownBuildFailed ==
    PlanKnown => \A i \in DOMAIN submits : BuildFailed(i) => PlanKnown'
<1> SUFFICES ASSUME PlanKnown, NEW i \in DOMAIN submits, BuildFailed(i)
             PROVE  PlanKnown'
  OBVIOUS
<1>1. ServerKnown'
  BY SubmitDone DEF PlanKnown, BuildFailed
<1>2. FormKnown'
  BY FormStays DEF PlanKnown, BuildFailed
<1>3. loading' \in BOOLEAN /\ planError' \in BOOLEAN
  BY DEF BuildFailed
<1>4. StoreKnown'
  BY <1>3 DEF PlanKnown, StoreKnown, BuildFailed
<1> QED
  BY <1>1, <1>2, <1>4 DEF PlanKnown

\* The customer goes to another page.
LEMMA KnownGoTo ==
    PlanKnown => \A pg \in {"plan", "stops", "menu"} : GoTo(pg) => PlanKnown'
<1> SUFFICES ASSUME PlanKnown, NEW pg \in {"plan", "stops", "menu"}, GoTo(pg)
             PROVE  PlanKnown'
  OBVIOUS
<1>1. /\ Shown(pg, current, stops) /\ StoreFlags(loading, planError) /\ Forms(pg, submits)
      /\ UNCHANGED <<edits, journeys, toggles, planMode>>
  BY DEF GoTo
<1>2. /\ current \in 0..MaxJourneys /\ stops \in [of: 0..MaxJourneys, n: 0..2]
      /\ loading \in BOOLEAN /\ planError \in BOOLEAN
  BY DEF PlanKnown, StoreKnown
<1>3. /\ current <= Len(journeys) /\ (stops.n > 0 => stops.of >= 1)
      /\ current = 0 => stops.n = 0 /\ loads = <<>> /\ toggles' = <<>>
  BY <1>1 DEF PlanKnown, StoreKnown
<1>4. StoreKnown'
  BY <1>1, <1>2, <1>3, KnownShown
<1>5. /\ submits \in Seq(Submission) /\ Len(submits) <= MaxAsked
      /\ \A k \in DOMAIN submits : submits[k].pc \in {"stored", "analyzed", "fetched"}
                                     => submits[k].journey \in 1..Len(journeys)
  BY DEF PlanKnown, ServerKnown
<1>6. FormKnown' /\ ServerKnown'
  BY <1>1, <1>5, KnownForms
<1> QED
  BY <1>4, <1>6 DEF PlanKnown

\* He selects one of the stops listed.
LEMMA KnownSelectStop ==
    PlanKnown => \A nr \in 1..2 : SelectStop(nr) => PlanKnown'
<1> SUFFICES ASSUME PlanKnown, NEW nr \in 1..2, SelectStop(nr)
             PROVE  PlanKnown'
  OBVIOUS
<1>1. FormKnown' /\ ServerKnown'
  BY FormStays, ServerStays DEF PlanKnown, SelectStop
<1>2. selected' \in Stop \union {NoStop}
  <2>1. stops.of \in 0..MaxJourneys /\ stops.n \in 0..2 /\ nr \in 1..stops.n
    BY DEF PlanKnown, StoreKnown, SelectStop
  <2>2. stops.of \in 1..MaxJourneys
    BY <2>1, PlanAssumption DEF PlanKnown, StoreKnown
  <2>3. selected' = [of |-> stops.of, nr |-> nr]
    BY DEF SelectStop
  <2> QED  BY <2>2, <2>3 DEF Stop
<1>3. StoreKnown'
  BY <1>2 DEF PlanKnown, StoreKnown, SelectStop
<1> QED
  BY <1>1, <1>3 DEF PlanKnown

\* Stops are asked for, and the answer comes.
LEMMA KnownRefreshStops == PlanKnown /\ RefreshStops => PlanKnown'
<1> SUFFICES ASSUME PlanKnown, RefreshStops PROVE PlanKnown'
  OBVIOUS
<1>1. FormKnown' /\ ServerKnown'
  BY FormStays, ServerStays DEF PlanKnown, RefreshStops
<1>2. current \in 1..MaxJourneys /\ current <= Len(journeys)
  BY PlanAssumption DEF PlanKnown, StoreKnown, RefreshStops
<1>3. /\ loads \in Seq(1..MaxJourneys) /\ Len(loads) \in Nat /\ Len(loads) < MaxAsked
      /\ loads' = Append(loads, current) /\ DOMAIN loads = 1..Len(loads)
  BY StoreFacts DEF PlanKnown, RefreshStops
<1>4. loads' \in Seq(1..MaxJourneys)
  BY <1>2, <1>3, Append(loads, current) \in Seq(1..MaxJourneys)
<1>5. Len(loads') = Len(loads) + 1 /\ DOMAIN loads' = 1..(Len(loads) + 1)
  BY <1>2, <1>3
<1>6. Len(loads') <= MaxAsked
  BY <1>3, <1>5, PlanAssumption
<1>7. \A k \in DOMAIN loads' : loads'[k] <= Len(journeys)
  <2>1. \A k \in 1..Len(loads) : loads'[k] = loads[k]
    BY <1>3
  <2>2. loads'[Len(loads) + 1] = current
    BY <1>3
  <2>3. \A k \in DOMAIN loads' : k \in 1..Len(loads) \/ k = Len(loads) + 1
    BY <1>3, <1>5
  <2> QED  BY <1>2, <1>3, <2>1, <2>2, <2>3 DEF PlanKnown, StoreKnown
<1>8. loading' \in BOOLEAN /\ planError' \in BOOLEAN
  BY DEF RefreshStops
<1>9. StoreKnown'
  BY <1>4, <1>6, <1>7, <1>8 DEF PlanKnown, StoreKnown, RefreshStops
<1> QED
  BY <1>1, <1>9 DEF PlanKnown

\* What is left of the loads once one is answered.
LEMMA LoadsLeft ==
    StoreKnown => \A i \in DOMAIN loads :
        /\ RemoveAt(loads, i) \in Seq(1..MaxJourneys)
        /\ Len(RemoveAt(loads, i)) = Len(loads) - 1
        /\ DOMAIN RemoveAt(loads, i) = 1..(Len(loads) - 1)
        /\ \A k \in DOMAIN RemoveAt(loads, i) : RemoveAt(loads, i)[k] <= Len(journeys)
<1> SUFFICES ASSUME StoreKnown, NEW i \in DOMAIN loads
             PROVE  /\ RemoveAt(loads, i) \in Seq(1..MaxJourneys)
                    /\ Len(RemoveAt(loads, i)) = Len(loads) - 1
                    /\ DOMAIN RemoveAt(loads, i) = 1..(Len(loads) - 1)
                    /\ \A k \in DOMAIN RemoveAt(loads, i) : RemoveAt(loads, i)[k] <= Len(journeys)
  OBVIOUS
<1> DEFINE r == RemoveAt(loads, i)
<1>1. /\ loads \in Seq(1..MaxJourneys) /\ i \in 1..Len(loads) /\ Len(loads) \in Nat
      /\ DOMAIN loads = 1..Len(loads)
  BY StoreFacts
<1>2. /\ r \in Seq(1..MaxJourneys) /\ Len(r) = Len(loads) - 1
      /\ \A k \in 1..(Len(loads) - 1) : r[k] = IF k < i THEN loads[k] ELSE loads[k + 1]
  BY <1>1, RemovedAt
<1> HIDE DEF r
<1>3. DOMAIN r = 1..(Len(loads) - 1)
  BY <1>1, <1>2
<1>4. \A k \in 1..(Len(loads) - 1) : k \in DOMAIN loads /\ k + 1 \in DOMAIN loads
  BY <1>1
<1>5. \A k \in 1..(Len(loads) - 1) : r[k] <= Len(journeys)
  BY <1>2, <1>4 DEF StoreKnown
<1> QED
  BY <1>2, <1>3, <1>5 DEF r

\* The stops of some journey arrive, and are asked for again when there are none.
LEMMA KnownStopsLoaded ==
    PlanKnown => \A i \in DOMAIN loads : StopsLoaded(i) => PlanKnown'
<1> SUFFICES ASSUME PlanKnown, NEW i \in DOMAIN loads, StopsLoaded(i)
             PROVE  PlanKnown'
  OBVIOUS
<1> DEFINE list == [of |-> loads[i], n |-> journeys[loads[i]].n]
           again == page = "stops" /\ list.n = 0 /\ stops.n > 0
           left == RemoveAt(loads, i)
<1>1. FormKnown' /\ ServerKnown'
  BY FormStays, ServerStays DEF PlanKnown, StopsLoaded
<1>2. /\ stops' = list /\ selected' \in Selections(page, list)
      /\ loads' = IF again THEN Append(left, current) ELSE left
      /\ loading' = again /\ planError' = (planError /\ ~again)
      /\ UNCHANGED <<journeys, current, page, toggles>>
  BY DEF StopsLoaded
<1>3. /\ loads[i] \in 1..MaxJourneys /\ loads[i] \in 1..Len(journeys)
      /\ loads \in Seq(1..MaxJourneys) /\ DOMAIN loads = 1..Len(loads)
  BY StoreFacts, ServerFacts DEF PlanKnown, StoreKnown
<1>4. journeys[loads[i]].n \in 0..2
  BY <1>3, ServerFacts DEF PlanKnown, JourneyRow
<1>5. list \in [of: 0..MaxJourneys, n: 0..2] /\ list.of >= 1
  BY <1>3, <1>4, PlanAssumption
<1>6. selected' \in Stop \union {NoStop}
  <2>1. selected \in Stop \union {NoStop}
    BY DEF PlanKnown, StoreKnown
  <2>2. [of |-> list.of, nr |-> 1] \in Stop
    BY <1>3 DEF Stop
  <2> HIDE DEF list
  <2> QED  BY <1>2, <2>1, <2>2 DEF Selections
<1>7. current # 0
  <2>1. loads # <<>>
    BY <1>3
  <2> QED  BY <2>1 DEF PlanKnown, StoreKnown
<1>8. current \in 1..MaxJourneys /\ current <= Len(journeys)
  BY <1>7, PlanAssumption DEF PlanKnown, StoreKnown
<1>9. /\ left \in Seq(1..MaxJourneys) /\ Len(left) = Len(loads) - 1
      /\ DOMAIN left = 1..(Len(loads) - 1)
      /\ \A k \in DOMAIN left : left[k] <= Len(journeys)
  BY LoadsLeft DEF PlanKnown
<1>10. Len(loads) \in Nat /\ Len(loads) >= 1 /\ Len(loads) <= MaxAsked /\ MaxAsked \in Nat
  BY <1>3, StoreFacts, PlanAssumption DEF PlanKnown, StoreKnown
<1> HIDE DEF list, left
<1>11. /\ loads' \in Seq(1..MaxJourneys) /\ Len(loads') <= MaxAsked
       /\ \A k \in DOMAIN loads' : loads'[k] <= Len(journeys)
  <2>1. CASE again
    <3>1. loads' = Append(left, current)
      BY <1>2, <2>1
    <3>2. loads' \in Seq(1..MaxJourneys)
      BY <1>8, <1>9, <3>1, Append(left, current) \in Seq(1..MaxJourneys)
    <3>3. Len(loads') = Len(loads) /\ DOMAIN loads' = 1..Len(loads)
      BY <1>8, <1>9, <1>10, <3>1
    <3>4. \A k \in 1..(Len(loads) - 1) : loads'[k] = left[k]
      BY <1>9, <1>10, <3>1
    <3>5. loads'[Len(loads)] = current
      BY <1>9, <1>10, <3>1
    <3>6. \A k \in 1..Len(loads) : k \in 1..(Len(loads) - 1) \/ k = Len(loads)
      BY <1>10
    <3> QED  BY <1>8, <1>9, <1>10, <3>2, <3>3, <3>4, <3>5, <3>6
  <2>2. CASE ~again
    <3>1. loads' = left
      BY <1>2, <2>2
    <3> QED  BY <1>9, <1>10, <3>1
  <2> QED  BY <2>1, <2>2
<1>12. loading' \in BOOLEAN
  BY <1>2
<1>13. planError' \in BOOLEAN
  BY <1>2
<1>14. StoreKnown'
  BY <1>2, <1>5, <1>6, <1>7, <1>11, <1>12, <1>13 DEF PlanKnown, StoreKnown
<1> QED
  BY <1>1, <1>14 DEF PlanKnown

\* They do not arrive.
LEMMA KnownStopsFailed ==
    PlanKnown => \A i \in DOMAIN loads : StopsFailed(i) => PlanKnown'
<1> SUFFICES ASSUME PlanKnown, NEW i \in DOMAIN loads, StopsFailed(i)
             PROVE  PlanKnown'
  OBVIOUS
<1>1. FormKnown' /\ ServerKnown'
  BY FormStays, ServerStays DEF PlanKnown, StopsFailed
<1>2. /\ loads' \in Seq(1..MaxJourneys) /\ Len(loads') = Len(loads) - 1
      /\ \A k \in DOMAIN loads' : loads'[k] <= Len(journeys)
  BY LoadsLeft DEF PlanKnown, StopsFailed
<1>3. Len(loads') <= MaxAsked
  BY <1>2, StoreFacts, PlanAssumption DEF PlanKnown, StoreKnown
<1>4. loads # <<>>
  BY StoreFacts DEF PlanKnown
<1>5. loading' \in BOOLEAN /\ planError' \in BOOLEAN
  BY DEF StopsFailed
<1>6. StoreKnown'
  BY <1>2, <1>3, <1>4, <1>5 DEF PlanKnown, StoreKnown, StopsFailed
<1> QED
  BY <1>1, <1>6 DEF PlanKnown

\* Sharing is chosen in the form, and answered.
LEMMA KnownShareFromForm == PlanKnown /\ ShareFromForm => PlanKnown'
<1> SUFFICES ASSUME PlanKnown, ShareFromForm PROVE PlanKnown'
  OBVIOUS
<1>1. FormKnown' /\ ServerKnown'
  BY FormStays, ServerStays DEF PlanKnown, ShareFromForm
<1>2. current \in 1..MaxJourneys /\ current <= Len(journeys)
  BY PlanAssumption DEF PlanKnown, StoreKnown, ShareFromForm
<1>3. toggles' = <<current>> /\ UNCHANGED storeVars /\ UNCHANGED journeys
  BY DEF ShareFromForm
<1>4. toggles' \in Seq(1..MaxJourneys) /\ Len(toggles') = 1
  BY <1>2, <1>3
<1>5. \A k \in DOMAIN toggles' : toggles'[k] <= Len(journeys)
  BY <1>2, <1>3
<1>6. StoreKnown'
  BY <1>2, <1>3, <1>4, <1>5 DEF PlanKnown, StoreKnown, storeVars
<1> QED
  BY <1>1, <1>6 DEF PlanKnown

\* The journey of the choice is the current one again, or nothing changes.
LEMMA KnownShareAnswered == PlanKnown /\ ShareAnswered => PlanKnown'
<1> SUFFICES ASSUME PlanKnown, ShareAnswered PROVE PlanKnown'
  OBVIOUS
<1>1. FormKnown' /\ ServerKnown' /\ UNCHANGED journeys /\ toggles' = <<>>
  BY FormStays, ServerStays DEF PlanKnown, ShareAnswered
<1>2. CASE Shown(page, toggles[1], stops) /\ StoreFlags(loading, planError)
  <2>1. 1 \in DOMAIN toggles
    BY StoreFacts DEF PlanKnown, ShareAnswered
  <2>2. toggles[1] \in 0..MaxJourneys /\ toggles[1] # 0 /\ toggles[1] <= Len(journeys)
    BY <2>1, StoreFacts DEF PlanKnown, StoreKnown
  <2>3. /\ page \in {"plan", "stops", "menu"} /\ stops \in [of: 0..MaxJourneys, n: 0..2]
        /\ loading \in BOOLEAN /\ planError \in BOOLEAN /\ (stops.n > 0 => stops.of >= 1)
    BY DEF PlanKnown, StoreKnown
  <2>4. StoreKnown'
    BY <1>1, <1>2, <2>2, <2>3, KnownShown
  <2> QED  BY <1>1, <2>4 DEF PlanKnown
<1>3. CASE UNCHANGED storeVars
  <2>1. StoreKnown'
    BY <1>1, <1>3 DEF PlanKnown, StoreKnown, storeVars
  <2> QED  BY <1>1, <2>1 DEF PlanKnown
<1> QED
  BY <1>2, <1>3 DEF ShareAnswered

\* New fields over the same store.
LEMMA KnownRemountForm == PlanKnown /\ RemountForm => PlanKnown'
<1> SUFFICES ASSUME PlanKnown, RemountForm PROVE PlanKnown'
  OBVIOUS
<1>1. StoreKnown'
  BY StoreStays DEF PlanKnown, RemountForm
<1>2. FormKnown'
  <2>1. edits' \in 0..MaxEdits
    BY PlanAssumption DEF PlanKnown, FormKnown, RemountForm
  <2> QED
    BY <2>1, PlanAssumption DEF PlanKnown, FormKnown, RemountForm, Places
<1>3. ServerKnown'
  <2>1. submits \in Seq(Submission) /\ DOMAIN submits = 1..Len(submits) /\ Len(submits) \in Nat
    BY ServerFacts DEF PlanKnown, ServerKnown
  <2>2. submits' = [j \in DOMAIN submits |-> [submits[j] EXCEPT !.here = FALSE]]
    BY DEF RemountForm
  <2>3. \A k \in DOMAIN submits :
           /\ submits'[k] \in Submission
           /\ submits'[k].pc = submits[k].pc /\ submits'[k].journey = submits[k].journey
    BY <2>2, ServerFacts DEF PlanKnown, Submission
  <2>4. submits' = [j \in 1..Len(submits) |-> submits'[j]]
    BY <2>1, <2>2
  <2>5. submits' \in Seq(Submission)
    BY <2>1, <2>3, <2>4, SeqDef
  <2>6. Len(submits') = Len(submits) /\ DOMAIN submits' = DOMAIN submits
    BY <2>1, <2>2, <2>5
  <2> QED
    BY <2>3, <2>5, <2>6 DEF PlanKnown, ServerKnown, RemountForm
<1> QED
  BY <1>1, <1>2, <1>3 DEF PlanKnown

\* One step of the page, and all of them.
LEMMA PlanKnownStep ==
    PlanKnown /\ (PlanNext \/ RemountForm \/ UNCHANGED planVars) => PlanKnown'
<1> SUFFICES ASSUME PlanKnown, PlanNext \/ RemountForm \/ UNCHANGED planVars
             PROVE  PlanKnown'
  OBVIOUS
<1>1. CASE \E e \in Ends, w \in Words : TypeText(e, w) \/ PickSuggestion(e, w)
  BY <1>1, KnownTypeText, KnownPickSuggestion
<1>2. CASE \E p \in picks : PickAnswered(p)
  BY <1>2, KnownPickAnswered
<1>3. CASE Submit
  BY <1>3, KnownSubmit
<1>4. CASE \E i \in DOMAIN submits :
              \/ Resolved(i) \/ JourneyInserted(i) \/ InterceptsInserted(i) \/ JourneyFetched(i)
              \/ BuildLost(i) \/ BuildAnswered(i) \/ BuildFailed(i)
  BY <1>4, KnownResolved, KnownJourneyInserted, KnownInterceptsInserted, KnownJourneyFetched,
     KnownBuildLost, KnownBuildAnswered, KnownBuildFailed
<1>5. CASE \E pg \in {"plan", "stops", "menu"} : GoTo(pg)
  BY <1>5, KnownGoTo
<1>6. CASE \E nr \in 1..2 : SelectStop(nr)
  BY <1>6, KnownSelectStop
<1>7. CASE RefreshStops
  BY <1>7, KnownRefreshStops
<1>8. CASE \E i \in DOMAIN loads : StopsLoaded(i) \/ StopsFailed(i)
  BY <1>8, KnownStopsLoaded, KnownStopsFailed
<1>9. CASE ShareFromForm \/ ShareAnswered
  BY <1>9, KnownShareFromForm, KnownShareAnswered
<1>10. CASE RemountForm
  BY <1>10, KnownRemountForm
<1>11. CASE UNCHANGED planVars
  <2>1. FormKnown'
    BY <1>11, FormStays DEF PlanKnown, planVars, formVars
  <2>2. ServerKnown'
    BY <1>11, ServerStays DEF PlanKnown, planVars
  <2>3. StoreKnown'
    BY <1>11, StoreStays DEF PlanKnown, planVars, storeVars
  <2> QED  BY <2>1, <2>2, <2>3 DEF PlanKnown
<1> QED
  BY <1>1, <1>2, <1>3, <1>4, <1>5, <1>6, <1>7, <1>8, <1>9, <1>10, <1>11 DEF PlanNext

\* A customer who waits has one submission at a time, with nothing picked
\* meanwhile; a place is that of the text of its field, and a submission and a
\* journey are for the texts that were shown.
TypedInv ==
    planMode.tidy =>
        /\ Len(submits) <= 1
        /\ submits # <<>> => picks = {}
        /\ \A e \in Ends : place[e] \in {text[e], NoWord}
        /\ \A i \in DOMAIN submits :
              /\ submits[i].ends = submits[i].shown
              /\ submits[i].pc = "resolve" => submits[i].shown = text
              /\ \A e \in Ends : submits[i].place[e] \in {submits[i].shown[e], NoWord}
        /\ \A i \in DOMAIN journeys : journeys[i].ends = journeys[i].shown

\* At first nothing is submitted and no place is resolved.
LEMMA TypedInit == PlanInit => TypedInv
<1> SUFFICES ASSUME PlanInit PROVE TypedInv
  OBVIOUS
<1>1. DOMAIN submits = {} /\ DOMAIN journeys = {} /\ Len(submits) = 0
  BY DEF PlanInit
<1>2. \A e \in Ends : place[e] = NoWord
  BY DEF PlanInit
<1> QED
  BY <1>1, <1>2 DEF PlanInit, TypedInv

\* With one submission, it is the first, and nothing is left when it is done.
LEMMA OnlySubmission ==
    ServerKnown /\ Len(submits) <= 1 =>
        \A i \in DOMAIN submits :
            i = 1 /\ DOMAIN submits = {1} /\ Len(submits) = 1 /\ RemoveAt(submits, i) = <<>>
<1> SUFFICES ASSUME ServerKnown, Len(submits) <= 1, NEW i \in DOMAIN submits
             PROVE  i = 1 /\ DOMAIN submits = {1} /\ Len(submits) = 1 /\ RemoveAt(submits, i) = <<>>
  OBVIOUS
<1>1. DOMAIN submits = 1..Len(submits) /\ Len(submits) \in Nat
  BY ServerFacts
<1>2. Len(submits) = 1 /\ i = 1 /\ DOMAIN submits = {1}
  BY <1>1
<1>3. RemoveAt(submits, i) \in Seq(Submission) /\ Len(RemoveAt(submits, i)) = 0
  BY <1>2, SubmitsLeft
<1>4. RemoveAt(submits, i) = <<>>
  BY <1>3, EmptySeq
<1> QED
  BY <1>2, <1>4

\* The submission moves on: what it is for stays, unless it is resolved.
LEMMA TypedSubmit ==
    PlanKnown /\ TypedInv => \A i \in DOMAIN submits, u \in Submission :
        /\ submits' = [submits EXCEPT ![i] = u]
        /\ u.shown = submits[i].shown /\ u.place = submits[i].place
        /\ (u.pc # "resolve") /\ (planMode.tidy => u.ends = u.shown)
        /\ UNCHANGED <<picks, text, planMode>>
        /\ planMode.tidy => /\ \A e \in Ends : place'[e] \in {text[e], NoWord}
                            /\ \A k \in DOMAIN journeys' : journeys'[k].ends = journeys'[k].shown
        => TypedInv'
<1> SUFFICES ASSUME PlanKnown, TypedInv, NEW i \in DOMAIN submits, NEW u \in Submission,
                    submits' = [submits EXCEPT ![i] = u],
                    u.shown = submits[i].shown, u.place = submits[i].place, u.pc # "resolve",
                    planMode.tidy, u.ends = u.shown, UNCHANGED <<picks, text, planMode>>,
                    \A e \in Ends : place'[e] \in {text[e], NoWord},
                    \A k \in DOMAIN journeys' : journeys'[k].ends = journeys'[k].shown
             PROVE  TypedInv'
  BY DEF TypedInv
<1>1. i = 1 /\ DOMAIN submits = {1} /\ Len(submits) = 1
  BY OnlySubmission DEF TypedInv, PlanKnown
<1>2. Len(submits') = 1 /\ DOMAIN submits' = {1} /\ submits'[1] = u
  BY <1>1, SubmitGoesOn DEF PlanKnown
<1>3. picks' = {}
  <2>1. Len(<<>>) = 0
    OBVIOUS
  <2>2. submits # <<>>
    BY <1>1, <2>1, 0 # 1, Zenon
  <2> QED  BY <2>2 DEF TypedInv
<1>4. \A e \in Ends : u.place[e] \in {u.shown[e], NoWord}
  BY DEF TypedInv
<1>5. /\ submits'[1].ends = submits'[1].shown /\ submits'[1].pc # "resolve"
      /\ \A e \in Ends : submits'[1].place[e] \in {submits'[1].shown[e], NoWord}
  BY <1>2, <1>4
<1> QED
  BY <1>2, <1>3, <1>5 DEF TypedInv

\* The submission is done, whatever becomes of the form.
LEMMA TypedDone ==
    PlanKnown /\ TypedInv => \A i \in DOMAIN submits :
        /\ planMode.tidy => /\ submits' = <<>>
                            /\ \A e \in Ends : place'[e] \in {text'[e], NoWord}
        /\ UNCHANGED <<journeys, planMode>>
        => TypedInv'
<1> SUFFICES ASSUME TypedInv, planMode.tidy, submits' = <<>>, UNCHANGED <<journeys, planMode>>,
                    \A e \in Ends : place'[e] \in {text'[e], NoWord}
             PROVE  TypedInv'
  BY DEF TypedInv
<1>1. Len(submits') = 0 /\ DOMAIN submits' = {}
  OBVIOUS
<1> QED
  BY <1>1 DEF TypedInv

\* Nothing of it changes.
LEMMA TypedStays ==
    TypedInv /\ UNCHANGED <<text, place, picks, submits, journeys, planMode>> => TypedInv'
  BY DEF TypedInv

\* The form changes while nothing is submitted.
LEMMA TypedEdit ==
    TypedInv /\ UNCHANGED <<journeys, planMode>>
    /\ (planMode.tidy => /\ submits = <<>> /\ submits' = <<>>
                         /\ \A e \in Ends : place'[e] \in {text'[e], NoWord})
    => TypedInv'
<1> SUFFICES ASSUME TypedInv, planMode.tidy, submits' = <<>>, UNCHANGED <<journeys, planMode>>,
                    \A e \in Ends : place'[e] \in {text'[e], NoWord}
             PROVE  TypedInv'
  BY DEF TypedInv
<1>1. Len(submits') = 0 /\ DOMAIN submits' = {}
  OBVIOUS
<1> QED
  BY <1>1 DEF TypedInv

\* Typing clears the place of the field.
LEMMA TypedTypeText ==
    PlanKnown /\ TypedInv => \A e \in Ends, w \in Words : TypeText(e, w) => TypedInv'
<1> SUFFICES ASSUME PlanKnown, TypedInv, NEW e \in Ends, NEW w \in Words, TypeText(e, w)
             PROVE  TypedInv'
  OBVIOUS
<1>1. /\ UNCHANGED <<journeys, planMode, submits>> /\ (planMode.tidy => submits = <<>>)
      /\ text' = [text EXCEPT ![e] = w] /\ place' = [place EXCEPT ![e] = NoWord]
  BY DEF TypeText, MayEdit
<1>2. text \in [Ends -> Words] /\ place \in [Ends -> Words \union {NoWord}]
  BY DEF PlanKnown, FormKnown, Draft, Places
<1>3. planMode.tidy => \A k \in Ends : place'[k] \in {text'[k], NoWord}
  BY <1>1, <1>2 DEF TypedInv
<1> QED
  BY <1>1, <1>3, TypedEdit

\* A suggestion puts its text and its place into the field together, or no place.
LEMMA TypedPickAnswered ==
    PlanKnown /\ TypedInv => \A p \in picks : PickAnswered(p) => TypedInv'
<1> SUFFICES ASSUME PlanKnown, TypedInv, NEW p \in picks, PickAnswered(p)
             PROVE  TypedInv'
  OBVIOUS
<1>1. /\ UNCHANGED <<journeys, planMode, submits>>
      /\ text' = [text EXCEPT ![p.end] = p.word]
      /\ \E pg \in {p.word, NoWord} : place' = [place EXCEPT ![p.end] = pg]
  BY DEF PickAnswered
<1>2. text \in [Ends -> Words] /\ place \in [Ends -> Words \union {NoWord}] /\ p.end \in Ends
  BY DEF PlanKnown, FormKnown, Draft, Places
<1>3. planMode.tidy => submits = <<>>
  BY DEF TypedInv
<1>4. planMode.tidy => \A k \in Ends : place'[k] \in {text'[k], NoWord}
  BY <1>1, <1>2 DEF TypedInv
<1> QED
  BY <1>1, <1>3, <1>4, TypedEdit

\* Clicking a suggestion changes nothing in the field yet.
LEMMA TypedPickSuggestion ==
    TypedInv => \A e \in Ends, w \in Words : PickSuggestion(e, w) => TypedInv'
  BY TypedEdit DEF TypedInv, PickSuggestion, MayEdit

\* What is submitted is what stands in the form.
LEMMA TypedSubmitted == PlanKnown /\ TypedInv /\ Submit => TypedInv'
<1> SUFFICES ASSUME PlanKnown, TypedInv, Submit, planMode.tidy PROVE TypedInv'
  BY DEF TypedInv, Submit
<1> DEFINE u == [pc |-> "resolve", shown |-> text, place |-> place, ends |-> text,
                 journey |-> 0, here |-> TRUE, n |-> 0]
<1>1. /\ submits = <<>> /\ picks = {} /\ submits' = Append(submits, u)
      /\ UNCHANGED <<text, place, picks, journeys, planMode>>
  BY DEF Submit, MayEdit, formVars
<1>2. u.ends = u.shown /\ u.shown = text /\ \A e \in Ends : u.place[e] \in {u.shown[e], NoWord}
  BY DEF TypedInv
<1> HIDE DEF u
<1>3. Append(<<>>, u) = <<u>>
  OBVIOUS
<1>4. Len(submits') = 1 /\ DOMAIN submits' = {1} /\ submits'[1] = u
  BY <1>1, <1>3
<1> QED
  BY <1>1, <1>2, <1>4 DEF TypedInv

\* What is resolved for a text is that text.
LEMMA TypedResolved ==
    PlanKnown /\ TypedInv => \A i \in DOMAIN submits : Resolved(i) => TypedInv'
<1> SUFFICES ASSUME PlanKnown, TypedInv, NEW i \in DOMAIN submits, Resolved(i)
             PROVE  TypedInv'
  OBVIOUS
<1> DEFINE s == submits[i]
<1>1. s \in Submission /\ submits \in Seq(Submission)
  BY ServerFacts DEF PlanKnown, ServerKnown
<1>2. PICK r \in Resolutions(s) :
         LET both == NoWord \notin {r["from"], r["to"]}
             ok == both => InBand(r["from"], r["to"])
         IN  /\ place' = IF both /\ s.here THEN r ELSE place
             /\ \/ /\ ~ok
                   /\ submits' = RemoveAt(submits, i)
                   /\ UNCHANGED <<loading, planError>>
                \/ /\ ok
                   /\ submits' = [submits EXCEPT ![i].pc = "analyze",
                         ![i].ends = [e \in Ends |-> IF r[e] = NoWord THEN s.shown[e] ELSE r[e]]]
                   /\ loading' = TRUE /\ planError' = FALSE
  BY DEF Resolved
<1>3. r \in Places
  BY DEF Resolutions, Places
<1>4. UNCHANGED <<text, picks, journeys, planMode>> /\ s.pc = "resolve"
  BY DEF Resolved
<1>5. planMode.tidy => \A e \in Ends : r[e] \in {s.shown[e], NoWord}
  BY DEF Resolutions, TypedInv
<1>6. planMode.tidy => s.shown = text
  BY <1>4 DEF TypedInv
<1>7. place' = r \/ place' = place
  BY <1>2
<1>8. planMode.tidy => \A e \in Ends : place'[e] \in {text[e], NoWord}
  BY <1>5, <1>6, <1>7 DEF TypedInv
<1>9. CASE submits' = RemoveAt(submits, i)
  <2>1. planMode.tidy => submits' = <<>>
    BY <1>9, OnlySubmission DEF PlanKnown, TypedInv
  <2> QED  BY <1>4, <1>8, <2>1, TypedDone
<1>10. CASE submits' = [submits EXCEPT ![i].pc = "analyze",
                 ![i].ends = [e \in Ends |-> IF r[e] = NoWord THEN s.shown[e] ELSE r[e]]]
  <2> DEFINE d == [e \in Ends |-> IF r[e] = NoWord THEN s.shown[e] ELSE r[e]]
             u == [[s EXCEPT !.pc = "analyze"] EXCEPT !.ends = d]
  <2>1. d \in Draft
    BY <1>1, <1>3 DEF Submission, Draft, Places
  <2>2. submits' = [submits EXCEPT ![i] = u]
    BY <1>1, <1>10
  <2>3. planMode.tidy => d = s.shown
    <3>1. s.shown \in [Ends -> Words]
      BY <1>1 DEF Submission, Draft
    <3> QED  BY <1>5, <3>1
  <2> HIDE DEF d
  <2>4. /\ u \in Submission /\ u.pc # "resolve" /\ u.ends = d /\ u.shown = s.shown
        /\ u.place = s.place
    BY <1>1, <2>1 DEF Submission
  <2> HIDE DEF u
  <2>5. planMode.tidy => \A k \in DOMAIN journeys' : journeys'[k].ends = journeys'[k].shown
    BY <1>4 DEF TypedInv
  <2> QED  BY <1>4, <1>8, <2>2, <2>3, <2>4, <2>5, TypedSubmit
<1> QED
  BY <1>2, <1>9, <1>10

\* The server keeps what the submission is for.
LEMMA TypedServer ==
    PlanKnown /\ TypedInv => \A i \in DOMAIN submits :
        JourneyInserted(i) \/ InterceptsInserted(i) \/ JourneyFetched(i) \/ BuildLost(i) => TypedInv'
<1> SUFFICES ASSUME PlanKnown, TypedInv, NEW i \in DOMAIN submits,
                    JourneyInserted(i) \/ InterceptsInserted(i) \/ JourneyFetched(i) \/ BuildLost(i)
             PROVE  TypedInv'
  OBVIOUS
<1> DEFINE s == submits[i]
<1>1. s \in Submission /\ submits \in Seq(Submission)
  BY ServerFacts DEF PlanKnown, ServerKnown
<1>2. planMode.tidy => s.ends = s.shown /\ \A e \in Ends : place[e] \in {text[e], NoWord}
  BY DEF TypedInv
<1>3. journeys \in Seq(JourneyRow) /\ DOMAIN journeys = 1..Len(journeys) /\ Len(journeys) \in Nat
  BY ServerFacts DEF PlanKnown, ServerKnown
<1>4. CASE JourneyInserted(i)
  <2> DEFINE added == [shown |-> s.shown, ends |-> s.ends, n |-> 0]
             u == [[s EXCEPT !.pc = "stored"] EXCEPT !.journey = Len(journeys) + 1]
  <2>1. /\ UNCHANGED <<text, place, picks, planMode>> /\ journeys' = Append(journeys, added)
        /\ Len(journeys) < MaxJourneys
    BY <1>4 DEF JourneyInserted, formVars
  <2>2. submits' = [submits EXCEPT ![i] = u]
    BY <1>1, <1>4 DEF JourneyInserted
  <2>3. u \in Submission /\ u.pc # "resolve" /\ u.ends = s.ends /\ u.shown = s.shown /\ u.place = s.place
    <3>1. Len(journeys) + 1 \in 0..MaxJourneys
      BY <1>3, <2>1, PlanAssumption
    <3> QED  BY <1>1, <3>1 DEF Submission
  <2> HIDE DEF u
  <2>4. added \in JourneyRow /\ added.ends = s.ends /\ added.shown = s.shown
    BY <1>1 DEF Submission, JourneyRow
  <2> HIDE DEF added
  <2>5. ASSUME planMode.tidy, NEW k \in DOMAIN journeys'
        PROVE  journeys'[k].ends = journeys'[k].shown
    <3>1. DOMAIN journeys' = 1..(Len(journeys) + 1)
      BY <1>3, <2>1, <2>4
    <3>2. CASE k = Len(journeys) + 1
      <4>1. journeys'[k] = added
        BY <1>3, <2>1, <2>4, <3>2
      <4> QED  BY <1>2, <2>4, <2>5, <4>1
    <3>3. CASE k # Len(journeys) + 1
      <4>1. k \in DOMAIN journeys
        BY <1>3, <3>1, <3>3
      <4>2. journeys'[k] = journeys[k]
        BY <1>3, <2>1, <2>4, <4>1
      <4> QED  BY <2>5, <4>1, <4>2 DEF TypedInv
    <3> QED  BY <3>2, <3>3
  <2> QED  BY <1>2, <2>1, <2>2, <2>3, <2>5, TypedSubmit
<1>5. CASE InterceptsInserted(i)
  <2> DEFINE u == [s EXCEPT !.pc = "analyzed"]
  <2>1. PICK n \in 0..2 : journeys' = [journeys EXCEPT ![s.journey].n = n]
    BY <1>5 DEF InterceptsInserted
  <2>2. submits' = [submits EXCEPT ![i] = u] /\ UNCHANGED <<text, place, picks, planMode>>
    BY <1>1, <1>5 DEF InterceptsInserted, formVars
  <2>3. u \in Submission /\ u.pc # "resolve" /\ u.ends = s.ends /\ u.shown = s.shown /\ u.place = s.place
    BY <1>1 DEF Submission
  <2> HIDE DEF u
  <2>4. ASSUME planMode.tidy, NEW k \in DOMAIN journeys'
        PROVE  journeys'[k].ends = journeys'[k].shown
    <3>1. k \in DOMAIN journeys /\ journeys[k] \in JourneyRow
      BY <2>1, ServerFacts DEF PlanKnown
    <3>2. journeys'[k].ends = journeys[k].ends /\ journeys'[k].shown = journeys[k].shown
      BY <1>3, <2>1, <3>1 DEF JourneyRow
    <3> QED  BY <2>4, <3>1, <3>2 DEF TypedInv
  <2> QED  BY <1>2, <2>2, <2>3, <2>4, TypedSubmit
<1>6. CASE JourneyFetched(i)
  <2> DEFINE u == [[s EXCEPT !.pc = "fetched"] EXCEPT !.n = journeys[s.journey].n]
  <2>1. submits' = [submits EXCEPT ![i] = u] /\ UNCHANGED <<text, place, picks, journeys, planMode>>
    BY <1>1, <1>6 DEF JourneyFetched, formVars
  <2>2. s.journey \in 1..Len(journeys)
    BY <1>6 DEF PlanKnown, ServerKnown, JourneyFetched
  <2>3. journeys[s.journey].n \in 0..2
    BY <2>2, ServerFacts DEF PlanKnown, JourneyRow
  <2>4. u \in Submission /\ u.pc # "resolve" /\ u.ends = s.ends /\ u.shown = s.shown /\ u.place = s.place
    BY <1>1, <2>3 DEF Submission
  <2> HIDE DEF u
  <2>5. planMode.tidy => \A k \in DOMAIN journeys' : journeys'[k].ends = journeys'[k].shown
    BY <2>1 DEF TypedInv
  <2> QED  BY <1>2, <2>1, <2>4, <2>5, TypedSubmit
<1>7. CASE BuildLost(i)
  <2> DEFINE u == [s EXCEPT !.pc = "failed"]
  <2>1. submits' = [submits EXCEPT ![i] = u] /\ UNCHANGED <<text, place, picks, journeys, planMode>>
    BY <1>1, <1>7 DEF BuildLost, formVars
  <2>2. u \in Submission /\ u.pc # "resolve" /\ u.ends = s.ends /\ u.shown = s.shown /\ u.place = s.place
    BY <1>1 DEF Submission
  <2> HIDE DEF u
  <2>3. planMode.tidy => \A k \in DOMAIN journeys' : journeys'[k].ends = journeys'[k].shown
    BY <2>1 DEF TypedInv
  <2> QED  BY <1>2, <2>1, <2>2, <2>3, TypedSubmit
<1> QED
  BY <1>4, <1>5, <1>6, <1>7

\* The submission ends, and the form may go with it.
LEMMA TypedBuilt ==
    PlanKnown /\ TypedInv => \A i \in DOMAIN submits :
        BuildAnswered(i) \/ BuildFailed(i) => TypedInv'
<1> SUFFICES ASSUME PlanKnown, TypedInv, NEW i \in DOMAIN submits,
                    BuildAnswered(i) \/ BuildFailed(i)
             PROVE  TypedInv'
  OBVIOUS
<1>1. planMode.tidy => RemoveAt(submits, i) = <<>> /\ \A e \in Ends : place[e] \in {text[e], NoWord}
  BY OnlySubmission DEF PlanKnown, TypedInv
<1>2. CASE BuildFailed(i)
  BY <1>1, <1>2, TypedDone DEF BuildFailed, formVars
<1>3. CASE BuildAnswered(i)
  <2>1. PICK pg \in {page, "stops"} : Forms(pg, RemoveAt(submits, i))
    BY <1>3 DEF BuildAnswered
  <2>2. UNCHANGED <<journeys, planMode>>
    BY <1>3 DEF BuildAnswered
  <2>3. CASE pg = page
    BY <1>1, <2>1, <2>2, <2>3, TypedDone DEF Forms
  <2>4. CASE pg # page
    <3>1. /\ submits' = [j \in DOMAIN RemoveAt(submits, i) |->
                            [RemoveAt(submits, i)[j] EXCEPT !.here = FALSE]]
          /\ place' = [e \in Ends |-> NoWord]
      BY <2>1, <2>4 DEF Forms
    <3>2. planMode.tidy => submits' = <<>>
      BY <1>1, <3>1
    <3> QED  BY <2>2, <3>1, <3>2, TypedDone
  <2> QED  BY <2>3, <2>4
<1> QED
  BY <1>2, <1>3

\* The form is gone with nothing submitted.
LEMMA TypedGone ==
    TypedInv /\ MayEdit /\ UNCHANGED <<journeys, planMode>>
    /\ submits' = [j \in DOMAIN submits |-> [submits[j] EXCEPT !.here = FALSE]]
    /\ place' = [e \in Ends |-> NoWord]
    => TypedInv'
<1> SUFFICES ASSUME TypedInv, planMode.tidy, submits = <<>>, UNCHANGED <<journeys, planMode>>,
                    submits' = [j \in DOMAIN submits |-> [submits[j] EXCEPT !.here = FALSE]],
                    place' = [e \in Ends |-> NoWord]
             PROVE  TypedInv'
  BY DEF TypedInv, MayEdit
<1>1. submits' = <<>>
  OBVIOUS
<1> QED
  BY <1>1, TypedEdit

\* The form goes when the page changes, with nothing submitted.
LEMMA TypedGoTo == TypedInv => \A pg \in {"plan", "stops", "menu"} : GoTo(pg) => TypedInv'
  BY TypedGone DEF GoTo, Forms

\* One step of the page keeps it.
LEMMA TypedStep ==
    PlanKnown /\ TypedInv /\ (PlanNext \/ RemountForm \/ UNCHANGED planVars) => TypedInv'
<1> SUFFICES ASSUME PlanKnown, TypedInv, PlanNext \/ RemountForm \/ UNCHANGED planVars
             PROVE  TypedInv'
  OBVIOUS
<1>1. CASE \E e \in Ends, w \in Words : TypeText(e, w) \/ PickSuggestion(e, w)
  BY <1>1, TypedTypeText, TypedPickSuggestion
<1>2. CASE \E p \in picks : PickAnswered(p)
  BY <1>2, TypedPickAnswered
<1>3. CASE Submit
  BY <1>3, TypedSubmitted
<1>4. CASE \E i \in DOMAIN submits :
              \/ Resolved(i) \/ JourneyInserted(i) \/ InterceptsInserted(i) \/ JourneyFetched(i)
              \/ BuildLost(i) \/ BuildAnswered(i) \/ BuildFailed(i)
  BY <1>4, TypedResolved, TypedServer, TypedBuilt
<1>5. CASE \E pg \in {"plan", "stops", "menu"} : GoTo(pg)
  BY <1>5, TypedGoTo
<1>6. CASE \E nr \in 1..2 : SelectStop(nr)
  BY <1>6, TypedStays DEF SelectStop, formVars
<1>7. CASE RefreshStops
  BY <1>7, TypedStays DEF RefreshStops, formVars
<1>8. CASE \E i \in DOMAIN loads : StopsLoaded(i) \/ StopsFailed(i)
  BY <1>8, TypedStays DEF StopsLoaded, StopsFailed, formVars
<1>9. CASE ShareFromForm \/ ShareAnswered
  BY <1>9, TypedStays DEF ShareFromForm, ShareAnswered, formVars
<1>10. CASE RemountForm
  BY <1>10, TypedGone DEF RemountForm
<1>11. CASE UNCHANGED planVars
  BY <1>11, TypedStays DEF planVars
<1> QED
  BY <1>1, <1>2, <1>3, <1>4, <1>5, <1>6, <1>7, <1>8, <1>9, <1>10, <1>11 DEF PlanNext

\* He who waits, also for the stops, has one load of stops under way at most, for
\* the journey of the store, and none while he plans another.
StopsInv ==
    planMode.tidy /\ planMode.patient =>
        /\ loads # <<>> => loading /\ loads = <<current>>
        /\ submits # <<>> => loads = <<>> /\ toggles = <<>>
        /\ toggles # <<>> => toggles = <<current>>
        /\ stops.n > 0 => stops.of = current

\* At first there are no stops and no journey.
LEMMA StopsInit == PlanInit => StopsInv
<1> SUFFICES ASSUME PlanInit PROVE StopsInv
  OBVIOUS
<1>1. loads = <<>> /\ submits = <<>> /\ toggles = <<>> /\ ~(stops.n > 0)
  BY DEF PlanInit, NoStops
<1> QED
  BY <1>1 DEF StopsInv

\* The store and the requests for it stay.
LEMMA StopsStay ==
    /\ StopsInv /\ UNCHANGED <<current, stops, loading, loads, toggles, planMode>>
    /\ submits # <<>> \/ submits' = <<>>
    => StopsInv'
  BY DEF StopsInv

\* A submission that moves on is still there, and was.
LEMMA MovesOn ==
    ServerKnown => \A i \in DOMAIN submits : submits # <<>>
<1> SUFFICES ASSUME ServerKnown, NEW i \in DOMAIN submits, submits = <<>> PROVE FALSE
  OBVIOUS
<1>1. DOMAIN submits = {}
  OBVIOUS
<1> QED
  BY <1>1

\* What is shown afterwards, for the journey of the store: with no load under way
\* one may start, and otherwise none does.
LEMMA StopsShown ==
    PlanKnown => \A pg \in {"plan", "stops", "menu"}, cur \in 0..MaxJourneys,
                    list \in [of: 0..MaxJourneys, n: 0..2], raised \in BOOLEAN, failed \in BOOLEAN :
        /\ Shown(pg, cur, list) /\ StoreFlags(raised, failed)
        => /\ current' = cur /\ stops' = list
           /\ loads = <<>> => loads' = <<>> \/ (loading' /\ loads' = <<cur>>)
           /\ loads' = loads => loading' = raised
<1> SUFFICES ASSUME PlanKnown, NEW pg \in {"plan", "stops", "menu"}, NEW cur \in 0..MaxJourneys,
                    NEW list \in [of: 0..MaxJourneys, n: 0..2],
                    NEW raised \in BOOLEAN, NEW failed \in BOOLEAN,
                    Shown(pg, cur, list), StoreFlags(raised, failed)
             PROVE  /\ current' = cur /\ stops' = list
                    /\ loads = <<>> => loads' = <<>> \/ (loading' /\ loads' = <<cur>>)
                    /\ loads' = loads => loading' = raised
  OBVIOUS
<1>1. current' = cur /\ stops' = list /\ (loads' = loads \/ loads' = Append(loads, cur))
  BY DEF Shown
<1>2. loading' = (raised \/ Len(loads') > Len(loads))
  BY DEF StoreFlags
<1>3. Len(loads) \in Nat
  BY StoreFacts DEF PlanKnown
<1>4. loads' = loads => loading' = raised
  <2> SUFFICES ASSUME loads' = loads PROVE loading' = raised
    OBVIOUS
  <2>1. ~(Len(loads') > Len(loads))
    BY <1>3
  <2> QED  BY <1>2, <2>1
<1>5. ASSUME loads = <<>>, loads' = Append(loads, cur)
      PROVE  loading' /\ loads' = <<cur>>
  <2>1. Append(<<>>, cur) = <<cur>> /\ Len(<<cur>>) = 1 /\ Len(<<>>) = 0
    OBVIOUS
  <2>2. Len(loads') > Len(loads)
    BY <1>5, <2>1
  <2> QED  BY <1>2, <1>5, <2>1, <2>2
<1> QED
  BY <1>1, <1>4, <1>5

\* A journey comes with its stops, when none are being loaded.
LEMMA StopsBuilt ==
    PlanKnown /\ TypedInv /\ StopsInv => \A i \in DOMAIN submits : BuildAnswered(i) => StopsInv'
<1> SUFFICES ASSUME PlanKnown, TypedInv, StopsInv, NEW i \in DOMAIN submits, BuildAnswered(i),
                    planMode.tidy, planMode.patient
             PROVE  StopsInv'
  BY DEF StopsInv, BuildAnswered
<1> DEFINE s == submits[i]
           list == [of |-> s.journey, n |-> s.n]
<1>1. s \in Submission
  BY ServerFacts DEF PlanKnown
<1>2. PICK pg \in {page, "stops"} :
         /\ Shown(pg, s.journey, list) /\ StoreFlags(FALSE, planError)
         /\ Forms(pg, RemoveAt(submits, i))
  BY DEF BuildAnswered
<1>3. loads = <<>> /\ toggles = <<>> /\ toggles' = toggles /\ planMode' = planMode
  BY MovesOn DEF PlanKnown, StopsInv, BuildAnswered
<1>4. RemoveAt(submits, i) = <<>>
  BY OnlySubmission DEF PlanKnown, TypedInv
<1>5. submits' = <<>>
  BY <1>2, <1>4 DEF Forms
<1>6. /\ pg \in {"plan", "stops", "menu"} /\ planError \in BOOLEAN /\ FALSE \in BOOLEAN
      /\ s.journey \in 0..MaxJourneys /\ list \in [of: 0..MaxJourneys, n: 0..2]
      /\ list.of = s.journey
  BY <1>1 DEF PlanKnown, StoreKnown, Submission
<1> HIDE DEF list
<1>7. /\ current' = s.journey /\ stops' = list
      /\ loads' = <<>> \/ (loading' /\ loads' = <<s.journey>>)
  BY <1>2, <1>3, <1>6, StopsShown
<1> QED
  BY <1>3, <1>5, <1>6, <1>7 DEF StopsInv

\* The page of stops asks for them when it opens, with no load under way.
LEMMA StopsGoTo ==
    PlanKnown /\ StopsInv => \A pg \in {"plan", "stops", "menu"} : GoTo(pg) => StopsInv'
<1> SUFFICES ASSUME PlanKnown, StopsInv, NEW pg \in {"plan", "stops", "menu"}, GoTo(pg),
                    planMode.tidy, planMode.patient
             PROVE  StopsInv'
  BY DEF StopsInv, GoTo
<1>1. /\ submits = <<>> /\ toggles = <<>> /\ toggles' = toggles /\ planMode' = planMode
      /\ (pg = "stops" => ~loading) /\ pg # page
      /\ Shown(pg, current, stops) /\ StoreFlags(loading, planError) /\ Forms(pg, submits)
  BY DEF GoTo, MayEdit
<1>2. /\ current \in 0..MaxJourneys /\ stops \in [of: 0..MaxJourneys, n: 0..2]
      /\ loading \in BOOLEAN /\ planError \in BOOLEAN
  BY DEF PlanKnown, StoreKnown
<1>3. /\ current' = current /\ stops' = stops
      /\ loads = <<>> => loads' = <<>> \/ (loading' /\ loads' = <<current>>)
      /\ loads' = loads => loading' = loading
  BY <1>1, <1>2, StopsShown
<1>4. submits' = <<>>
  BY <1>1 DEF Forms
<1>5. pg # "stops" => loads' = loads
  BY <1>1 DEF Shown
<1>6. pg = "stops" => loads = <<>>
  BY <1>1 DEF StopsInv
<1> QED
  BY <1>1, <1>3, <1>4, <1>5, <1>6 DEF StopsInv

\* So does its refresh.
LEMMA StopsRefreshed == PlanKnown /\ StopsInv /\ RefreshStops => StopsInv'
<1> SUFFICES ASSUME StopsInv, RefreshStops, planMode.tidy, planMode.patient PROVE StopsInv'
  BY DEF StopsInv, RefreshStops
<1>1. /\ loads = <<>> /\ submits = <<>> /\ loads' = Append(loads, current) /\ loading' = TRUE
      /\ toggles = <<>> /\ UNCHANGED <<submits, current, stops, toggles, planMode>>
  BY DEF RefreshStops, MayEdit, StopsInv, formVars
<1>2. Append(<<>>, current) = <<current>>
  OBVIOUS
<1> QED
  BY <1>1, <1>2 DEF StopsInv

\* With one load, nothing is left when it is answered.
LEMMA OnlyLoad ==
    StoreKnown /\ loads = <<current>> => \A i \in DOMAIN loads : i = 1 /\ RemoveAt(loads, i) = <<>>
<1> SUFFICES ASSUME StoreKnown, loads = <<current>>, NEW i \in DOMAIN loads
             PROVE  i = 1 /\ RemoveAt(loads, i) = <<>>
  OBVIOUS
<1>1. i = 1 /\ Len(loads) = 1
  OBVIOUS
<1>2. RemoveAt(loads, i) \in Seq(1..MaxJourneys) /\ Len(RemoveAt(loads, i)) = 0
  BY <1>1, LoadsLeft
<1> QED
  BY <1>1, <1>2, EmptySeq

\* The answer is for the journey of the store, since no other arrived meanwhile.
LEMMA StopsAnswered ==
    PlanKnown /\ StopsInv => \A i \in DOMAIN loads : StopsLoaded(i) \/ StopsFailed(i) => StopsInv'
<1> SUFFICES ASSUME PlanKnown, StopsInv, NEW i \in DOMAIN loads, StopsLoaded(i) \/ StopsFailed(i),
                    planMode.tidy, planMode.patient
             PROVE  StopsInv'
  BY DEF StopsInv, StopsLoaded, StopsFailed
<1>1. loads # <<>>
  BY StoreFacts DEF PlanKnown
<1>2. loads = <<current>> /\ submits = <<>>
  BY <1>1 DEF StopsInv
<1>3. i = 1 /\ RemoveAt(loads, i) = <<>> /\ loads[i] = current
  BY <1>2, OnlyLoad DEF PlanKnown
<1>4. UNCHANGED <<submits, current, toggles, planMode>>
  BY DEF StopsLoaded, StopsFailed
<1>5. CASE StopsFailed(i)
  <2>1. loads' = <<>> /\ stops' = stops
    BY <1>3, <1>5 DEF StopsFailed
  <2> QED  BY <1>2, <1>4, <2>1 DEF StopsInv
<1>6. CASE StopsLoaded(i)
  <2>1. stops'.of = current
    BY <1>3, <1>6 DEF StopsLoaded
  <2>2. loads' = <<>> \/ (loading' /\ loads' = <<current>>)
    <3> DEFINE again == page = "stops" /\ journeys[loads[i]].n = 0 /\ stops.n > 0
    <3>1. /\ loads' = IF again THEN Append(RemoveAt(loads, i), current) ELSE RemoveAt(loads, i)
          /\ loading' = again
      BY <1>6 DEF StopsLoaded
    <3>2. Append(<<>>, current) = <<current>>
      OBVIOUS
    <3> HIDE DEF again
    <3> QED  BY <1>3, <3>1, <3>2
  <2> QED  BY <1>2, <1>4, <2>1, <2>2 DEF StopsInv
<1> QED
  BY <1>5, <1>6

\* The journey of the choice about sharing is still the one of the store.
LEMMA StopsShareAnswered == PlanKnown /\ StopsInv /\ ShareAnswered => StopsInv'
<1> SUFFICES ASSUME PlanKnown, StopsInv, ShareAnswered, planMode.tidy, planMode.patient
             PROVE  StopsInv'
  BY DEF StopsInv, ShareAnswered
<1>1. /\ toggles = <<current>> /\ submits = <<>> /\ toggles' = <<>>
      /\ UNCHANGED <<submits, planMode>>
  BY DEF StopsInv, ShareAnswered
<1>2. CASE UNCHANGED storeVars
  BY <1>1, <1>2 DEF StopsInv, storeVars
<1>3. CASE Shown(page, toggles[1], stops) /\ StoreFlags(loading, planError)
  <2>1. toggles[1] = current
    BY <1>1
  <2>2. /\ current \in 0..MaxJourneys /\ stops \in [of: 0..MaxJourneys, n: 0..2]
        /\ loading \in BOOLEAN /\ planError \in BOOLEAN /\ page \in {"plan", "stops", "menu"}
    BY DEF PlanKnown, StoreKnown
  <2>3. loads' = loads
    BY <1>3, <2>1 DEF Shown
  <2>4. current' = current /\ stops' = stops /\ loading' = loading
    BY <1>3, <2>1, <2>2, <2>3, StopsShown
  <2> QED  BY <1>1, <2>3, <2>4 DEF StopsInv
<1> QED
  BY <1>2, <1>3 DEF ShareAnswered

\* One step of the page keeps it.
LEMMA StopsStep ==
    PlanKnown /\ TypedInv /\ StopsInv /\ (PlanNext \/ RemountForm \/ UNCHANGED planVars) => StopsInv'
<1> SUFFICES ASSUME PlanKnown, TypedInv, StopsInv, PlanNext \/ RemountForm \/ UNCHANGED planVars
             PROVE  StopsInv'
  OBVIOUS
<1>1. CASE \E e \in Ends, w \in Words : TypeText(e, w) \/ PickSuggestion(e, w)
  <2>1. UNCHANGED <<current, stops, loading, loads, toggles, planMode, submits>>
    BY <1>1 DEF TypeText, PickSuggestion, storeVars
  <2> QED  BY <2>1, StopsStay
<1>2. CASE \E p \in picks : PickAnswered(p)
  <2>1. UNCHANGED <<current, stops, loading, loads, toggles, planMode, submits>>
    BY <1>2 DEF PickAnswered, storeVars
  <2> QED  BY <2>1, StopsStay
<1>3. CASE Submit
  <2>1. UNCHANGED <<current, stops, loading, loads, toggles, planMode>>
    BY <1>3 DEF Submit, storeVars
  <2>2. ~loading /\ (planMode.tidy => toggles = <<>>)
    BY <1>3 DEF Submit, SubmitAllowed, MayEdit
  <2> QED  BY <2>1, <2>2 DEF StopsInv
<1>4. CASE \E i \in DOMAIN submits :
              JourneyInserted(i) \/ InterceptsInserted(i) \/ JourneyFetched(i) \/ BuildLost(i)
  <2>1. UNCHANGED <<current, stops, loading, loads, toggles, planMode>>
    BY <1>4 DEF JourneyInserted, InterceptsInserted, JourneyFetched, BuildLost, storeVars
  <2>2. submits # <<>>
    BY <1>4, MovesOn DEF PlanKnown
  <2> QED  BY <2>1, <2>2, StopsStay
<1>5. CASE \E i \in DOMAIN submits : Resolved(i) \/ BuildFailed(i)
  <2>1. UNCHANGED <<current, stops, loads, toggles, planMode>>
    BY <1>5 DEF Resolved, BuildFailed
  <2>2. submits # <<>>
    BY <1>5, MovesOn DEF PlanKnown
  <2> QED  BY <2>1, <2>2 DEF StopsInv
<1>6. CASE \E i \in DOMAIN submits : BuildAnswered(i)
  BY <1>6, StopsBuilt
<1>7. CASE \E pg \in {"plan", "stops", "menu"} : GoTo(pg)
  BY <1>7, StopsGoTo
<1>8. CASE \E nr \in 1..2 : SelectStop(nr)
  <2>1. UNCHANGED <<current, stops, loading, loads, toggles, planMode, submits>>
    BY <1>8 DEF SelectStop
  <2> QED  BY <2>1, StopsStay
<1>9. CASE RefreshStops
  BY <1>9, StopsRefreshed
<1>10. CASE \E i \in DOMAIN loads : StopsLoaded(i) \/ StopsFailed(i)
  BY <1>10, StopsAnswered
<1>11. CASE ShareFromForm
  <2>1. toggles' = <<current>> /\ UNCHANGED <<current, stops, loading, loads, planMode, submits>>
    BY <1>11 DEF ShareFromForm, storeVars
  <2>2. planMode.tidy => submits = <<>>
    BY <1>11 DEF ShareFromForm, MayEdit
  <2> QED  BY <2>1, <2>2 DEF StopsInv
<1>12. CASE ShareAnswered
  BY <1>12, StopsShareAnswered
<1>13. CASE RemountForm
  <2>1. UNCHANGED <<current, stops, loading, loads, toggles, planMode>>
    BY <1>13 DEF RemountForm, storeVars
  <2>2. submits = <<>> => submits' = <<>>
    BY <1>13 DEF RemountForm
  <2> QED  BY <2>1, <2>2, StopsStay
<1>14. CASE UNCHANGED planVars
  BY <1>14, StopsStay DEF planVars
<1> QED
  BY <1>1, <1>2, <1>3, <1>4, <1>5, <1>6, <1>7, <1>8, <1>9, <1>10, <1>11, <1>12, <1>13, <1>14
  DEF PlanNext

-----------------------------------------------------------------------------
(* The fields of its form.                                                 *)

Offer == [word: Words \union {NoWord}, anchor: Words \union {NoWord}]

FieldKnown ==
    /\ script \in {"loading", "ready", "failed"}
    /\ library \in {"suggestions", "element", "neither"}
    /\ kind \in [Ends -> Kinds] /\ due \subseteq Ends /\ open \subseteq Ends
    /\ fetches \in [Ends -> Seq(Fetch)] /\ \A e \in Ends : Len(fetches[e]) <= MaxFetches
    /\ offers \in [Ends -> Offer] /\ fieldMode \in FieldModes
    /\ \A e \in Ends : kind[e] \in {"suggestions", "element"} => kind[e] = library

\* The requests of a field whose answer will be shown.
Live(e) == {i \in DOMAIN fetches[e] : fetches[e][i].live}

\* A field waits for the timer, or for one answer, or for nothing; what it waits
\* for is for its text and anchor, and what it offers when it waits for nothing too.
OffersInv ==
    \A e \in Ends :
        /\ e \in due => kind[e] = "suggestions" /\ Live(e) = {}
        /\ \A i, j \in Live(e) : i = j
        /\ \A i \in Live(e) : /\ kind[e] = "suggestions"
                              /\ fetches[e][i].word = text[e]
                              /\ fetches[e][i].anchor = place[Other(e)]
        /\ kind[e] = "suggestions" /\ e \notin due /\ Live(e) = {} /\ offers[e] # NoOffers
              => offers[e] = [word |-> text[e], anchor |-> place[Other(e)]]

\* A journey has two ends.
LEMMA OtherEnd ==
    \A e \in Ends : Other(e) \in Ends /\ Other(e) # e /\ Other(Other(e)) = e
  BY DEF Ends, Other

\* The requests of one field.
LEMMA Requests ==
    FieldKnown => \A e \in Ends :
        /\ fetches[e] \in Seq(Fetch) /\ Len(fetches[e]) \in Nat
        /\ DOMAIN fetches[e] = 1..Len(fetches[e])
        /\ \A i \in DOMAIN fetches[e] : fetches[e][i] \in Fetch
<1> SUFFICES ASSUME FieldKnown, NEW e \in Ends
             PROVE  /\ fetches[e] \in Seq(Fetch) /\ Len(fetches[e]) \in Nat
                    /\ DOMAIN fetches[e] = 1..Len(fetches[e])
                    /\ \A i \in DOMAIN fetches[e] : fetches[e][i] \in Fetch
  OBVIOUS
<1>1. fetches[e] \in Seq(Fetch)
  BY DEF FieldKnown
<1> QED
  BY <1>1

\* Requests that are cancelled are still under way, and none of them is live.
LEMMA CancelledAreDead ==
    \A q \in Seq(Fetch) :
        /\ Cancelled(q) \in Seq(Fetch) /\ Len(Cancelled(q)) = Len(q)
        /\ \A i \in DOMAIN Cancelled(q) : ~Cancelled(q)[i].live
<1> SUFFICES ASSUME NEW q \in Seq(Fetch)
             PROVE  /\ Cancelled(q) \in Seq(Fetch) /\ Len(Cancelled(q)) = Len(q)
                    /\ \A i \in DOMAIN Cancelled(q) : ~Cancelled(q)[i].live
  OBVIOUS
<1> DEFINE c == Cancelled(q)
<1>1. DOMAIN q = 1..Len(q) /\ Len(q) \in Nat /\ \A i \in DOMAIN q : q[i] \in Fetch
  OBVIOUS
<1>2. c = [i \in 1..Len(q) |-> [q[i] EXCEPT !.live = FALSE]]
  BY <1>1 DEF Cancelled
<1> HIDE DEF c
<1>3. \A i \in 1..Len(q) : c[i] \in Fetch /\ c[i].live = FALSE
  BY <1>1, <1>2 DEF Fetch
<1>4. c = [i \in 1..Len(q) |-> c[i]]
  BY <1>2
<1>5. c \in Seq(Fetch)
  BY <1>1, <1>3, <1>4, SeqDef
<1>6. DOMAIN c = 1..Len(q) /\ Len(c) = Len(q)
  BY <1>1, <1>2, <1>5
<1> QED
  BY <1>3, <1>5, <1>6 DEF c

\* One request is answered: those that are live among the rest.
LEMMA RequestLeft ==
    FieldKnown => \A e \in Ends : \A i \in DOMAIN fetches[e] :
        LET left == RemoveAt(fetches[e], i)
        IN  /\ left \in Seq(Fetch) /\ Len(left) = Len(fetches[e]) - 1
            /\ DOMAIN left = 1..(Len(fetches[e]) - 1)
            /\ \A k \in DOMAIN left : left[k] = IF k < i THEN fetches[e][k] ELSE fetches[e][k + 1]
<1> SUFFICES ASSUME FieldKnown, NEW e \in Ends, NEW i \in DOMAIN fetches[e]
             PROVE  LET left == RemoveAt(fetches[e], i)
                    IN  /\ left \in Seq(Fetch) /\ Len(left) = Len(fetches[e]) - 1
                        /\ DOMAIN left = 1..(Len(fetches[e]) - 1)
                        /\ \A k \in DOMAIN left :
                              left[k] = IF k < i THEN fetches[e][k] ELSE fetches[e][k + 1]
  OBVIOUS
<1> DEFINE q == fetches[e]
           left == RemoveAt(q, i)
<1>1. q \in Seq(Fetch) /\ i \in 1..Len(q) /\ Len(q) \in Nat
  BY Requests
<1>2. /\ left \in Seq(Fetch) /\ Len(left) = Len(q) - 1
      /\ \A k \in 1..(Len(q) - 1) : left[k] = IF k < i THEN q[k] ELSE q[k + 1]
  BY <1>1, RemovedAt
<1> HIDE DEF left, q
<1>3. DOMAIN left = 1..(Len(q) - 1)
  BY <1>1, <1>2
<1> QED
  BY <1>2, <1>3 DEF left, q

\* The effects of a render, when the mode of a field changes only from loading and
\* nothing but empty lists replaces what is offered.
LEMMA EffectsKeep ==
    FieldKnown /\ OffersInv => \A list \in [Ends -> Offer] :
        /\ Effects(list, fetches) /\ kind' \in [Ends -> Kinds]
        /\ \A e \in Ends : kind'[e] = kind[e] \/ kind[e] = "loading"
        /\ \A e \in Ends : list[e] = offers[e] \/ list[e] = NoOffers
        => /\ OffersInv'
           /\ due' \subseteq Ends /\ offers' \in [Ends -> Offer]
           /\ fetches' \in [Ends -> Seq(Fetch)] /\ \A e \in Ends : Len(fetches'[e]) <= MaxFetches
<1> SUFFICES ASSUME FieldKnown, OffersInv, NEW list \in [Ends -> Offer],
                    Effects(list, fetches), kind' \in [Ends -> Kinds],
                    \A e \in Ends : kind'[e] = kind[e] \/ kind[e] = "loading",
                    \A e \in Ends : list[e] = offers[e] \/ list[e] = NoOffers
             PROVE  /\ OffersInv'
                    /\ due' \subseteq Ends /\ offers' \in [Ends -> Offer]
                    /\ fetches' \in [Ends -> Seq(Fetch)]
                    /\ \A e \in Ends : Len(fetches'[e]) <= MaxFetches
  OBVIOUS
<1> DEFINE rerun == {e \in Ends : Reruns(e)}
           brief == {e \in rerun : text'[e] \in Short}
<1>1. /\ due' = (due \ rerun) \union (rerun \ brief)
      /\ fetches' = [e \in Ends |-> IF e \in rerun THEN Cancelled(fetches[e]) ELSE fetches[e]]
      /\ offers' = [e \in Ends |-> IF e \in brief THEN NoOffers ELSE list[e]]
  BY DEF Effects
<1>2. rerun \subseteq Ends /\ brief \subseteq rerun /\ due \subseteq Ends
  BY DEF FieldKnown
<1>3. NoOffers \in Offer
  BY DEF NoOffers, Offer
<1>4. \A e \in Ends : /\ Cancelled(fetches[e]) \in Seq(Fetch)
                      /\ Len(Cancelled(fetches[e])) = Len(fetches[e])
                      /\ \A i \in DOMAIN Cancelled(fetches[e]) : ~Cancelled(fetches[e])[i].live
  BY Requests, CancelledAreDead
<1>5. ASSUME NEW e \in Ends
      PROVE  e \in rerun \/ kind'[e] # "suggestions"
             \/ /\ kind[e] = "suggestions" /\ text[e] = text'[e]
                /\ place[Other(e)] = place'[Other(e)]
  BY DEF Reruns
<1>6. /\ due' \subseteq Ends /\ offers' \in [Ends -> Offer]
      /\ fetches' \in [Ends -> Seq(Fetch)] /\ \A e \in Ends : Len(fetches'[e]) <= MaxFetches
  <2> HIDE DEF rerun, brief
  <2>1. due' \subseteq Ends
    BY <1>1, <1>2
  <2>2. offers' \in [Ends -> Offer]
    BY <1>1, <1>3
  <2>3. fetches' \in [Ends -> Seq(Fetch)] /\ \A e \in Ends : Len(fetches'[e]) <= MaxFetches
    BY <1>1, <1>4 DEF FieldKnown
  <2> QED  BY <2>1, <2>2, <2>3
<1>7. \A e \in rerun : kind'[e] = "suggestions"
  BY DEF Reruns
<1> HIDE DEF rerun, brief
<1>8. ASSUME NEW e \in Ends
      PROVE  /\ e \in due' => kind'[e] = "suggestions" /\ Live(e)' = {}
             /\ \A i, j \in Live(e)' : i = j
             /\ \A i \in Live(e)' : /\ kind'[e] = "suggestions"
                                    /\ fetches'[e][i].word = text'[e]
                                    /\ fetches'[e][i].anchor = place'[Other(e)]
             /\ kind'[e] = "suggestions" /\ e \notin due' /\ Live(e)' = {} /\ offers'[e] # NoOffers
                   => offers'[e] = [word |-> text'[e], anchor |-> place'[Other(e)]]
  <2>1. CASE e \in rerun
    <3>1. fetches'[e] = Cancelled(fetches[e])
      BY <1>1, <2>1
    <3>2. Live(e)' = {}
      BY <1>4, <3>1 DEF Live
    <3>3. e \in due' \/ e \in brief
      BY <1>1, <2>1
    <3>4. e \in brief => offers'[e] = NoOffers
      BY <1>1
    <3> QED  BY <1>7, <2>1, <3>2, <3>3, <3>4
  <2>2. CASE e \notin rerun
    <3>1. fetches'[e] = fetches[e] /\ Live(e)' = Live(e)
      BY <1>1, <2>2 DEF Live
    <3>2. e \in due' <=> e \in due
      BY <1>1, <1>2, <2>2
    <3>3. offers'[e] = list[e]
      BY <1>1, <1>2, <2>2
    <3>4. CASE kind'[e] # "suggestions"
      <4>1. kind[e] # "suggestions"
        BY <3>4
      <4>2. e \notin due /\ Live(e) = {}
        BY <4>1 DEF OffersInv
      <4> QED  BY <3>1, <3>2, <3>4, <4>2
    <3>5. CASE /\ kind[e] = "suggestions" /\ text[e] = text'[e]
               /\ place[Other(e)] = place'[Other(e)]
      <4>1. kind'[e] = "suggestions"
        BY <3>5
      <4>2. /\ e \in due => Live(e) = {}
            /\ \A i, j \in Live(e) : i = j
            /\ \A i \in Live(e) : /\ fetches[e][i].word = text[e]
                                  /\ fetches[e][i].anchor = place[Other(e)]
            /\ e \notin due /\ Live(e) = {} /\ offers[e] # NoOffers
                  => offers[e] = [word |-> text[e], anchor |-> place[Other(e)]]
        BY <3>5 DEF OffersInv
      <4> QED  BY <3>1, <3>2, <3>3, <3>5, <4>1, <4>2
    <3> QED  BY <1>5, <2>2, <3>4, <3>5
  <2> QED  BY <2>1, <2>2
<1> QED
  BY <1>6, <1>8 DEF OffersInv

FieldInv == FieldKnown /\ OffersInv

\* Fields as they are mounted wait for the library only.
LEMMA FieldInvInit == FieldInit => FieldInv
<1> SUFFICES ASSUME FieldInit PROVE FieldInv
  OBVIOUS
<1>1. kind \in [Ends -> Kinds] /\ \A e \in Ends : kind[e] \notin {"suggestions", "element"}
  BY DEF FieldInit, Mounted, Kinds
<1>2. /\ fetches \in [Ends -> Seq(Fetch)] /\ \A e \in Ends : fetches[e] = <<>>
      /\ \A e \in Ends : Len(fetches[e]) <= MaxFetches
  <2>1. Len(<<>>) = 0 /\ <<>> \in Seq(Fetch) /\ 0 <= MaxFetches
    BY FieldAssumption
  <2> QED  BY <2>1 DEF FieldInit
<1>3. offers \in [Ends -> Offer]
  BY DEF FieldInit, NoOffers, Offer
<1>4. FieldKnown
  BY <1>1, <1>2, <1>3 DEF FieldInit, FieldKnown
<1>5. \A e \in Ends : Live(e) = {} /\ e \notin due /\ kind[e] # "suggestions"
  BY <1>1, <1>2 DEF FieldInit, Live
<1>6. OffersInv
  BY <1>5 DEF OffersInv
<1> QED
  BY <1>4, <1>6 DEF FieldInv

\* A render that leaves the library and changes a mode only from loading.
LEMMA FieldRenders ==
    FieldInv => \A list \in [Ends -> Offer] :
        /\ Effects(list, fetches) /\ UNCHANGED <<script, library, fieldMode>>
        /\ kind' \in [Ends -> Kinds] /\ open' \subseteq Ends
        /\ \A e \in Ends : kind'[e] = kind[e] \/ kind[e] = "loading"
        /\ \A e \in Ends : kind'[e] \in {"suggestions", "element"} => kind'[e] = library
        /\ \A e \in Ends : list[e] = offers[e] \/ list[e] = NoOffers
        => FieldInv'
<1> SUFFICES ASSUME FieldInv, NEW list \in [Ends -> Offer],
                    Effects(list, fetches), UNCHANGED <<script, library, fieldMode>>,
                    kind' \in [Ends -> Kinds], open' \subseteq Ends,
                    \A e \in Ends : kind'[e] = kind[e] \/ kind[e] = "loading",
                    \A e \in Ends : kind'[e] \in {"suggestions", "element"} => kind'[e] = library,
                    \A e \in Ends : list[e] = offers[e] \/ list[e] = NoOffers
             PROVE  FieldInv'
  OBVIOUS
<1>1. /\ OffersInv'
      /\ due' \subseteq Ends /\ offers' \in [Ends -> Offer]
      /\ fetches' \in [Ends -> Seq(Fetch)] /\ \A e \in Ends : Len(fetches'[e]) <= MaxFetches
  BY EffectsKeep DEF FieldInv
<1>2. FieldKnown'
  BY <1>1 DEF FieldInv, FieldKnown
<1> QED
  BY <1>1, <1>2 DEF FieldInv

\* Nothing changes but what opens, or the state of the script.
LEMMA FieldStays ==
    /\ FieldInv /\ UNCHANGED <<text, place, library, kind, due, fetches, offers, fieldMode>>
    /\ script' \in {"loading", "ready", "failed"} /\ open' \subseteq Ends
    => FieldInv'
<1> SUFFICES ASSUME FieldInv,
                    UNCHANGED <<text, place, library, kind, due, fetches, offers, fieldMode>>,
                    script' \in {"loading", "ready", "failed"}, open' \subseteq Ends
             PROVE  FieldInv'
  OBVIOUS
<1>1. FieldKnown'
  BY DEF FieldInv, FieldKnown
<1>2. \A e \in Ends : Live(e)' = Live(e)
  BY DEF Live
<1>3. OffersInv'
  BY <1>2 DEF FieldInv, OffersInv
<1> QED
  BY <1>1, <1>3 DEF FieldInv

\* The library has loaded or failed: a field that loads gets its mode.
LEMMA FieldLibrary == FieldInv => \A e \in Ends : LibraryLoaded(e) \/ ElementFails(e) => FieldInv'
<1> SUFFICES ASSUME FieldInv, NEW e \in Ends, LibraryLoaded(e) \/ ElementFails(e)
             PROVE  FieldInv'
  OBVIOUS
<1>1. /\ kind \in [Ends -> Kinds] /\ offers \in [Ends -> Offer] /\ open \subseteq Ends
      /\ library \in {"suggestions", "element", "neither"}
      /\ \A k \in Ends : kind[k] \in {"suggestions", "element"} => kind[k] = library
  BY DEF FieldInv, FieldKnown
<1>2. CASE LibraryLoaded(e)
  <2>1. /\ kind[e] = "loading" /\ Effects(offers, fetches)
        /\ UNCHANGED <<script, library, open, fieldMode>>
        /\ kind' = [kind EXCEPT ![e] =
              IF script = "failed" \/ library = "neither" THEN "fallback" ELSE library]
    BY <1>2 DEF LibraryLoaded
  <2>2. kind' \in [Ends -> Kinds]
    BY <1>1, <2>1 DEF Kinds
  <2>3. \A k \in Ends : kind'[k] = kind[k] \/ kind[k] = "loading"
    BY <1>1, <2>1
  <2>4. \A k \in Ends : kind'[k] \in {"suggestions", "element"} => kind'[k] = library
    BY <1>1, <2>1
  <2> QED  BY <1>1, <2>1, <2>2, <2>3, <2>4, FieldRenders
<1>3. CASE ElementFails(e)
  <2>1. /\ kind[e] = "loading" /\ kind' = [kind EXCEPT ![e] = "fallback"]
        /\ UNCHANGED <<text, place, script, library, due, fetches, offers, open, fieldMode>>
    BY <1>3 DEF ElementFails, planVars
  <2>2. /\ kind' \in [Ends -> Kinds]
        /\ \A k \in Ends : kind'[k] = kind[k] \/ (k = e /\ kind'[k] = "fallback")
    BY <1>1, <2>1 DEF Kinds
  <2>3. FieldKnown'
    BY <2>1, <2>2 DEF FieldInv, FieldKnown
  <2>4. \A k \in Ends : Live(k)' = Live(k)
    BY <2>1 DEF Live
  <2>5. e \notin due /\ Live(e) = {}
    BY <2>1 DEF FieldInv, OffersInv
  <2>6. OffersInv'
    BY <2>1, <2>2, <2>4, <2>5 DEF FieldInv, OffersInv
  <2> QED  BY <2>3, <2>6 DEF FieldInv
<1> QED
  BY <1>2, <1>3

\* The timer ends: the field waits for one answer, for its text and anchor of now.
LEMMA FieldTimer ==
    PlanKnown /\ FieldInv => \A e \in Ends : TimerEnds(e) => FieldInv'
<1> SUFFICES ASSUME PlanKnown, FieldInv, NEW e \in Ends, TimerEnds(e)
             PROVE  FieldInv'
  OBVIOUS
<1> DEFINE f == [word |-> text[e], anchor |-> place[Other(e)], live |-> TRUE]
<1>1. /\ e \in due /\ Len(fetches[e]) < MaxFetches /\ due' = due \ {e}
      /\ fetches' = [fetches EXCEPT ![e] = Append(fetches[e], f)]
      /\ UNCHANGED <<text, place, script, library, kind, offers, open, fieldMode>>
  BY DEF TimerEnds, planVars, FieldInv, FieldKnown
<1>2. f \in Fetch /\ f.live /\ f.word = text[e] /\ f.anchor = place[Other(e)]
  <2>1. text[e] \in Words /\ place[Other(e)] \in Words \union {NoWord}
    BY OtherEnd DEF PlanKnown, FormKnown, Draft, Places
  <2> QED  BY <2>1 DEF Fetch
<1> HIDE DEF f
<1>3. /\ fetches[e] \in Seq(Fetch) /\ Len(fetches[e]) \in Nat
      /\ DOMAIN fetches[e] = 1..Len(fetches[e]) /\ fetches \in [Ends -> Seq(Fetch)]
  BY Requests DEF FieldInv, FieldKnown
<1> DEFINE q == Append(fetches[e], f)
<1>4. /\ q \in Seq(Fetch) /\ Len(q) = Len(fetches[e]) + 1
      /\ DOMAIN q = 1..(Len(fetches[e]) + 1)
      /\ \A k \in DOMAIN fetches[e] : q[k] = fetches[e][k]
      /\ q[Len(fetches[e]) + 1] = f
  BY <1>2, <1>3
<1> HIDE DEF q
<1>5. fetches' = [fetches EXCEPT ![e] = q]
  BY <1>1 DEF q
<1>6. FieldKnown'
  <2>1. fetches' \in [Ends -> Seq(Fetch)]
    BY <1>3, <1>4, <1>5
  <2>2. \A k \in Ends : Len(fetches'[k]) <= MaxFetches
    BY <1>1, <1>3, <1>4, <1>5, FieldAssumption DEF FieldInv, FieldKnown
  <2>3. due' \subseteq Ends
    BY <1>1 DEF FieldInv, FieldKnown
  <2> QED  BY <1>1, <2>1, <2>2, <2>3 DEF FieldInv, FieldKnown
<1>7. Live(e) = {} /\ kind[e] = "suggestions"
  BY <1>1 DEF FieldInv, OffersInv
<1>8. \A k \in Ends : k # e => Live(k)' = Live(k) /\ fetches'[k] = fetches[k]
  BY <1>3, <1>5 DEF Live
<1>9. fetches'[e] = q
  BY <1>3, <1>5
<1>10. Live(e)' = {Len(fetches[e]) + 1}
  <2>1. \A k \in DOMAIN fetches[e] : ~fetches[e][k].live
    BY <1>7 DEF Live
  <2>2. \A k \in DOMAIN q : q[k].live <=> k = Len(fetches[e]) + 1
    BY <1>2, <1>3, <1>4, <2>1
  <2>3. Live(e)' = {k \in DOMAIN q : q[k].live}
    BY <1>9 DEF Live
  <2>4. Len(fetches[e]) + 1 \in DOMAIN q
    BY <1>3, <1>4
  <2> QED  BY <2>2, <2>3, <2>4
<1>11. OffersInv'
  <2> SUFFICES ASSUME NEW k \in Ends
               PROVE  /\ k \in due' => kind'[k] = "suggestions" /\ Live(k)' = {}
                      /\ \A i, j \in Live(k)' : i = j
                      /\ \A i \in Live(k)' : /\ kind'[k] = "suggestions"
                                             /\ fetches'[k][i].word = text'[k]
                                             /\ fetches'[k][i].anchor = place'[Other(k)]
                      /\ kind'[k] = "suggestions" /\ k \notin due' /\ Live(k)' = {}
                         /\ offers'[k] # NoOffers
                            => offers'[k] = [word |-> text'[k], anchor |-> place'[Other(k)]]
    BY DEF OffersInv
  <2>1. CASE k = e
    BY <1>1, <1>2, <1>4, <1>7, <1>9, <1>10, <2>1
  <2>2. CASE k # e
    <3>1. Live(k)' = Live(k) /\ fetches'[k] = fetches[k] /\ (k \in due' <=> k \in due)
      BY <1>1, <1>8, <2>2
    <3> QED  BY <1>1, <3>1 DEF FieldInv, OffersInv
  <2> QED  BY <2>1, <2>2
<1> QED
  BY <1>6, <1>11 DEF FieldInv

\* An answer that is shown, or not.
LEMMA FieldAnswer ==
    FieldInv => \A e \in Ends : \A i \in DOMAIN fetches[e] :
        SuggestionsAnswered(e, i) \/ SuggestionsFailed(e, i) => FieldInv'
<1> SUFFICES ASSUME FieldInv, NEW e \in Ends, NEW i \in DOMAIN fetches[e],
                    SuggestionsAnswered(e, i) \/ SuggestionsFailed(e, i)
             PROVE  FieldInv'
  OBVIOUS
<1> DEFINE f == fetches[e][i]
           left == RemoveAt(fetches[e], i)
<1>1. /\ fetches' = [fetches EXCEPT ![e] = left]
      /\ UNCHANGED <<text, place, script, library, kind, due, fieldMode>>
      /\ open' = open \/ open' = open \union {e}
  BY DEF SuggestionsAnswered, SuggestionsFailed, planVars, FieldInv, FieldKnown
<1>2. IF f.live THEN offers' = [offers EXCEPT ![e] = [word |-> f.word, anchor |-> f.anchor]]
                     \/ offers' = [offers EXCEPT ![e] = NoOffers]
                ELSE offers' = offers
  BY DEF SuggestionsAnswered, SuggestionsFailed
<1>3. /\ fetches[e] \in Seq(Fetch) /\ Len(fetches[e]) \in Nat /\ f \in Fetch
      /\ DOMAIN fetches[e] = 1..Len(fetches[e]) /\ fetches \in [Ends -> Seq(Fetch)]
      /\ offers \in [Ends -> Offer]
  BY Requests DEF FieldInv, FieldKnown
<1>4. /\ left \in Seq(Fetch) /\ Len(left) = Len(fetches[e]) - 1
      /\ DOMAIN left = 1..(Len(fetches[e]) - 1)
      /\ \A k \in DOMAIN left : left[k] = IF k < i THEN fetches[e][k] ELSE fetches[e][k + 1]
  BY RequestLeft DEF FieldInv
<1> HIDE DEF left, f
<1>5. fetches'[e] = left /\ \A k \in Ends : k # e => fetches'[k] = fetches[k] /\ Live(k)' = Live(k)
  BY <1>1, <1>3 DEF Live
<1>6. FieldKnown'
  <2>1. fetches' \in [Ends -> Seq(Fetch)]
    BY <1>1, <1>3, <1>4
  <2>2. \A k \in Ends : Len(fetches'[k]) <= MaxFetches
    BY <1>3, <1>4, <1>5, FieldAssumption DEF FieldInv, FieldKnown
  <2>3. [word |-> f.word, anchor |-> f.anchor] \in Offer /\ NoOffers \in Offer
    BY <1>3 DEF Fetch, Offer, NoOffers
  <2>4. offers' \in [Ends -> Offer]
    BY <1>2, <1>3, <2>3
  <2>5. open' \subseteq Ends
    BY <1>1 DEF FieldInv, FieldKnown
  <2> QED  BY <1>1, <2>1, <2>2, <2>4, <2>5 DEF FieldInv, FieldKnown
<1>7. Live(e)' = {k \in DOMAIN left : left[k].live}
  BY <1>5 DEF Live
\* a live one that is left was live before
<1>8. ASSUME NEW k \in Live(e)'
      PROVE  LET j == IF k < i THEN k ELSE k + 1
             IN  j \in Live(e) /\ j # i /\ left[k] = fetches[e][j]
  <2>1. k \in 1..(Len(fetches[e]) - 1) /\ left[k].live
    BY <1>4, <1>7, <1>8
  <2>2. CASE k < i
    <3>1. k \in DOMAIN fetches[e] /\ left[k] = fetches[e][k]
      BY <1>3, <1>4, <2>1, <2>2
    <3> QED  BY <2>1, <2>2, <3>1 DEF Live
  <2>3. CASE ~(k < i)
    <3>1. k \in DOMAIN left
      BY <1>4, <2>1
    <3>2. left[k] = fetches[e][k + 1]
      BY <1>4, <2>3, <3>1
    <3>3. i \in 1..Len(fetches[e])
      BY <1>3
    <3>4. k + 1 \in 1..Len(fetches[e]) /\ k + 1 # i
      BY <1>3, <2>1, <2>3, <3>3
    <3> QED  BY <1>3, <2>1, <2>3, <3>2, <3>4 DEF Live
  <2> QED  BY <2>2, <2>3
\* and one that was live before is left, unless it is this one
<1>9. ASSUME NEW j \in Live(e), j # i
      PROVE  Live(e)' # {}
  <2>1. j \in 1..Len(fetches[e]) /\ fetches[e][j].live
    BY <1>3 DEF Live
  <2>2. CASE j < i
    <3>1. j \in DOMAIN left /\ left[j] = fetches[e][j]
      BY <1>3, <1>4, <2>1, <2>2
    <3> QED  BY <1>7, <2>1, <3>1
  <2>3. CASE ~(j < i)
    <3>1. j - 1 \in DOMAIN left /\ ~(j - 1 < i) /\ (j - 1) + 1 = j
      BY <1>3, <1>4, <1>9, <2>1, <2>3
    <3>2. left[j - 1] = fetches[e][j]
      BY <1>4, <3>1
    <3> QED  BY <1>7, <2>1, <3>1, <3>2
  <2> QED  BY <2>2, <2>3
<1>10. i \in Live(e) <=> f.live
  BY DEF Live, f
<1>11. OffersInv'
  <2> SUFFICES ASSUME NEW k \in Ends
               PROVE  /\ k \in due' => kind'[k] = "suggestions" /\ Live(k)' = {}
                      /\ \A m, j \in Live(k)' : m = j
                      /\ \A m \in Live(k)' : /\ kind'[k] = "suggestions"
                                             /\ fetches'[k][m].word = text'[k]
                                             /\ fetches'[k][m].anchor = place'[Other(k)]
                      /\ kind'[k] = "suggestions" /\ k \notin due' /\ Live(k)' = {}
                         /\ offers'[k] # NoOffers
                            => offers'[k] = [word |-> text'[k], anchor |-> place'[Other(k)]]
    BY DEF OffersInv
  <2>1. CASE k # e
    <3>1. Live(k)' = Live(k) /\ fetches'[k] = fetches[k] /\ offers'[k] = offers[k]
      BY <1>2, <1>3, <1>5, <2>1
    <3> QED  BY <1>1, <3>1 DEF FieldInv, OffersInv
  <2>2. CASE k = e
    <3>1. e \in due' => kind'[e] = "suggestions" /\ Live(e)' = {}
      BY <1>1, <1>8 DEF FieldInv, OffersInv
    <3>2. ASSUME NEW m \in Live(e)', NEW n \in Live(e)'
          PROVE  m = n
      <4> DEFINE a == IF m < i THEN m ELSE m + 1
                 b == IF n < i THEN n ELSE n + 1
      <4>1. a \in Live(e) /\ b \in Live(e)
        BY <1>8
      <4>2. a = b
        BY <4>1 DEF FieldInv, OffersInv
      <4>3. m \in Nat /\ n \in Nat /\ i \in Nat
        BY <1>3, <1>4, <1>7
      <4> QED  BY <4>2, <4>3
    <3>3. ASSUME NEW m \in Live(e)'
          PROVE  /\ kind'[e] = "suggestions" /\ fetches'[e][m].word = text'[e]
                 /\ fetches'[e][m].anchor = place'[Other(e)]
      <4> DEFINE j == IF m < i THEN m ELSE m + 1
      <4>1. j \in Live(e) /\ left[m] = fetches[e][j]
        BY <1>8
      <4> HIDE DEF j
      <4>2. /\ kind[e] = "suggestions" /\ fetches[e][j].word = text[e]
            /\ fetches[e][j].anchor = place[Other(e)]
        BY <4>1 DEF FieldInv, OffersInv
      <4>3. fetches'[e][m] = fetches[e][j]
        BY <1>5, <4>1
      <4> QED  BY <1>1, <4>2, <4>3
    <3>4. ASSUME kind'[e] = "suggestions", e \notin due', Live(e)' = {}, offers'[e] # NoOffers
          PROVE  offers'[e] = [word |-> text'[e], anchor |-> place'[Other(e)]]
      <4>1. CASE f.live
        <5>1. offers'[e] = [word |-> f.word, anchor |-> f.anchor]
          BY <1>2, <1>3, <3>4, <4>1
        <5>2. f.word = text[e] /\ f.anchor = place[Other(e)]
          BY <1>10, <4>1 DEF FieldInv, OffersInv, f
        <5> QED  BY <1>1, <5>1, <5>2
      <4>2. CASE ~f.live
        <5>1. offers' = offers
          BY <1>2, <4>2
        <5>2. Live(e) = {}
          BY <1>9, <1>10, <3>4, <4>2
        <5> QED  BY <1>1, <3>4, <5>1, <5>2 DEF FieldInv, OffersInv
      <4> QED  BY <4>1, <4>2
    <3> QED  BY <2>2, <3>1, <3>2, <3>3, <3>4
  <2> QED  BY <2>1, <2>2
<1> QED
  BY <1>6, <1>11 DEF FieldInv

\* Typing starts the wait again.
LEMMA FieldTypesIn ==
    PlanKnown /\ FieldInv => \A e \in Ends, w \in Words : TypeInField(e, w) => FieldInv'
<1> SUFFICES ASSUME FieldInv, NEW e \in Ends, NEW w \in Words, TypeInField(e, w)
             PROVE  FieldInv'
  OBVIOUS
<1>1. /\ Effects(offers, fetches) /\ UNCHANGED <<script, library, kind, fieldMode>>
      /\ open' = open \/ open' = open \union {e}
  BY DEF TypeInField
<1>2. /\ offers \in [Ends -> Offer] /\ kind \in [Ends -> Kinds] /\ open \subseteq Ends
      /\ \A k \in Ends : kind[k] \in {"suggestions", "element"} => kind[k] = library
  BY DEF FieldInv, FieldKnown
<1>3. kind' \in [Ends -> Kinds] /\ open' \subseteq Ends
  BY <1>1, <1>2
<1> QED
  BY <1>1, <1>2, <1>3, FieldRenders

\* A suggestion that was picked empties its field, and is a new anchor for the other.
LEMMA FieldPickEnds ==
    PlanKnown /\ FieldInv => \A p \in picks : PickEnds(p) => FieldInv'
<1> SUFFICES ASSUME PlanKnown, FieldInv, NEW p \in picks, PickEnds(p)
             PROVE  FieldInv'
  OBVIOUS
<1> DEFINE list == [offers EXCEPT ![p.end] = NoOffers]
<1>1. /\ Effects(list, fetches) /\ UNCHANGED <<script, library, kind, fieldMode>>
      /\ open' = open \/ open' = open \ {p.end}
  BY DEF PickEnds
<1>2. /\ offers \in [Ends -> Offer] /\ kind \in [Ends -> Kinds] /\ open \subseteq Ends
      /\ \A k \in Ends : kind[k] \in {"suggestions", "element"} => kind[k] = library
  BY DEF FieldInv, FieldKnown
<1>3. kind' \in [Ends -> Kinds] /\ open' \subseteq Ends
  BY <1>1, <1>2
<1>4. list \in [Ends -> Offer] /\ \A k \in Ends : list[k] = offers[k] \/ list[k] = NoOffers
  BY <1>2 DEF NoOffers, Offer
<1> HIDE DEF list
<1> QED
  BY <1>1, <1>2, <1>3, <1>4, FieldRenders

\* Places that were resolved are new anchors.
LEMMA FieldResolves ==
    FieldInv => \A i \in DOMAIN submits : FieldsResolved(i) => FieldInv'
<1> SUFFICES ASSUME FieldInv, NEW i \in DOMAIN submits, FieldsResolved(i)
             PROVE  FieldInv'
  OBVIOUS
<1>1. Effects(offers, fetches) /\ UNCHANGED <<script, library, kind, open, fieldMode>>
  BY DEF FieldsResolved
<1>2. /\ offers \in [Ends -> Offer] /\ kind \in [Ends -> Kinds] /\ open \subseteq Ends
      /\ \A k \in Ends : kind[k] \in {"suggestions", "element"} => kind[k] = library
  BY DEF FieldInv, FieldKnown
<1>3. kind' \in [Ends -> Kinds] /\ open' \subseteq Ends
  BY <1>1, <1>2
<1> QED
  BY <1>1, <1>2, <1>3, FieldRenders

\* New fields wait for nothing, over requests that are all cancelled.
LEMMA FieldRemounts == FieldInv /\ RemountForm => FieldInv'
<1> SUFFICES ASSUME FieldInv, RemountForm PROVE FieldInv'
  OBVIOUS
<1>1. /\ kind' = Mounted /\ due' = {} /\ open' = {}
      /\ fetches' = [e \in Ends |-> Cancelled(fetches[e])]
      /\ offers' = [e \in Ends |-> NoOffers] /\ UNCHANGED <<script, library, fieldMode>>
  BY DEF RemountForm
<1>2. \A e \in Ends : /\ fetches'[e] \in Seq(Fetch) /\ Len(fetches'[e]) = Len(fetches[e])
                      /\ \A i \in DOMAIN fetches'[e] : ~fetches'[e][i].live
  BY <1>1, Requests, CancelledAreDead DEF FieldInv
<1>3. fetches' \in [Ends -> Seq(Fetch)] /\ \A e \in Ends : Len(fetches'[e]) <= MaxFetches
  BY <1>1, <1>2 DEF FieldInv, FieldKnown
<1>4. offers' \in [Ends -> Offer]
  BY <1>1 DEF NoOffers, Offer
<1>5. kind' \in [Ends -> Kinds] /\ \A e \in Ends : kind'[e] \notin {"suggestions", "element"}
  BY <1>1 DEF Mounted, Kinds
<1>6. FieldKnown'
  BY <1>1, <1>3, <1>4, <1>5 DEF FieldInv, FieldKnown
<1>7. \A e \in Ends : Live(e)' = {}
  BY <1>2 DEF Live
<1>8. OffersInv'
  BY <1>1, <1>5, <1>7 DEF OffersInv
<1> QED
  BY <1>6, <1>8 DEF FieldInv

\* Every step of the fields is a step of the form they are part of, a new form,
\* or none of its business.
LEMMA FieldStepIsPlanStep ==
    FieldNext => PlanNext \/ RemountForm \/ UNCHANGED planVars
<1> SUFFICES ASSUME FieldNext PROVE PlanNext \/ RemountForm \/ UNCHANGED planVars
  OBVIOUS
<1>1. CASE ScriptEnds
  BY <1>1 DEF ScriptEnds, planVars
<1>2. CASE \E e \in Ends :
              \/ LibraryLoaded(e) \/ ElementFails(e) \/ TimerEnds(e) \/ FocusField(e) \/ BlurField(e)
              \/ \E i \in DOMAIN fetches[e] : SuggestionsAnswered(e, i) \/ SuggestionsFailed(e, i)
  BY <1>2 DEF LibraryLoaded, ElementFails, TimerEnds, FocusField, BlurField, SuggestionsAnswered,
              SuggestionsFailed, planVars
<1>3. CASE \E e \in Ends, w \in Words : TypeInField(e, w) \/ PickInField(e, w)
  BY <1>3 DEF TypeInField, PickInField, PlanNext
<1>4. CASE \E p \in picks : PickEnds(p)
  BY <1>4 DEF PickEnds, PlanNext
<1>5. CASE SubmitFields
  BY <1>5 DEF SubmitFields, PlanNext
<1>6. CASE \E i \in DOMAIN submits : FieldsResolved(i)
  BY <1>6 DEF FieldsResolved, PlanNext
<1> QED
  BY <1>1, <1>2, <1>3, <1>4, <1>5, <1>6 DEF FieldNext

\* One step of the fields keeps it.
LEMMA FieldStep == PlanKnown /\ FieldInv /\ FieldNext => FieldInv'
<1> SUFFICES ASSUME PlanKnown, FieldInv, FieldNext PROVE FieldInv'
  OBVIOUS
<1>1. CASE ScriptEnds
  BY <1>1, FieldStays DEF ScriptEnds, planVars, FieldInv, FieldKnown
<1>2. CASE \E e \in Ends : LibraryLoaded(e) \/ ElementFails(e)
  BY <1>2, FieldLibrary
<1>3. CASE \E e \in Ends : TimerEnds(e)
  BY <1>3, FieldTimer
<1>4. CASE \E e \in Ends : FocusField(e) \/ BlurField(e)
  <2>1. open' \subseteq Ends /\ script \in {"loading", "ready", "failed"}
    BY <1>4 DEF FocusField, BlurField, FieldInv, FieldKnown
  <2> QED  BY <1>4, <2>1, FieldStays DEF FocusField, BlurField, planVars
<1>5. CASE \E e \in Ends, w \in Words : TypeInField(e, w)
  BY <1>5, FieldTypesIn
<1>6. CASE (\E e \in Ends, w \in Words : PickInField(e, w)) \/ SubmitFields
  <2>1. UNCHANGED <<text, place>> /\ UNCHANGED fieldVars
    BY <1>6 DEF PickInField, PickSuggestion, SubmitFields, Submit, formVars
  <2>2. open \subseteq Ends /\ script \in {"loading", "ready", "failed"}
    BY DEF FieldInv, FieldKnown
  <2> QED  BY <2>1, <2>2, FieldStays DEF fieldVars
<1>7. CASE \E e \in Ends : \E i \in DOMAIN fetches[e] :
              SuggestionsAnswered(e, i) \/ SuggestionsFailed(e, i)
  BY <1>7, FieldAnswer
<1>8. CASE \E p \in picks : PickEnds(p)
  BY <1>8, FieldPickEnds
<1>9. CASE \E i \in DOMAIN submits : FieldsResolved(i)
  BY <1>9, FieldResolves
<1>10. CASE RemountForm
  BY <1>10, FieldRemounts
<1> QED
  BY <1>1, <1>2, <1>3, <1>4, <1>5, <1>6, <1>7, <1>8, <1>9, <1>10 DEF FieldNext

\* Plain fields have nothing to wait for, whatever the page does.
LEMMA FieldIdle ==
    FieldInv /\ (\A e \in Ends : kind[e] # "suggestions") /\ UNCHANGED fieldVars => FieldInv'
<1> SUFFICES ASSUME FieldInv, \A e \in Ends : kind[e] # "suggestions", UNCHANGED fieldVars
             PROVE  FieldInv'
  OBVIOUS
<1>1. UNCHANGED <<script, library, kind, due, fetches, offers, open, fieldMode>>
  BY DEF fieldVars
<1>2. FieldKnown'
  BY <1>1 DEF FieldInv, FieldKnown
<1>3. \A e \in Ends : Live(e)' = {} /\ e \notin due'
  BY <1>1 DEF FieldInv, OffersInv, Live
<1>4. OffersInv'
  BY <1>1, <1>3 DEF OffersInv
<1> QED
  BY <1>2, <1>4 DEF FieldInv

\* A field with one live request at most is typed.
LEMMA FieldsAreTyped == FieldInv => FieldTypes
<1> SUFFICES ASSUME FieldInv PROVE FieldTypes
  OBVIOUS
<1>1. ASSUME NEW e \in Ends
      PROVE  /\ fetches[e] \in Seq(Fetch) /\ Len(fetches[e]) <= MaxFetches
             /\ Cardinality({i \in DOMAIN fetches[e] : fetches[e][i].live}) <= 1
  <2>1. \A i, j \in Live(e) : i = j
    BY DEF FieldInv, OffersInv
  <2>2. Cardinality(Live(e)) <= 1
    <3>1. CASE Live(e) = {}
      BY <3>1, FS_EmptySet
    <3>2. CASE Live(e) # {}
      <4>1. PICK i : i \in Live(e)
        BY <3>2
      <4>2. Live(e) = {i}
        BY <2>1, <4>1
      <4> QED  BY <4>2, FS_Singleton
    <3> QED  BY <3>1, <3>2
  <2> QED  BY <2>2 DEF FieldInv, FieldKnown, Live
<1>2. offers \in [Ends -> [word: Words \union {NoWord}, anchor: Words \union {NoWord}]]
  BY DEF FieldInv, FieldKnown, Offer
<1> QED
  BY <1>1, <1>2 DEF FieldTypes, FieldInv, FieldKnown

\* What has settled is what the invariant says it is.
LEMMA OffersCurrent == FieldInv => OffersAreCurrent
<1> SUFFICES ASSUME FieldInv, NEW e \in Ends, Listed(e), SettledField(e)
             PROVE  offers[e] = [word |-> text[e], anchor |-> place[Other(e)]]
  BY DEF OffersAreCurrent
<1>1. kind[e] = "suggestions" /\ offers[e] # NoOffers /\ e \notin due /\ Live(e) = {}
  BY DEF Listed, SettledField, Live
<1> QED
  BY <1>1 DEF FieldInv, OffersInv

-----------------------------------------------------------------------------
\* He who waits, types or picks one thing at a time, and picks only from what
\* the other end leaves him.
FitInv ==
    fieldMode.waits /\ planMode.tidy /\ ~fieldMode.submits /\ library = "suggestions" =>
        /\ submits = <<>>
        /\ \A p, q \in picks : p = q
        /\ \A p \in picks : place[Other(p.end)] # NoWord => InBand(p.word, place[Other(p.end)])
        /\ place["from"] # NoWord /\ place["to"] # NoWord => InBand(place["from"], place["to"])

\* Too near and too far go both ways.
LEMMA BandIsSymmetric == \A v, w \in Words : InBand(v, w) => InBand(w, v)
  BY DEF InBand

\* At first no place is resolved.
LEMMA FitInit == PlanInit => FitInv
<1> SUFFICES ASSUME PlanInit PROVE FitInv
  OBVIOUS
<1>1. submits = <<>> /\ picks = {} /\ \A e \in Ends : place[e] = NoWord
  BY DEF PlanInit
<1> QED
  BY <1>1 DEF FitInv, Ends

\* The places and the suggestions being picked stay.
LEMMA FitStays ==
    FitInv /\ UNCHANGED <<place, picks, submits, planMode, library, fieldMode>> => FitInv'
  BY DEF FitInv

\* Typing clears a place, with nothing being picked.
LEMMA FitTyped ==
    PlanKnown /\ FitInv => \A e \in Ends, w \in Words : TypeInField(e, w) => FitInv'
<1> SUFFICES ASSUME PlanKnown, FitInv, NEW e \in Ends, NEW w \in Words, TypeInField(e, w)
             PROVE  FitInv'
  OBVIOUS
<1>1. /\ place' = [place EXCEPT ![e] = NoWord] /\ (planMode.tidy => picks = {})
      /\ UNCHANGED <<picks, submits, planMode, library, fieldMode>>
  BY DEF TypeInField, TypeText, MayEdit
<1>2. place'[e] = NoWord
  BY <1>1 DEF PlanKnown, FormKnown, Places
<1>3. e = "from" \/ e = "to"
  BY DEF Ends
<1> QED
  BY <1>1, <1>2, <1>3 DEF FitInv

\* The suggestion he picks is enabled for the place that stands at the other end.
LEMMA FitPicked ==
    PlanKnown /\ FieldInv /\ FitInv => \A e \in Ends, w \in Words : PickInField(e, w) => FitInv'
<1> SUFFICES ASSUME PlanKnown, FieldInv, FitInv, NEW e \in Ends, NEW w \in Words, PickInField(e, w),
                    fieldMode.waits, planMode.tidy, ~fieldMode.submits, library = "suggestions"
             PROVE  FitInv'
  BY DEF FitInv, PickInField, PickSuggestion, fieldVars
<1> DEFINE p == [end |-> e, word |-> w]
<1>1. /\ picks' = {p} /\ UNCHANGED <<place, submits, planMode>> /\ UNCHANGED fieldVars
      /\ SettledField(e)
  BY DEF PickInField, PickSuggestion
<1>2. Listed(e) /\ Enabled(e, w)
  <2>1. kind[e] # "element"
    BY DEF FieldInv, FieldKnown
  <2> QED  BY <2>1 DEF PickInField
<1>3. offers[e].anchor = place[Other(e)]
  <2>1. offers[e] = [word |-> text[e], anchor |-> place[Other(e)]]
    BY <1>1, <1>2, OffersCurrent DEF OffersAreCurrent
  <2> QED  BY <2>1
<1>4. place[Other(e)] # NoWord => InBand(w, place[Other(e)])
  <2>1. place[Other(e)] \in Words \union {NoWord}
    BY OtherEnd DEF PlanKnown, FormKnown, Places
  <2>2. place[Other(e)] # NoWord => InBand(place[Other(e)], w)
    BY <1>2, <1>3 DEF Enabled
  <2> QED  BY <2>1, <2>2, BandIsSymmetric
<1>5. p.end = e /\ p.word = w
  OBVIOUS
<1> HIDE DEF p
<1>6. \A q \in picks' : q = p
  BY <1>1
<1>7. \A q \in picks' : place'[Other(q.end)] # NoWord => InBand(q.word, place'[Other(q.end)])
  BY <1>1, <1>4, <1>5, <1>6
<1> QED
  BY <1>1, <1>6, <1>7 DEF FitInv

\* What he picked becomes the place, or no place does.
LEMMA FitPickEnds ==
    PlanKnown /\ FitInv => \A p \in picks : PickEnds(p) => FitInv'
<1> SUFFICES ASSUME PlanKnown, FitInv, NEW p \in picks, PickEnds(p),
                    fieldMode.waits, planMode.tidy, ~fieldMode.submits, library = "suggestions"
             PROVE  FitInv'
  BY DEF FitInv, PickEnds, PickAnswered
<1>1. PICK found \in {p.word, NoWord} : place' = [place EXCEPT ![p.end] = found]
  BY DEF PickEnds, PickAnswered
<1>2. /\ picks' = picks \ {p} /\ UNCHANGED <<submits, planMode, library, fieldMode>>
  BY DEF PickEnds, PickAnswered
<1>3. p.end \in Ends /\ p.word \in Words /\ place \in [Ends -> Words \union {NoWord}]
  BY DEF PlanKnown, FormKnown, Places
<1>4. picks' = {} /\ submits = <<>>
  BY <1>2 DEF FitInv
<1>5. place[Other(p.end)] # NoWord => InBand(p.word, place[Other(p.end)])
  BY DEF FitInv
<1>6. place'[p.end] = found /\ place'[Other(p.end)] = place[Other(p.end)] /\ Other(p.end) \in Ends
  BY <1>1, <1>3, OtherEnd
<1>7. ASSUME place'[p.end] # NoWord, place'[Other(p.end)] # NoWord
      PROVE  /\ InBand(place'[p.end], place'[Other(p.end)])
             /\ InBand(place'[Other(p.end)], place'[p.end])
  <2>1. place'[p.end] = p.word
    BY <1>6, <1>7
  <2>2. place'[Other(p.end)] \in Words
    BY <1>3, <1>6, <1>7
  <2>3. InBand(p.word, place'[Other(p.end)])
    BY <1>5, <1>6, <1>7
  <2> QED  BY <1>3, <2>1, <2>2, <2>3, BandIsSymmetric
<1>8. \/ p.end = "from" /\ Other(p.end) = "to"
      \/ p.end = "to" /\ Other(p.end) = "from"
  BY <1>3 DEF Ends, Other
<1>9. place'["from"] # NoWord /\ place'["to"] # NoWord => InBand(place'["from"], place'["to"])
  BY <1>7, <1>8
<1> QED
  BY <1>2, <1>4, <1>9 DEF FitInv

\* One step of the fields keeps it.
LEMMA FitStep == PlanKnown /\ FieldInv /\ FitInv /\ FieldNext => FitInv'
<1> SUFFICES ASSUME PlanKnown, FieldInv, FitInv, FieldNext PROVE FitInv'
  OBVIOUS
<1>1. CASE ScriptEnds
  BY <1>1, FitStays DEF ScriptEnds, planVars
<1>2. CASE \E e \in Ends :
              \/ LibraryLoaded(e) \/ ElementFails(e) \/ TimerEnds(e) \/ FocusField(e) \/ BlurField(e)
              \/ \E i \in DOMAIN fetches[e] : SuggestionsAnswered(e, i) \/ SuggestionsFailed(e, i)
  <2>1. UNCHANGED <<place, picks, submits, planMode, library, fieldMode>>
    BY <1>2 DEF LibraryLoaded, ElementFails, TimerEnds, FocusField, BlurField, SuggestionsAnswered,
                SuggestionsFailed, planVars
  <2> QED  BY <2>1, FitStays
<1>3. CASE \E e \in Ends, w \in Words : TypeInField(e, w)
  BY <1>3, FitTyped
<1>4. CASE \E e \in Ends, w \in Words : PickInField(e, w)
  BY <1>4, FitPicked
<1>5. CASE \E p \in picks : PickEnds(p)
  BY <1>5, FitPickEnds
<1>6. CASE SubmitFields
  BY <1>6 DEF SubmitFields, Submit, FitInv, fieldVars
<1>7. CASE \E i \in DOMAIN submits : FieldsResolved(i)
  <2>1. submits # <<>> /\ UNCHANGED <<planMode, library, fieldMode>>
    BY <1>7, MovesOn DEF FieldsResolved, Resolved, PlanKnown
  <2> QED  BY <2>1 DEF FitInv
<1>8. CASE RemountForm
  <2>1. /\ picks' = {} /\ place' = [e \in Ends |-> NoWord] /\ (submits = <<>> => submits' = <<>>)
        /\ UNCHANGED <<planMode, library, fieldMode>>
    BY <1>8 DEF RemountForm
  <2>2. place'["from"] = NoWord
    BY <2>1 DEF Ends
  <2> QED  BY <2>1, <2>2 DEF FitInv
<1> QED
  BY <1>1, <1>2, <1>3, <1>4, <1>5, <1>6, <1>7, <1>8 DEF FieldNext

\* Where nobody waits it says nothing.
LEMMA FitIdle == ~fieldMode.waits /\ UNCHANGED fieldVars => FitInv'
  BY DEF FitInv, fieldVars

\* Two places picked from suggestions fit.
LEMMA FitsPicked == FieldInv /\ FitInv => PickedPairFits
<1> SUFFICES ASSUME FieldInv, FitInv, fieldMode.waits, planMode.tidy, ~fieldMode.submits,
                    \A e \in Ends : kind[e] = "suggestions" /\ place[e] # NoWord
             PROVE  InBand(place["from"], place["to"])
  BY DEF PickedPairFits
<1>1. "from" \in Ends /\ "to" \in Ends
  BY DEF Ends
<1>2. library = "suggestions"
  BY <1>1 DEF FieldInv, FieldKnown
<1> QED
  BY <1>1, <1>2 DEF FitInv

-----------------------------------------------------------------------------
(* The administrator's console.                                            *)

Feed == [filter: OrderFilters, quiet: BOOLEAN, frees: BOOLEAN,
         got: SUBSET {"orders", "users"}, seen: Listing, team: [Staff -> Roles]]
Asked == [want: Wanted, filter: OrderFilters, done: BOOLEAN]
Accounts == [Staff -> [role: Roles, session: BOOLEAN]]

ServerTyped == row \in [AdminOrders -> Row] /\ account \in Accounts
PageTyped ==
    /\ filter \in OrderFilters /\ timer \in OrderFilters \union {NoTimer}
    /\ seen \in Listing /\ team \in [Staff -> Roles]
BusyTyped == busy \in AdminOrders \union Staff \union {"tick", "none"}
FeedsTyped == feeds \in Seq(Feed) /\ Len(feeds) <= MaxFeeds /\ adminLoading \in BOOLEAN
AskedTyped == requests \in Seq(Asked)
BoundsTyped ==
    /\ presses \in 0..MaxPresses /\ moves \in 0..1 /\ adminFaults \in 0..1
    /\ adminMode \in AdminModes

AdminKnown == ServerTyped /\ PageTyped /\ BusyTyped /\ FeedsTyped /\ AskedTyped /\ BoundsTyped

\* The parts make the types of the console.
LEMMA AdminIsTyped == AdminKnown => AdminTypes
<1> SUFFICES ASSUME AdminKnown PROVE AdminTypes
  OBVIOUS
<1>1. {moves, adminFaults} \subseteq 0..1
  BY Zenon DEF AdminKnown, BoundsTyped
<1> QED
  BY <1>1, Zenon DEF AdminTypes, AdminKnown, ServerTyped, PageTyped, BusyTyped, FeedsTyped, AskedTyped,
     BoundsTyped, Feed, Asked, Accounts

\* The console before it is opened.
LEMMA AdminInitTyped == AdminInit => AdminKnown
<1> SUFFICES ASSUME AdminInit PROVE AdminKnown
  OBVIOUS
<1>1. row \in [AdminOrders -> Row]
  <2>1. [status: {"pending"}, rider: {NoRider}] \subseteq Row
    BY DEF Row, Status
  <2> QED  BY <2>1 DEF AdminInit
<1>2. account \in Accounts
  BY DEF AdminInit, Accounts, Roles
<1>3. PageTyped
  BY AdminAssumption DEF AdminInit, PageTyped, Listing, Roles
<1>4. FeedsTyped /\ AskedTyped
  <2>1. feeds = <<>> /\ requests = <<>> /\ adminLoading = TRUE
    BY DEF AdminInit
  <2>2. Len(<<>>) = 0 /\ <<>> \in Seq(Feed) /\ <<>> \in Seq(Asked) /\ 0 <= MaxFeeds
    BY AdminAssumption
  <2> QED  BY <2>1, <2>2 DEF FeedsTyped, AskedTyped
<1>5. BoundsTyped
  BY AdminAssumption DEF AdminInit, BoundsTyped, AdminMode
<1>6. BusyTyped
  BY DEF AdminInit, BusyTyped
<1> QED
  BY <1>1, <1>2, <1>3, <1>4, <1>5, <1>6 DEF AdminKnown, ServerTyped

\* The refreshes in flight, one by one.
LEMMA FeedFacts ==
    FeedsTyped => /\ DOMAIN feeds = 1..Len(feeds) /\ Len(feeds) \in Nat /\ MaxFeeds \in Nat
                  /\ \A i \in DOMAIN feeds : feeds[i] \in Feed
<1> SUFFICES ASSUME FeedsTyped
             PROVE  /\ DOMAIN feeds = 1..Len(feeds) /\ Len(feeds) \in Nat /\ MaxFeeds \in Nat
                    /\ \A i \in DOMAIN feeds : feeds[i] \in Feed
  OBVIOUS
<1>1. feeds \in Seq(Feed)
  BY DEF FeedsTyped
<1> QED
  BY <1>1, AdminAssumption

\* The edits in flight, one by one.
LEMMA AskedFacts ==
    AskedTyped => /\ DOMAIN requests = 1..Len(requests)
                  /\ \A i \in DOMAIN requests : requests[i] \in Asked
<1> SUFFICES ASSUME AskedTyped
             PROVE  /\ DOMAIN requests = 1..Len(requests)
                    /\ \A i \in DOMAIN requests : requests[i] \in Asked
  OBVIOUS
<1>1. requests \in Seq(Asked)
  BY DEF AskedTyped
<1> QED
  BY <1>1

\* A refresh is one more request for all lists.
LEMMA RefreshTyped ==
    FeedsTyped /\ PageTyped => \A f \in OrderFilters, quiet \in BOOLEAN, frees \in BOOLEAN :
        Refresh(f, quiet, frees) => FeedsTyped'
<1> SUFFICES ASSUME FeedsTyped, PageTyped, NEW f \in OrderFilters, NEW quiet \in BOOLEAN,
                    NEW frees \in BOOLEAN, Refresh(f, quiet, frees)
             PROVE  FeedsTyped'
  OBVIOUS
<1> DEFINE u == [filter |-> f, quiet |-> quiet, frees |-> frees, got |-> {}, seen |-> {}, team |-> team]
<1>1. feeds' = Append(feeds, u) /\ Len(feeds) < MaxFeeds /\ adminLoading' = (adminLoading \/ ~quiet)
  BY DEF Refresh
<1>2. u \in Feed
  BY DEF Feed, PageTyped, Listing
<1> HIDE DEF u
<1>3. feeds \in Seq(Feed) /\ Len(feeds) \in Nat /\ MaxFeeds \in Nat
  BY FeedFacts DEF FeedsTyped
<1>4. feeds' \in Seq(Feed) /\ Len(feeds') <= MaxFeeds
  BY <1>1, <1>2, <1>3
<1>5. adminLoading' \in BOOLEAN
  BY <1>1
<1> QED
  BY <1>4, <1>5 DEF FeedsTyped

\* What the admin routes list is orders with their rows, and users with their roles.
LEMMA RowsListed ==
    ServerTyped => (\A f \in OrderFilters : OrdersList(f) \in Listing) /\ UsersList \in [Staff -> Roles]
<1> SUFFICES ASSUME ServerTyped
             PROVE  (\A f \in OrderFilters : OrdersList(f) \in Listing) /\ UsersList \in [Staff -> Roles]
  OBVIOUS
<1>1. \A o \in AdminOrders : row[o] \in Row
  BY DEF ServerTyped
<1>2. \A f \in OrderFilters : OrdersList(f) \subseteq AdminOrders \X Row
  BY <1>1 DEF OrdersList
<1>3. \A u \in Staff : account[u].role \in Roles
  BY DEF ServerTyped, Accounts
<1> QED
  BY <1>2, <1>3 DEF Listing, UsersList

\* One list of a refresh is answered.
LEMMA FeedServedTyped ==
    AdminKnown => \A i \in DOMAIN feeds, part \in {"orders", "users"} :
        FeedServed(i, part) => AdminKnown'
<1> SUFFICES ASSUME AdminKnown, NEW i \in DOMAIN feeds, NEW part \in {"orders", "users"},
                    FeedServed(i, part)
             PROVE  AdminKnown'
  OBVIOUS
<1> DEFINE f == feeds[i]
           s == IF part = "orders" THEN OrdersList(f.filter) ELSE f.seen
           t == IF part = "users" THEN UsersList ELSE f.team
           u == [[[f EXCEPT !.got = f.got \union {part}] EXCEPT !.seen = s] EXCEPT !.team = t]
<1>1. f \in Feed /\ feeds \in Seq(Feed)
  BY FeedFacts DEF AdminKnown, FeedsTyped
<1>2. feeds' = [feeds EXCEPT ![i] = u]
  BY <1>1 DEF FeedServed
<1>3. s \in Listing /\ t \in [Staff -> Roles]
  BY <1>1, RowsListed DEF AdminKnown, Feed
<1> HIDE DEF s, t
<1>4. u \in Feed
  BY <1>1, <1>3 DEF Feed
<1> HIDE DEF u
<1>5. i \in 1..Len(feeds)
  BY FeedFacts DEF AdminKnown
<1>6. feeds' \in Seq(Feed) /\ Len(feeds') = Len(feeds)
  BY <1>1, <1>2, <1>4, <1>5
<1>7. UNCHANGED <<serverVars, pageVars, adminLoading, busy, requests, boundVars>>
  BY DEF FeedServed
<1>8. FeedsTyped'
  BY <1>6, <1>7 DEF AdminKnown, FeedsTyped
<1> QED
  BY <1>7, <1>8 DEF AdminKnown, ServerTyped, PageTyped, BusyTyped, AskedTyped, BoundsTyped,
     serverVars, pageVars, boundVars

\* A refresh ends, shown or not.
LEMMA FeedEndsTyped ==
    AdminKnown => \A i \in DOMAIN feeds : FeedShown(i) \/ FeedFails(i) => AdminKnown'
<1> SUFFICES ASSUME AdminKnown, NEW i \in DOMAIN feeds, FeedShown(i) \/ FeedFails(i)
             PROVE  AdminKnown'
  OBVIOUS
<1>1. FeedEnds(i)
  BY DEF FeedShown, FeedFails
<1>2. feeds[i] \in Feed /\ feeds \in Seq(Feed) /\ i \in 1..Len(feeds) /\ Len(feeds) \in Nat /\ MaxFeeds \in Nat
  BY FeedFacts DEF AdminKnown, FeedsTyped
<1>3. /\ feeds' = RemoveAt(feeds, i) /\ adminLoading' = (adminLoading /\ feeds[i].quiet)
      /\ busy' = IF feeds[i].frees THEN "none" ELSE busy
      /\ UNCHANGED <<serverVars, filter, timer, requests, presses, moves, adminMode>>
  BY <1>1 DEF FeedEnds
<1>4. feeds' \in Seq(Feed) /\ Len(feeds') = Len(feeds) - 1
  BY <1>2, <1>3, RemovedAt
<1>5. adminLoading' \in BOOLEAN
  BY <1>3
<1>6. FeedsTyped'
  BY <1>2, <1>4, <1>5 DEF AdminKnown, FeedsTyped
<1>7. BusyTyped'
  BY <1>3 DEF AdminKnown, BusyTyped
<1>8. seen' \in Listing /\ team' \in [Staff -> Roles]
  BY <1>2 DEF FeedShown, FeedFails, AdminKnown, PageTyped, Feed
<1>9. adminFaults' \in 0..1
  BY DEF FeedShown, FeedFails, AdminKnown, BoundsTyped
<1> QED
  BY <1>3, <1>6, <1>7, <1>8, <1>9 DEF AdminKnown, ServerTyped, PageTyped, AskedTyped, BoundsTyped, serverVars

\* A filter, or the first render: one more refresh, and the interval for it.
LEMMA FilterTyped ==
    AdminKnown /\ (OpenConsole \/ PressRefresh \/ PollFeed \/ \E f \in OrderFilters : SetFilter(f))
        => AdminKnown'
<1> SUFFICES ASSUME AdminKnown,
                    OpenConsole \/ PressRefresh \/ PollFeed \/ \E f \in OrderFilters : SetFilter(f)
             PROVE  AdminKnown'
  OBVIOUS
<1>1. FALSE \in BOOLEAN /\ TRUE \in BOOLEAN
  OBVIOUS
<1>2. CASE OpenConsole
  <2>1. FeedsTyped'
    BY <1>1, <1>2, RefreshTyped DEF OpenConsole, AdminKnown, PageTyped
  <2> QED
    BY <1>2, <2>1 DEF OpenConsole, AdminKnown, ServerTyped, PageTyped, BusyTyped, AskedTyped,
       BoundsTyped, serverVars, boundVars
<1>3. CASE PressRefresh
  <2>1. FeedsTyped'
    BY <1>1, <1>3, RefreshTyped DEF PressRefresh, AdminKnown, PageTyped
  <2> QED
    BY <1>3, <2>1 DEF PressRefresh, AdminKnown, ServerTyped, PageTyped, BusyTyped, AskedTyped,
       BoundsTyped, serverVars, pageVars, boundVars
<1>4. CASE PollFeed
  <2>1. FeedsTyped'
    BY <1>1, <1>4, RefreshTyped DEF PollFeed, AdminKnown, PageTyped
  <2> QED
    BY <1>4, <2>1 DEF PollFeed, AdminKnown, ServerTyped, PageTyped, BusyTyped, AskedTyped,
       BoundsTyped, serverVars, pageVars, boundVars
<1>5. CASE \E f \in OrderFilters : SetFilter(f)
  <2>1. PICK f \in OrderFilters : SetFilter(f)
    BY <1>5
  <2>2. FeedsTyped'
    BY <1>1, <2>1, RefreshTyped DEF SetFilter, AdminKnown
  <2>3. presses' \in 0..MaxPresses
    BY <2>1, AdminAssumption DEF SetFilter, AdminKnown, BoundsTyped
  <2> QED
    BY <2>1, <2>2, <2>3 DEF SetFilter, AdminKnown, ServerTyped, PageTyped, BusyTyped, AskedTyped,
       BoundsTyped, serverVars
<1> QED
  BY <1>2, <1>3, <1>4, <1>5

\* A control is pressed: one more edit in flight.
LEMMA PressTyped == AdminKnown => \A want \in Wanted : Press(want) => AdminKnown'
<1> SUFFICES ASSUME AdminKnown, NEW want \in Wanted, Press(want)
             PROVE  AdminKnown'
  OBVIOUS
<1> DEFINE u == [want |-> want, filter |-> filter, done |-> FALSE]
<1>1. /\ busy' = IF want.kind = "tick" THEN "tick" ELSE want.on
      /\ requests' = Append(requests, u) /\ presses < MaxPresses /\ presses' = presses + 1
      /\ UNCHANGED <<serverVars, pageVars, adminLoading, feeds, moves, adminFaults, adminMode>>
  BY DEF Press
<1>2. u \in Asked
  BY DEF Asked, AdminKnown, PageTyped
<1> HIDE DEF u
<1>3. requests' \in Seq(Asked)
  BY <1>1, <1>2 DEF AdminKnown, AskedTyped
<1>4. want.on \in AdminOrders \union Staff
  BY AdminAssumption DEF Wanted
<1>5. busy' \in AdminOrders \union Staff \union {"tick", "none"}
  BY <1>1, <1>4
<1>6. presses' \in 0..MaxPresses
  BY <1>1, AdminAssumption DEF AdminKnown, BoundsTyped
<1> QED
  BY <1>1, <1>3, <1>5, <1>6 DEF AdminKnown, ServerTyped, PageTyped, BusyTyped, FeedsTyped, AskedTyped,
     BoundsTyped, serverVars, pageVars

\* What a request asks of the server, by its kind.
LEMMA WantFacts ==
    \A want \in Wanted :
        /\ want.kind = "assign" => want.on \in AdminOrders /\ want.to \in Staff \union {NoRider}
        /\ want.kind = "cancel" => want.on \in AdminOrders
        /\ want.kind = "role" => want.on \in Staff /\ want.to \in Roles
        /\ want.kind = "revoke" => want.on \in Staff
  BY DEF Wanted

\* The server changes the row or the account that the edit names.
LEMMA EditServedTyped ==
    AdminKnown => \A i \in DOMAIN requests : EditServed(i) => AdminKnown'
<1> SUFFICES ASSUME AdminKnown, NEW i \in DOMAIN requests, EditServed(i)
             PROVE  AdminKnown'
  OBVIOUS
<1> DEFINE want == requests[i].want
           u == [requests[i] EXCEPT !.done = TRUE]
<1>1. requests[i] \in Asked /\ requests \in Seq(Asked)
  BY AskedFacts DEF AdminKnown, AskedTyped
<1>2. want \in Wanted
  BY <1>1 DEF Asked
<1>3. u \in Asked
  BY <1>1 DEF Asked
<1>4. requests' = [requests EXCEPT ![i] = u]
  BY <1>1 DEF EditServed
<1>5. /\ row' = CASE want.kind = "assign" -> [row EXCEPT ![want.on].rider = want.to]
                  [] want.kind = "cancel" -> [row EXCEPT ![want.on].status = "cancelled"]
                  [] OTHER -> row
      /\ account' = CASE want.kind = "role" -> [account EXCEPT ![want.on].role = want.to]
                      [] want.kind = "revoke" -> [account EXCEPT ![want.on].session = FALSE]
                      [] OTHER -> account
      /\ UNCHANGED <<pageVars, adminLoading, busy, feeds, boundVars>>
  BY DEF EditServed
<1> HIDE DEF want, u
<1>6. requests' \in Seq(Asked)
  BY <1>1, <1>3, <1>4
<1>7. row' \in [AdminOrders -> Row]
  <2>1. row \in [AdminOrders -> Row]
    BY DEF AdminKnown, ServerTyped
  <2>2. CASE want.kind = "assign"
    <3>1. want.on \in AdminOrders /\ want.to \in Staff \union {NoRider}
      BY <1>2, <2>2, WantFacts
    <3>2. row' = [row EXCEPT ![want.on].rider = want.to]
      BY <1>5, <2>2
    <3> QED  BY <2>1, <3>1, <3>2 DEF Row
  <2>3. CASE want.kind = "cancel"
    <3>1. want.on \in AdminOrders
      BY <1>2, <2>3, WantFacts
    <3>2. row' = [row EXCEPT ![want.on].status = "cancelled"]
      BY <1>5, <2>3
    <3> QED  BY <2>1, <3>1, <3>2 DEF Row, Status
  <2>4. CASE want.kind \notin {"assign", "cancel"}
    BY <1>5, <2>1, <2>4
  <2> QED  BY <2>2, <2>3, <2>4
<1>8. account' \in Accounts
  <2>1. account \in Accounts
    BY DEF AdminKnown, ServerTyped
  <2>2. CASE want.kind = "role"
    <3>1. want.on \in Staff /\ want.to \in Roles
      BY <1>2, <2>2, WantFacts
    <3>2. account' = [account EXCEPT ![want.on].role = want.to]
      BY <1>5, <2>2
    <3> QED  BY <2>1, <3>1, <3>2 DEF Accounts
  <2>3. CASE want.kind = "revoke"
    <3>1. want.on \in Staff
      BY <1>2, <2>3, WantFacts
    <3>2. account' = [account EXCEPT ![want.on].session = FALSE]
      BY <1>5, <2>3
    <3> QED  BY <2>1, <3>1, <3>2 DEF Accounts
  <2>4. CASE want.kind \notin {"role", "revoke"}
    BY <1>5, <2>1, <2>4
  <2> QED  BY <2>2, <2>3, <2>4
<1> QED
  BY <1>5, <1>6, <1>7, <1>8 DEF AdminKnown, ServerTyped, PageTyped, BusyTyped, FeedsTyped, AskedTyped,
     BoundsTyped, pageVars, boundVars

\* An edit is answered by a refresh, or fails.
LEMMA EditEndsTyped ==
    AdminKnown => \A i \in DOMAIN requests : EditAnswered(i) \/ EditFails(i) => AdminKnown'
<1> SUFFICES ASSUME AdminKnown, NEW i \in DOMAIN requests, EditAnswered(i) \/ EditFails(i)
             PROVE  AdminKnown'
  OBVIOUS
<1>1. requests[i] \in Asked /\ requests \in Seq(Asked) /\ i \in 1..Len(requests)
  BY AskedFacts DEF AdminKnown, AskedTyped
<1>2. requests' = RemoveAt(requests, i)
  BY DEF EditAnswered, EditFails
<1>3. AskedTyped'
  BY <1>1, <1>2, RemovedAt DEF AskedTyped
<1>4. CASE EditAnswered(i)
  <2>1. requests[i].filter \in OrderFilters /\ TRUE \in BOOLEAN
    BY <1>1 DEF Asked
  <2>2. FeedsTyped'
    BY <1>4, <2>1, RefreshTyped DEF EditAnswered, AdminKnown
  <2> QED
    BY <1>3, <1>4, <2>2 DEF EditAnswered, AdminKnown, ServerTyped, PageTyped, BusyTyped, BoundsTyped,
       serverVars, pageVars, boundVars
<1>5. CASE EditFails(i)
  <2>1. busy' = "none" /\ UNCHANGED <<serverVars, pageVars, adminLoading, feeds, presses, moves, adminMode>>
    BY <1>5 DEF EditFails
  <2>2. adminFaults' \in 0..1
    BY <1>5 DEF EditFails, AdminKnown, BoundsTyped
  <2> QED
    BY <1>3, <2>1, <2>2 DEF AdminKnown, ServerTyped, PageTyped, BusyTyped, FeedsTyped, BoundsTyped,
       serverVars, pageVars
<1> QED
  BY <1>4, <1>5

\* Riders and other administrators change rows and accounts.
LEMMA OthersTyped == AdminKnown /\ OthersMove => AdminKnown'
<1> SUFFICES ASSUME AdminKnown, OthersMove PROVE AdminKnown'
  OBVIOUS
<1>1. moves' \in 0..1
  BY DEF OthersMove, AdminKnown, BoundsTyped
<1>2. row' \in [AdminOrders -> Row]
  <2>1. row \in [AdminOrders -> Row]
    BY DEF AdminKnown, ServerTyped
  <2> QED  BY <2>1 DEF OthersMove, Row, Status
<1>3. account' \in Accounts
  <2>1. account \in Accounts
    BY DEF AdminKnown, ServerTyped
  <2> QED  BY <2>1 DEF OthersMove, Accounts, Roles
<1>4. UNCHANGED <<pageVars, adminLoading, busy, feeds, requests, presses, adminFaults, adminMode>>
  BY DEF OthersMove
<1> QED
  BY <1>1, <1>2, <1>3, <1>4 DEF AdminKnown, ServerTyped, PageTyped, BusyTyped, FeedsTyped, AskedTyped,
     BoundsTyped, pageVars

\* One step of the console keeps it.
LEMMA AdminStep == AdminKnown /\ [AdminNext]_adminVars => AdminKnown'
<1> SUFFICES ASSUME AdminKnown, [AdminNext]_adminVars PROVE AdminKnown'
  OBVIOUS
<1>1. CASE OpenConsole \/ PressRefresh \/ PollFeed \/ \E f \in OrderFilters : SetFilter(f)
  BY <1>1, FilterTyped
<1>2. CASE OthersMove
  BY <1>2, OthersTyped
<1>3. CASE \E want \in Wanted : Press(want)
  BY <1>3, PressTyped
<1>4. CASE \E i \in DOMAIN feeds :
              \/ \E part \in {"orders", "users"} : FeedServed(i, part)
              \/ FeedShown(i) \/ FeedFails(i)
  BY <1>4, FeedServedTyped, FeedEndsTyped
<1>5. CASE \E i \in DOMAIN requests : EditServed(i) \/ EditAnswered(i) \/ EditFails(i)
  BY <1>5, EditServedTyped, EditEndsTyped
<1>6. CASE UNCHANGED adminVars
  BY <1>6 DEF adminVars, AdminKnown, ServerTyped, PageTyped, BusyTyped, FeedsTyped, AskedTyped, BoundsTyped
<1> QED
  BY <1>1, <1>2, <1>3, <1>4, <1>5, <1>6 DEF AdminNext

-----------------------------------------------------------------------------
(* The pages together.                                                     *)

\* Where the fields are not the scene they are plain, and nobody waits at them.
SceneInv ==
    scene # "filling" => (\A e \in Ends : kind[e] # "suggestions") /\ ~fieldMode.waits

PagesInv ==
    /\ TrackTypes /\ OffStays
    /\ PlanKnown /\ TypedInv /\ StopsInv
    /\ FieldInv /\ FitInv /\ SceneInv
    /\ AdminKnown

\* All pages start together.
LEMMA PagesInit == Init => PagesInv
<1> SUFFICES ASSUME Init PROVE PagesInv
  OBVIOUS
<1>1. TrackInit /\ PlanInit /\ FieldInit /\ AdminInit
  BY DEF Init
<1>2. SceneInv
  <2> SUFFICES ASSUME scene # "filling"
               PROVE  (\A e \in Ends : kind[e] # "suggestions") /\ ~fieldMode.waits
    BY DEF SceneInv
  <2>1. fieldMode = [keyed |-> FALSE, waits |-> FALSE, submits |-> FALSE]
    BY DEF Init, Filling
  <2>2. ~fieldMode.waits /\ ~fieldMode.keyed
    BY <2>1
  <2>3. \A e \in Ends : kind[e] = "fallback"
    BY <1>1, <2>2 DEF FieldInit, Mounted
  <2> QED  BY <2>2, <2>3
<1> QED
  BY <1>1, <1>2, TrackTypesInit, CalmInit, PlanKnownInit, TypedInit, StopsInit, FieldInvInit, FitInit,
     AdminInitTyped DEF PagesInv

\* The pages that are not the scene stand still, and so do their invariants.
LEMMA TrackStands == TrackTypes /\ OffStays /\ UNCHANGED trackVars => TrackTypes' /\ OffStays'
  BY TrackTypesStep, OffStaysStep

\* So does planning.
LEMMA PlanStands ==
    PlanKnown /\ TypedInv /\ StopsInv /\ UNCHANGED planVars => PlanKnown' /\ TypedInv' /\ StopsInv'
  BY PlanKnownStep, TypedStep, StopsStep

\* So do the fields of its form.
LEMMA FieldsStand ==
    FieldInv /\ FitInv /\ UNCHANGED <<planVars, fieldVars>> => FieldInv' /\ FitInv'
<1> SUFFICES ASSUME FieldInv, FitInv, UNCHANGED <<planVars, fieldVars>> PROVE FieldInv' /\ FitInv'
  OBVIOUS
<1>1. /\ UNCHANGED <<text, place, picks, submits, planMode>>
      /\ UNCHANGED <<script, library, kind, due, fetches, offers, open, fieldMode>>
  BY DEF planVars, fieldVars
<1>2. FieldInv'
  BY <1>1, FieldStays DEF FieldInv, FieldKnown
<1>3. FitInv'
  BY <1>1, FitStays
<1> QED
  BY <1>2, <1>3

\* So does the console.
LEMMA AdminStands == AdminKnown /\ UNCHANGED adminVars => AdminKnown'
  BY AdminStep

\* One step of the scene keeps them all.
LEMMA PagesStep ==
    PagesInv /\ [Next]_<<scene, trackVars, planVars, fieldVars, adminVars>> => PagesInv'
<1> SUFFICES ASSUME PagesInv, [Next]_<<scene, trackVars, planVars, fieldVars, adminVars>>
             PROVE  PagesInv'
  OBVIOUS
<1>0. /\ TrackTypes /\ OffStays /\ PlanKnown /\ TypedInv /\ StopsInv /\ FieldInv /\ FitInv
      /\ SceneInv /\ AdminKnown /\ scene' = scene
  BY DEF PagesInv, Next
<1>1. CASE scene = "tracking" /\ TrackNext /\ UNCHANGED <<planVars, fieldVars, adminVars>>
  <2>1. SceneInv'
    BY <1>0, <1>1 DEF SceneInv, fieldVars
  <2>2. TrackTypes' /\ OffStays'
    BY <1>0, <1>1, TrackTypesStep, OffStaysStep
  <2> QED  BY <1>0, <1>1, <2>1, <2>2, PlanStands, FieldsStand, AdminStands DEF PagesInv
<1>2. CASE scene = "planning" /\ PlanNext /\ UNCHANGED <<trackVars, fieldVars, adminVars>>
  <2>1. SceneInv'
    BY <1>0, <1>2 DEF SceneInv, fieldVars
  <2>2. PlanKnown' /\ TypedInv' /\ StopsInv'
    BY <1>0, <1>2, PlanKnownStep, TypedStep, StopsStep
  <2>3. FieldInv' /\ FitInv'
    BY <1>0, <1>2, FieldIdle, FitIdle DEF SceneInv
  <2> QED  BY <1>0, <1>2, <2>1, <2>2, <2>3, TrackStands, AdminStands DEF PagesInv
<1>3. CASE scene = "filling" /\ FieldNext /\ UNCHANGED <<trackVars, adminVars>>
  <2>1. SceneInv'
    BY <1>0, <1>3 DEF SceneInv
  <2>2. PlanNext \/ RemountForm \/ UNCHANGED planVars
    BY <1>3, FieldStepIsPlanStep
  <2>3. PlanKnown' /\ TypedInv' /\ StopsInv'
    BY <1>0, <2>2, PlanKnownStep, TypedStep, StopsStep
  <2>4. FieldInv' /\ FitInv'
    BY <1>0, <1>3, FieldStep, FitStep
  <2> QED  BY <1>0, <1>3, <2>1, <2>3, <2>4, TrackStands, AdminStands DEF PagesInv
<1>4. CASE scene = "managing" /\ AdminNext /\ UNCHANGED <<trackVars, planVars, fieldVars>>
  <2>1. SceneInv'
    BY <1>0, <1>4 DEF SceneInv, fieldVars
  <2>2. AdminKnown'
    BY <1>0, <1>4, AdminStep
  <2> QED  BY <1>0, <1>4, <2>1, <2>2, TrackStands, PlanStands, FieldsStand DEF PagesInv
<1>5. CASE UNCHANGED <<scene, trackVars, planVars, fieldVars, adminVars>>
  <2>1. SceneInv'
    BY <1>0, <1>5 DEF SceneInv, fieldVars
  <2> QED  BY <1>0, <1>5, <2>1, TrackStands, PlanStands, FieldsStand, AdminStands DEF PagesInv
<1> QED
  BY <1>1, <1>2, <1>3, <1>4, <1>5 DEF Next

\* The invariant of the pages holds in every state.
LEMMA PagesKeep == Spec => []PagesInv
<1>1. Init => PagesInv
  BY PagesInit
<1>2. PagesInv /\ [Next]_<<scene, trackVars, planVars, fieldVars, adminVars>> => PagesInv'
  BY PagesStep
<1> QED
  BY <1>1, <1>2, PTL DEF Spec

\* The pages keep their types: answers that come late, for a page that was left,
\* for another order or journey, or not at all, leave nothing in the state that
\* the code does not declare (TrackOrder.tsx, stores/journey.ts,
\* PlaceAutocompleteInput.tsx, AdminDashboard.tsx).
THEOREM PagesAreTyped == Spec => []PagesTypes
<1>1. PagesInv => PagesTypes
  BY KnownIsTyped, FieldsAreTyped, AdminIsTyped DEF PagesInv, PagesTypes
<1> QED
  BY <1>1, PagesKeep, PTL

\* Sharing switched off on the tracking page stays off there for a customer who
\* waits for the answers, when they come in order: no poll and no GPS position
\* that was under way brings it back (TrackOrder.tsx, use-live-location.ts).
THEOREM SharingStaysOff == Spec => []SwitchedOffStaysOff
<1>1. PagesInv => SwitchedOffStaysOff
  BY DEF PagesInv, OffStays, OffInv, SwitchedOffStaysOff
<1> QED
  BY <1>1, PagesKeep, PTL

\* The form means what it shows: a journey is analysed between the addresses that
\* stood in it, a settled field offers what belongs to its text and to the place
\* at the other end, and two places picked from such offers are neither too near
\* nor too far apart (QuickRouteForm.tsx, PlaceAutocompleteInput.tsx).
THEOREM FormIsMeant == Spec => []FormMeansWhatItShows
<1>1. TypedInv => JourneyAsTyped
  BY DEF TypedInv, JourneyAsTyped
<1>2. PagesInv => FormMeansWhatItShows
  BY <1>1, OffersCurrent, FitsPicked DEF PagesInv, FormMeansWhatItShows
<1> QED
  BY <1>2, PagesKeep, PTL

\* The stops on the page are those of the journey in the store, for a customer who
\* waits for his submissions and for the stops he asked for: no late load puts the
\* stops of an earlier journey under a new one (stores/journey.ts, Intercepts.tsx).
THEOREM StopsBelong == Spec => []StopsAreOfJourney
<1>1. PagesInv => StopsAreOfJourney
  BY DEF PagesInv, StopsInv, StopsAreOfJourney
<1> QED
  BY <1>1, PagesKeep, PTL
=============================================================================
