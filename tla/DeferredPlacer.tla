--------------------------- MODULE DeferredPlacer ---------------------------
(***************************************************************************)
(* Deferred placement of "auto" orders: the ticks of                       *)
(* services/fusion/deferred-placer.ts, the DELETE handler of               *)
(* routes/orders.ts that races them, and the crash of the one process that *)
(* runs both.  Every await in the code is a point where another handler    *)
(* may run, so every action below is the code between two awaits that      *)
(* matter: the read of a row, the place call, and the write-back are       *)
(* separate steps, and a write-back uses what was read, not what is there. *)
(*                                                                         *)
(* A tick is a slot of Ticks.  The interval fires every 20 s whether or    *)
(* not the previous tick has finished, and POST /admin/fusion/tick starts  *)
(* one more, so as many ticks overlap as there are slots.                  *)
(***************************************************************************)
EXTENDS Integers

CONSTANTS
    Orders,        \* rows of the orders table with timingType "auto"
    Ticks,         \* slots of concurrently running ticks
    MAX_ATTEMPTS,  \* failures after which a row is given up
    AttemptCap,    \* bound: placeAttempts is not counted above this value
    MaxSid,        \* bound: orders the Swiggy account ever receives
    Faults,        \* what the environment may do, a subset of FaultKinds
    NoOrder, NoSid

FaultKinds ==
    { "no_token",    \* the stored Swiggy token is gone or cannot be decrypted
      "lost_reply",  \* a place call is executed and its reply is lost
      "throw",       \* a call on the way raises instead of answering
      "no_id",       \* the place reply carries no orderId
      "recover",     \* the client answers with an id found by its orders probe
      "crash" }      \* the process dies and restarts

ASSUME PlacerAssumption ==
    /\ MAX_ATTEMPTS \in Nat \ {0}
    /\ AttemptCap \in Nat /\ AttemptCap >= MAX_ATTEMPTS
    /\ MaxSid \in Nat
    /\ Faults \subseteq FaultKinds
    /\ NoOrder \notin Orders
    /\ NoSid \notin 1..MaxSid

VARIABLES
    rows,      \* the orders table
    issued,    \* how many orders Swiggy has accepted: their ids are 1..issued
    upstream,  \* for each Swiggy id, the row it was placed for, the slot that
               \* placed it, and whether the placer never received its reply
    tick,      \* the running ticks
    cancel     \* the DELETE handler of each order

vars == <<rows, issued, upstream, tick, cancel>>

Sids == 1..MaxSid
Attempts == 0..AttemptCap
\* "absent" is a row that has not been inserted yet; due is autoPlaceAt <= now.
Row == [status: {"absent", "pending", "confirmed", "cancelled", "failed"},
        sid: Sids \union {NoSid}, attempts: Attempts, due: BOOLEAN]
Busy == {"read", "placing", "accepted", "rejected", "threw"}
Tick == [pc: Busy \union {"off", "loop"}, todo: SUBSET Orders,
         order: Orders \union {NoOrder}, seen: Attempts,
         got: Sids \union {NoSid}]
SwiggyOrder == [order: Orders \union {NoOrder}, by: Ticks \union {NoOrder},
                unacked: BOOLEAN]

Idle == [pc |-> "off", todo |-> {}, order |-> NoOrder, seen |-> 0, got |-> NoSid]
Unused == [order |-> NoOrder, by |-> NoOrder, unacked |-> FALSE]

TypeOK ==
    /\ rows \in [Orders -> Row]
    /\ issued \in 0..MaxSid
    /\ upstream \in [Sids -> SwiggyOrder]
    /\ tick \in [Ticks -> Tick]
    /\ cancel \in [Orders -> {"idle", "checked"}]

Init ==
    /\ rows = [o \in Orders |-> [status |-> "absent", sid |-> NoSid,
                                 attempts |-> 0, due |-> FALSE]]
    /\ issued = 0
    /\ upstream = [s \in Sids |-> Unused]
    /\ tick = [t \in Ticks |-> Idle]
    /\ cancel = [o \in Orders |-> "idle"]

\* Mutant: the attempts are counted down from the budget.
Bump_Down(n) == n - 1

\* placeAttempts + 1; the code compares it with 1 and MAX_ATTEMPTS only, so
\* the values above AttemptCap need not be told apart.
Bump(n) == IF n < AttemptCap THEN n + 1 ELSE n

\* Tick t is between its read of o's row and its last write to it.
Working(t, o) == tick[t].order = o /\ tick[t].pc \in Busy

\* Tick t has the reply that acknowledges its own order s, not yet recorded.
Holds(t, s) ==
    /\ tick[t].pc = "accepted" /\ tick[t].got = s
    /\ upstream[s].by = t /\ upstream[s].order = tick[t].order

\* The replies for the orders in S are lost with the code that held them.
Forget(S) ==
    [s \in Sids |-> IF s \in S THEN [upstream[s] EXCEPT !.unacked = TRUE]
                              ELSE upstream[s]]

Placements(o) == {s \in 1..issued : upstream[s].order = o}
-----------------------------------------------------------------------------
(* Rows and time                                                           *)

\* placeOrder queues an auto order: the row is inserted as pending, and
\* autoPlaceAt may already be in the past.
Submit(o) ==
    /\ rows[o].status = "absent"
    /\ \E d \in BOOLEAN :
         rows' = [rows EXCEPT ![o].status = "pending", ![o].due = d]
    /\ UNCHANGED <<issued, upstream, tick, cancel>>

\* The clock reaches the row's autoPlaceAt.
BecomeDue(o) ==
    /\ rows[o].status # "absent" /\ ~rows[o].due
    /\ rows' = [rows EXCEPT ![o].due = TRUE]
    /\ UNCHANGED <<issued, upstream, tick, cancel>>

-----------------------------------------------------------------------------
(* DELETE /orders/:id                                                      *)

CancelCheck(o) ==
    /\ cancel[o] = "idle"
    /\ rows[o].status \in {"pending", "confirmed"}
    /\ cancel' = [cancel EXCEPT ![o] = "checked"]
    /\ UNCHANGED <<rows, issued, upstream, tick>>

CancelWrite(o) ==
    /\ cancel[o] = "checked"
    /\ rows' = [rows EXCEPT ![o].status = "cancelled"]
    /\ cancel' = [cancel EXCEPT ![o] = "idle"]
    /\ UNCHANGED <<issued, upstream, tick>>

-----------------------------------------------------------------------------
(* tickDeferredPlacer                                                      *)

Selected(o) == rows[o].status = "pending" /\ rows[o].sid = NoSid /\ rows[o].due

StartTick(t) ==
    /\ tick[t].pc = "off"
    /\ \E o \in Orders : Selected(o)
    /\ tick' = [tick EXCEPT ![t].pc = "loop", ![t].todo = {o \in Orders : Selected(o)}]
    /\ UNCHANGED <<rows, issued, upstream, cancel>>

EndTick(t) ==
    /\ tick[t].pc = "loop" /\ tick[t].todo = {}
    /\ tick' = [tick EXCEPT ![t] = Idle]
    /\ UNCHANGED <<rows, issued, upstream, cancel>>

\* The next iteration of the loop over the due rows.
NextIteration(t) ==
    [Idle EXCEPT !.pc = "loop", !.todo = tick[t].todo]

-----------------------------------------------------------------------------
(* placeDeferred                                                           *)

\* Mutant: the row is not re-read after the selection.
StillPlaceable_Unchecked(o) == rows[o].sid = NoSid

StillPlaceable(o) == rows[o].sid = NoSid /\ rows[o].status = "pending"

\* placeDeferred reads the row again: its checks pass ...
ReadRow(t, o) ==
    /\ tick[t].pc = "loop" /\ o \in tick[t].todo
    /\ StillPlaceable(o)
    /\ tick' = [tick EXCEPT ![t] =
                  [pc |-> "read", todo |-> tick[t].todo \ {o}, order |-> o,
                   seen |-> rows[o].attempts, got |-> NoSid]]
    /\ UNCHANGED <<rows, issued, upstream, cancel>>

\* ... or the row has been placed, cancelled or given up since the selection.
SkipRow(t, o) ==
    /\ tick[t].pc = "loop" /\ o \in tick[t].todo
    /\ ~StillPlaceable(o)
    /\ tick' = [tick EXCEPT ![t].todo = @ \ {o}]
    /\ UNCHANGED <<rows, issued, upstream, cancel>>

\* No payload, no user or no token: one more attempt is noted and the row
\* stays pending and due, whatever the count.
NoToken(t) ==
    /\ "no_token" \in Faults
    /\ tick[t].pc = "read"
    /\ rows' = [rows EXCEPT ![tick[t].order].attempts = Bump(tick[t].seen)]
    /\ tick' = [tick EXCEPT ![t] = NextIteration(t)]
    /\ UNCHANGED <<issued, upstream, cancel>>

\* The halt gate fails on the first attempt: try again in 15 s.
HoldForGate(t) ==
    /\ tick[t].pc = "read" /\ tick[t].seen < 1
    /\ rows' = [rows EXCEPT ![tick[t].order].attempts = Bump(tick[t].seen),
                            ![tick[t].order].due = FALSE]
    /\ tick' = [tick EXCEPT ![t] = NextIteration(t)]
    /\ UNCHANGED <<issued, upstream, cancel>>

\* The gate passes, or has already been waited for once: the cart is rebuilt
\* and the place call is sent.
PassGate(t) ==
    /\ tick[t].pc = "read"
    /\ tick' = [tick EXCEPT ![t].pc = "placing"]
    /\ UNCHANGED <<rows, issued, upstream, cancel>>

\* Swiggy executes a place call of tick t.
Execute(t, lost) ==
    /\ issued < MaxSid
    /\ issued' = issued + 1
    /\ upstream' = [upstream EXCEPT ![issued + 1] =
                      [order |-> tick[t].order, by |-> t, unacked |-> lost]]

Accepted(t) ==
    /\ tick[t].pc = "placing"
    /\ Execute(t, FALSE)
    /\ tick' = [tick EXCEPT ![t].pc = "accepted", ![t].got = issued + 1]
    /\ UNCHANGED <<rows, cancel>>

\* The reply is a success without an orderId.
AcceptedWithoutId(t) ==
    /\ "no_id" \in Faults
    /\ tick[t].pc = "placing"
    /\ Execute(t, TRUE)
    /\ tick' = [tick EXCEPT ![t].pc = "accepted"]
    /\ UNCHANGED <<rows, cancel>>

\* The call was executed, its reply was lost, and the client tries again.
LoseReply(t) ==
    /\ "lost_reply" \in Faults
    /\ tick[t].pc = "placing"
    /\ Execute(t, TRUE)
    /\ UNCHANGED <<rows, tick, cancel>>

\* After a transport failure the client answers with the id of an order that
\* its probe of the account's orders found.
Recovered(t) ==
    /\ "recover" \in Faults
    /\ tick[t].pc = "placing"
    /\ \E s \in 1..issued :
         tick' = [tick EXCEPT ![t].pc = "accepted", ![t].got = s]
    /\ UNCHANGED <<rows, issued, upstream, cancel>>

Rejected(t) ==
    /\ tick[t].pc = "placing"
    /\ tick' = [tick EXCEPT ![t].pc = "rejected"]
    /\ UNCHANGED <<rows, issued, upstream, cancel>>

\* The timing calls, the cart calls or the place call raise.
Throw(t) ==
    /\ "throw" \in Faults
    /\ tick[t].pc \in {"read", "placing"}
    /\ tick' = [tick EXCEPT ![t].pc = "threw"]
    /\ UNCHANGED <<rows, issued, upstream, cancel>>

\* Mutant: the orderId is read from a field the reply does not have.
RecordSuccess_NoId(t) ==
    /\ tick[t].pc = "accepted"
    /\ rows' = [rows EXCEPT ![tick[t].order].status = "confirmed",
                            ![tick[t].order].attempts = Bump(tick[t].seen)]
    /\ tick' = [tick EXCEPT ![t] = NextIteration(t)]
    /\ UNCHANGED <<issued, upstream, cancel>>

\* Mutant: only the orderId is written, the status is left to the tracker.
RecordSuccess_NoStatus(t) ==
    /\ tick[t].pc = "accepted"
    /\ rows' = [rows EXCEPT ![tick[t].order].sid = tick[t].got,
                            ![tick[t].order].attempts = Bump(tick[t].seen)]
    /\ tick' = [tick EXCEPT ![t] = NextIteration(t)]
    /\ UNCHANGED <<issued, upstream, cancel>>

\* An absent orderId leaves the column as it is.
RecordedId(t) ==
    IF tick[t].got = NoSid THEN rows[tick[t].order].sid ELSE tick[t].got

\* Success is written by id, whatever the row has become meanwhile.
RecordSuccess(t) ==
    /\ tick[t].pc = "accepted"
    /\ rows' = [rows EXCEPT ![tick[t].order].status = "confirmed",
                            ![tick[t].order].sid = RecordedId(t),
                            ![tick[t].order].attempts = Bump(tick[t].seen)]
    /\ tick' = [tick EXCEPT ![t] = NextIteration(t)]
    /\ UNCHANGED <<issued, upstream, cancel>>

\* The write of the success itself raises: the reply dies with the exception.
WriteBackFails(t) ==
    /\ "throw" \in Faults
    /\ tick[t].pc = "accepted"
    /\ upstream' = Forget({s \in Sids : Holds(t, s)})
    /\ tick' = [tick EXCEPT ![t].pc = "threw", ![t].got = NoSid]
    /\ UNCHANGED <<rows, issued, cancel>>

\* Mutant: a refused order is always put back in the queue.
LastAttempt_Never(n) == FALSE

LastAttempt(n) == n >= MAX_ATTEMPTS

\* A refused place call backs off for 60 s per attempt ...
BackOff(t) ==
    /\ tick[t].pc = "rejected" /\ ~LastAttempt(Bump(tick[t].seen))
    /\ rows' = [rows EXCEPT ![tick[t].order].status = "pending",
                            ![tick[t].order].due = FALSE,
                            ![tick[t].order].attempts = Bump(tick[t].seen)]
    /\ tick' = [tick EXCEPT ![t] = NextIteration(t)]
    /\ UNCHANGED <<issued, upstream, cancel>>

\* ... until the last one, which gives the row up.
GiveUp(t) ==
    /\ tick[t].pc = "rejected" /\ LastAttempt(Bump(tick[t].seen))
    /\ rows' = [rows EXCEPT ![tick[t].order].status = "failed",
                            ![tick[t].order].attempts = Bump(tick[t].seen)]
    /\ tick' = [tick EXCEPT ![t] = NextIteration(t)]
    /\ UNCHANGED <<issued, upstream, cancel>>

\* The tick's catch block counts the failure in SQL and moves neither the
\* status nor autoPlaceAt.
RecordThrow(t) ==
    /\ tick[t].pc = "threw"
    /\ rows' = [rows EXCEPT ![tick[t].order].attempts = Bump(@)]
    /\ tick' = [tick EXCEPT ![t] = NextIteration(t)]
    /\ UNCHANGED <<issued, upstream, cancel>>

-----------------------------------------------------------------------------
\* The process dies and restarts: ticks and handlers are gone, the table and
\* Swiggy are not.  A reply that was not yet recorded is lost with its tick.
Crash ==
    /\ "crash" \in Faults
    /\ upstream' = Forget({s \in Sids : \E t \in Ticks : Holds(t, s)})
    /\ tick' = [t \in Ticks |-> Idle]
    /\ cancel' = [o \in Orders |-> "idle"]
    /\ UNCHANGED <<rows, issued>>

PlaceReply(t) ==
    \/ Accepted(t) \/ AcceptedWithoutId(t) \/ Recovered(t) \/ Rejected(t)

TickStep(t) ==
    \/ EndTick(t)
    \/ \E o \in Orders : ReadRow(t, o) \/ SkipRow(t, o)
    \/ NoToken(t) \/ HoldForGate(t) \/ PassGate(t) \/ PlaceReply(t) \/ Throw(t)
    \/ RecordSuccess(t) \/ WriteBackFails(t)
    \/ BackOff(t) \/ GiveUp(t) \/ RecordThrow(t)

Next ==
    \/ \E o \in Orders :
         Submit(o) \/ BecomeDue(o) \/ CancelCheck(o) \/ CancelWrite(o)
    \/ \E t \in Ticks : StartTick(t) \/ TickStep(t) \/ LoseReply(t)
    \/ Crash

Spec == Init /\ [][Next]_vars

\* The interval keeps firing, time passes, and every await of a tick resumes.
Fairness ==
    /\ \A o \in Orders : WF_vars(BecomeDue(o))
    /\ \A t \in Ticks : WF_vars(StartTick(t)) /\ WF_vars(TickStep(t))

FairSpec == Spec /\ Fairness
-----------------------------------------------------------------------------
(* Properties                                                              *)

\* An order Swiggy acknowledged to a tick is either still in that tick's hands
\* or its row has an orderId: the placer never forgets that a row was placed.
\* With the next property: a row is placed twice only by two overlapping
\* ticks, or because a reply was lost, raised over, or died with the process.
AckedIsHeldOrPlaced ==
    \A s \in 1..issued :
      \/ upstream[s].unacked
      \/ Holds(upstream[s].by, s)
      \/ rows[upstream[s].order].sid # NoSid

\* Two acknowledged Swiggy orders for one row were placed by different ticks
\* that overlapped: placeDeferred's checks stop one tick from doing it twice,
\* however often the row goes back to pending in between.
DuplicatesAreAccountedFor ==
    \A r, s \in 1..issued :
      (/\ r # s /\ upstream[r].order = upstream[s].order
       /\ ~upstream[r].unacked /\ ~upstream[s].unacked)
      => upstream[r].by # upstream[s].by

\* A row that has left "pending" and is in no tick's hands.
Settled(o) ==
    /\ rows[o].status \in {"confirmed", "cancelled", "failed"}
    /\ \A t \in Ticks : ~Working(t, o)

\* Once a row is settled no tick returns it to the queue or places it, even a
\* tick that had selected it before: the cancellation of a row that is not
\* being placed is final.
SettledStaysSettled ==
    [][\A o \in Orders :
         Settled(o) => Settled(o)' /\ Placements(o)' = Placements(o)]_vars

\* When ticks do not overlap, every Swiggy order the placer was told about is
\* the one its row records: none is lost, overwritten or recorded as failed.
KnownOrderIsRecorded ==
    \A s \in 1..issued :
      \/ upstream[s].unacked
      \/ Holds(upstream[s].by, s)
      \/ rows[upstream[s].order].sid = s

\* When ticks do not overlap, a row that has a Swiggy order is shown as placed
\* or cancelled, never as waiting for placement or failed.
PlacedRowLooksPlaced ==
    \A o \in Orders :
      rows[o].sid # NoSid => rows[o].status \in {"confirmed", "cancelled"}

\* A missing token, a raised call or a crash.
Fault == Crash \/ \E t \in Ticks : NoToken(t) \/ Throw(t) \/ WriteBackFails(t)

\* If faults come to an end, every queued row is eventually placed, cancelled or
\* given up, although each refusal and the halt gate put it back in the queue.
QueuedRowSettles ==
    <>[][~Fault]_vars =>
      \A o \in Orders : rows[o].status = "pending" ~> rows[o].status # "pending"

-----------------------------------------------------------------------------
(* A statement of the documents that the code does not keep                *)

\* Requirement FR-6.4: existing orders are checked before a retry, so no row
\* is ever ordered twice.
NoDuplicateDelivery ==
    \A r, s \in 1..issued : upstream[r].order = upstream[s].order => r = s
=============================================================================
