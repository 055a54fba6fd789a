--------------------------- MODULE TrackingPoller ---------------------------
(***************************************************************************)
(* The tracking poller of services/tracking/poller.ts.  Every order that   *)
(* is tracked has a chain: a timer, the poll it fires, and the check that  *)
(* re-arms it.  The in-memory registry maps an order to the timer of its   *)
(* chain; handlers that write the order's status run between the steps.    *)
(***************************************************************************)
EXTENDS FiniteSets

CONSTANTS
    Orders,    \* orders that have a Swiggy id
    Chains,    \* bound: timers and polls that may exist at once
    Faults,    \* a subset of {"call", "throw", "crash"}: a failing Swiggy call,
               \* a database error in the callback, a restart of the process
    NoChain, NoOrder

ASSUME PollerAssumption ==
    /\ Faults \subseteq {"call", "throw", "crash"}
    /\ NoChain \notin Chains /\ NoOrder \notin Orders

\* The statuses that are polled for, and all that normalizeTracking accepts.
ACTIVE_STATUSES == {"confirmed", "preparing", "out_for_delivery"}
Status == ACTIVE_STATUSES \union {"delivered", "cancelled"}

VARIABLES
    row,       \* orders.status
    swiggy,    \* the status of the order at Swiggy
    registry,  \* activePollers: the chain whose timer handle is stored
    chain,     \* the chains: timers that are armed and callbacks that run
    cancel     \* the DELETE handler of each order

vars == <<row, swiggy, registry, chain, cancel>>

Chain == [pc: {"none", "armed", "polling", "writing", "recheck", "retry"},
          order: Orders \union {NoOrder}, got: Status \union {"unknown"}]
NoTimer == [pc |-> "none", order |-> NoOrder, got |-> "unknown"]

TypeOK ==
    /\ row \in [Orders -> Status]
    /\ swiggy \in [Orders -> Status]
    /\ registry \in [Orders -> Chains \union {NoChain}]
    /\ chain \in [Chains -> Chain]
    /\ cancel \in [Orders -> {"idle", "checked"}]

Init ==
    /\ row = [o \in Orders |-> "confirmed"]
    /\ swiggy = [o \in Orders |-> "confirmed"]
    /\ registry = [o \in Orders |-> NoChain]
    /\ chain = [c \in Chains |-> NoTimer]
    /\ cancel = [o \in Orders |-> "idle"]

Armed(o) == [pc |-> "armed", order |-> o, got |-> "unknown"]

\* Mutant: the timer that is already there is not cleared, and not looked for.
Track_Again(o) ==
    \E c \in Chains :
      /\ chain[c].pc = "none"
      /\ chain' = [chain EXCEPT ![c] = Armed(o)]
      /\ registry' = [registry EXCEPT ![o] = c]
      /\ UNCHANGED <<row, swiggy, cancel>>

\* startPolling, called when an order is placed and by every GET /track of an
\* order with a Swiggy id, whatever its status.
Track(o) ==
    /\ registry[o] = NoChain
    /\ \E c \in Chains :
         /\ chain[c].pc = "none"
         /\ chain' = [chain EXCEPT ![c] = Armed(o)]
         /\ registry' = [registry EXCEPT ![o] = c]
    /\ UNCHANGED <<row, swiggy, cancel>>

\* The chain's timer fires; its handle stays in the registry.
Fire(c) ==
    /\ chain[c].pc = "armed"
    /\ chain' = [chain EXCEPT ![c].pc = "polling"]
    /\ UNCHANGED <<row, swiggy, registry, cancel>>

\* Mutant: a status of the later phases is not recognised.
Normalize_Early(s) == IF s = "confirmed" THEN s ELSE "unknown"

\* Mutant: Swiggy's own word for a status is stored as it comes.
Normalize_Raw(s) == IF s = "confirmed" THEN "PLACED" ELSE s

\* normalizeTracking keeps a status only if it is an active one.
Normalize(s) == IF s \in ACTIVE_STATUSES THEN s ELSE "unknown"

\* Swiggy answers with the status of this moment.
SwiggyAnswers(c) ==
    /\ chain[c].pc = "polling"
    /\ chain' = [chain EXCEPT ![c].pc = "writing",
                              ![c].got = Normalize(swiggy[chain[c].order])]
    /\ UNCHANGED <<row, swiggy, registry, cancel>>

\* The call fails: pollOrder returns early and the loop goes on to its check.
CallFails(c) ==
    /\ "call" \in Faults
    /\ chain[c].pc = "polling"
    /\ chain' = [chain EXCEPT ![c].pc = "recheck"]
    /\ UNCHANGED <<row, swiggy, registry, cancel>>

\* The status of the answer is written, whatever the row says by now.
WriteStatus(c) ==
    /\ chain[c].pc = "writing"
    /\ row' = IF chain[c].got = "unknown" THEN row
              ELSE [row EXCEPT ![chain[c].order] = chain[c].got]
    /\ chain' = [chain EXCEPT ![c].pc = "recheck", ![c].got = "unknown"]
    /\ UNCHANGED <<swiggy, registry, cancel>>

\* schedule: the timer that the registry holds is cleared, a new one is armed.
\* A callback that is already running is not stopped by clearTimeout.
Schedule(c, o) ==
    LET old == registry[o] IN
    /\ chain' = [d \in Chains |->
                   IF d = c THEN Armed(o)
                   ELSE IF d = old /\ chain[d].pc \in {"armed", "retry"} THEN NoTimer
                   ELSE chain[d]]
    /\ registry' = [registry EXCEPT ![o] = c]

\* Mutant: the loop goes on for every order that is not cancelled.
StillActive_NotCancelled(o) == row[o] # "cancelled"

StillActive(o) == row[o] \in ACTIVE_STATUSES

Rearm(c) ==
    /\ chain[c].pc = "recheck" /\ StillActive(chain[c].order)
    /\ Schedule(c, chain[c].order)
    /\ UNCHANGED <<row, swiggy, cancel>>

Stop(c) ==
    /\ chain[c].pc = "recheck" /\ ~StillActive(chain[c].order)
    /\ chain' = [chain EXCEPT ![c] = NoTimer]
    /\ registry' = [registry EXCEPT ![chain[c].order] = NoChain]
    /\ UNCHANGED <<row, swiggy, cancel>>

\* The callback raises: a timer that will schedule the next poll takes its place.
Throw(c) ==
    /\ "throw" \in Faults
    /\ chain[c].pc \in {"polling", "writing", "recheck"}
    /\ chain' = [chain EXCEPT ![c].pc = "retry", ![c].got = "unknown"]
    /\ registry' = [registry EXCEPT ![chain[c].order] = c]
    /\ UNCHANGED <<row, swiggy, cancel>>

Retry(c) ==
    /\ chain[c].pc = "retry"
    /\ Schedule(c, chain[c].order)
    /\ UNCHANGED <<row, swiggy, cancel>>

-----------------------------------------------------------------------------
(* Around the poller                                                       *)

\* Swiggy moves the order on.
SwiggyMoves(o) ==
    /\ \E next \in CASE swiggy[o] = "confirmed" -> {"preparing", "cancelled"}
                     [] swiggy[o] = "preparing" -> {"out_for_delivery", "cancelled"}
                     [] swiggy[o] = "out_for_delivery" -> {"delivered"}
                     [] OTHER -> {} :
         swiggy' = [swiggy EXCEPT ![o] = next]
    /\ UNCHANGED <<row, registry, chain, cancel>>

CancelCheck(o) ==
    /\ cancel[o] = "idle" /\ row[o] = "confirmed"
    /\ cancel' = [cancel EXCEPT ![o] = "checked"]
    /\ UNCHANGED <<row, swiggy, registry, chain>>

\* Neither Swiggy nor the poller hears of the cancellation.
CancelWrite(o) ==
    /\ cancel[o] = "checked"
    /\ row' = [row EXCEPT ![o] = "cancelled"]
    /\ cancel' = [cancel EXCEPT ![o] = "idle"]
    /\ UNCHANGED <<swiggy, registry, chain>>

\* A rider of the portal marks the delivery as done.
RiderDelivers(o) ==
    /\ row[o] = "out_for_delivery"
    /\ row' = [row EXCEPT ![o] = "delivered"]
    /\ UNCHANGED <<swiggy, registry, chain, cancel>>

\* The registry and the timers do not survive the process, and bootstrapPolling
\* resumes none of them.
Crash ==
    /\ "crash" \in Faults
    /\ registry' = [o \in Orders |-> NoChain]
    /\ chain' = [c \in Chains |-> NoTimer]
    /\ cancel' = [o \in Orders |-> "idle"]
    /\ UNCHANGED <<row, swiggy>>

\* What the event loop goes on with by itself.
PollStep(c) ==
    \/ Fire(c) \/ SwiggyAnswers(c) \/ CallFails(c) \/ WriteStatus(c)
    \/ Rearm(c) \/ Stop(c) \/ Retry(c)

Next ==
    \/ \E o \in Orders : \/ Track(o) \/ SwiggyMoves(o) \/ RiderDelivers(o)
                         \/ CancelCheck(o) \/ CancelWrite(o)
    \/ \E c \in Chains : PollStep(c) \/ Throw(c)
    \/ Crash

Spec == Init /\ [][Next]_vars

\* Timers fire and calls return.
FairSpec == Spec /\ \A c \in Chains : WF_vars(PollStep(c))
-----------------------------------------------------------------------------
(* Properties                                                              *)

ChainsOf(o) == {c \in Chains : chain[c].pc # "none" /\ chain[c].order = o}

\* An order has at most one timer or poll, and the registry knows it: however
\* often it is tracked, fails or is retried, Swiggy is not polled twice as
\* often, and a chain that ends can be started again.
RegistryIsExact ==
    \A o \in Orders :
      ChainsOf(o) = IF registry[o] = NoChain THEN {} ELSE {registry[o]}

\* A failing call, a callback that raises, or a restart.
Fault == Crash \/ \E c \in Chains : CallFails(c) \/ Throw(c)

\* Once calls and callbacks no longer fail and the process stays up: while an
\* order is tracked and Swiggy reports an active status, the row catches up
\* with it, unless the order moves on or tracking ends.
StatusCatchesUp ==
    <>[][~Fault]_vars =>
      \A o \in Orders, s \in ACTIVE_STATUSES :
        (registry[o] # NoChain /\ swiggy[o] = s)
        ~> (row[o] = s \/ swiggy[o] # s \/ registry[o] = NoChain)

\* Tracking ends once neither the row nor Swiggy has the order as active and no
\* older answer of Swiggy is still to be written: such an answer reopens the row.
Over(o) ==
    /\ row[o] \notin ACTIVE_STATUSES /\ swiggy[o] \notin ACTIVE_STATUSES
    /\ \A c \in ChainsOf(o) : chain[c].got = "unknown"

TrackingEnds ==
    <>[][~Fault]_vars => \A o \in Orders : Over(o) ~> registry[o] = NoChain

-----------------------------------------------------------------------------
(* A statement of the documents that the code does not keep                *)

\* The order lifecycle goes from tracking to delivered: a tracked order that
\* Swiggy has delivered is eventually recorded as delivered, or not tracked.
DeliveryIsSeen ==
    \A o \in Orders :
      (registry[o] # NoChain /\ swiggy[o] = "delivered")
      ~> (row[o] = "delivered" \/ registry[o] = NoChain)
=============================================================================
