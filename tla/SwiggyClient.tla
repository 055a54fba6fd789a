---------------------------- MODULE SwiggyClient ----------------------------
(***************************************************************************)
(* callTool of services/swiggy/client.ts for the two tools that must not   *)
(* be repeated blindly, place_food_order and checkout: the attempts, the   *)
(* probe of the account's orders between them, and what the caller is told.*)
(* Several calls may run for one Swiggy account.  Swiggy is external: it   *)
(* executes an attempt or not, and its answer may be lost, an HTTP error,  *)
(* or not JSON.                                                            *)
(***************************************************************************)
EXTENDS Naturals, Sequences, FiniteSets

CONSTANTS
    Calls,         \* place calls on one account
    MAX_ATTEMPTS,  \* RETRY_STRATEGY.MAX_ATTEMPTS
    MaxSid,        \* bound: orders the account ever has
    Earlier,       \* orders the account may have before the calls
    Faults,        \* a subset of FaultKinds
    Others         \* the origin of the earlier orders

FaultKinds ==
    { "transport",    \* fetch raises: the request or the reply is lost
      "server",       \* HTTP 5xx with a JSON body
      "not_json",     \* a reply of another content type, a gateway's page
      "rate_limit",   \* HTTP 429
      "probe" }       \* the probe's own request fails

ASSUME ClientAssumption ==
    /\ MAX_ATTEMPTS \in Nat \ {0}
    /\ MaxSid \in Nat /\ Earlier \in 0..MaxSid
    /\ Faults \subseteq FaultKinds
    /\ Others \notin Calls

VARIABLES
    placed,   \* the account's orders, oldest first, by the call they are from
    call,     \* where each call is, its attempt, and how it ended
    blind     \* history: the attempts each call has repeated although the last one
              \* may have been executed

vars == <<placed, call, blind>>

\* The same calls as their callers see them.
Account == INSTANCE PlaceCall WITH outcome <-
    [c \in Calls |-> IF call[c].pc = "idle" THEN [how |-> "idle", sid |-> 0] ELSE call[c].result]

Call == [pc: {"idle", "send", "probe", "done"}, attempt: 1..MAX_ATTEMPTS,
         result: [how: {"open", "ok", "refused", "threw"}, sid: 0..MaxSid]]

TypeOK ==
    /\ placed \in Seq(Calls \union {Others}) /\ Len(placed) <= MaxSid
    /\ call \in [Calls -> Call]
    /\ blind \in [Calls -> 0..MAX_ATTEMPTS - 1]

Init ==
    /\ \E n \in 0..Earlier : placed = [s \in 1..n |-> Others]
    /\ call = [c \in Calls |-> 
              [pc |-> "idle", attempt |-> 1, result |-> Account!Open]]
    /\ blind = [c \in Calls |-> 0]

Start(c) ==
    /\ call[c].pc = "idle"
    /\ call' = [call EXCEPT ![c].pc = "send"]
    /\ UNCHANGED <<placed, blind>>

-----------------------------------------------------------------------------
(* Helpers                                                                 *)

Executed(c) == Len(placed) < MaxSid /\ placed' = Append(placed, c)

\* Swiggy may or may not have executed the attempt.
MaybeExecuted(c) == UNCHANGED placed \/ Executed(c)

Return(c, how, sid) ==
    call' = [call EXCEPT ![c].pc = "done", ![c].result = [how |-> how, sid |-> sid]]

IsLast(c) == call[c].attempt = MAX_ATTEMPTS

NextAttempt(c) ==
    call' = [call EXCEPT ![c].pc = "send", ![c].attempt = @ + 1]

RepeatBlindly(c) == NextAttempt(c) /\ blind' = [blind EXCEPT ![c] = @ + 1]

-----------------------------------------------------------------------------
(* One attempt                                                             *)

Succeed(c) ==
    /\ call[c].pc = "send"
    /\ Executed(c)
    /\ Return(c, "ok", Len(placed) + 1)
    /\ UNCHANGED blind

\* A failure on HTTP 200, or a 4xx: the envelope is returned as it is.
Refuse(c) ==
    /\ call[c].pc = "send"
    /\ Return(c, "refused", 0)
    /\ UNCHANGED <<placed, blind>>

\* 429: the client sleeps for as long as the header says, and asks again.
RateLimited(c) ==
    /\ "rate_limit" \in Faults
    /\ call[c].pc = "send"
    /\ IF IsLast(c) THEN Return(c, "threw", 0) ELSE NextAttempt(c)
    /\ UNCHANGED <<placed, blind>>

\* A 5xx is retried at once, with neither the probe nor a delay.
ServerError(c) ==
    /\ "server" \in Faults
    /\ call[c].pc = "send"
    /\ MaybeExecuted(c)
    /\ IF IsLast(c) THEN Return(c, "threw", 0) /\ UNCHANGED blind ELSE RepeatBlindly(c)

\* Not retryable: callTool raises, whether or not the order was placed.
NotJson(c) ==
    /\ "not_json" \in Faults
    /\ call[c].pc = "send"
    /\ MaybeExecuted(c)
    /\ Return(c, "threw", 0)
    /\ UNCHANGED blind

\* Mutant: a place call is retried like any other.
TransportFails_NoProbe(c) ==
    /\ "transport" \in Faults
    /\ call[c].pc = "send"
    /\ MaybeExecuted(c)
    /\ IF IsLast(c) THEN Return(c, "threw", 0) ELSE NextAttempt(c)
    /\ UNCHANGED blind

\* The last attempt is not followed by a probe.
TransportFails(c) ==
    /\ "transport" \in Faults
    /\ call[c].pc = "send"
    /\ MaybeExecuted(c)
    /\ IF IsLast(c)
       THEN Return(c, "threw", 0)
       ELSE call' = [call EXCEPT ![c].pc = "probe"]
    /\ UNCHANGED blind

-----------------------------------------------------------------------------
(* probeRecentOrderId                                                      *)

\* The list is newest first.  The probe takes the first order of the last
\* three minutes and, if there is none, the first order: the newest either way.
Probed == Len(placed)

\* Mutant: an empty list of orders is not looked out for.
ProbeFinds_Unguarded(c) ==
    /\ call[c].pc = "probe"
    /\ Return(c, "ok", Probed)
    /\ UNCHANGED <<placed, blind>>

ProbeFinds(c) ==
    /\ call[c].pc = "probe" /\ placed # <<>>
    /\ Return(c, "ok", Probed)
    /\ UNCHANGED <<placed, blind>>

ProbeFindsNothing(c) ==
    /\ call[c].pc = "probe" /\ placed = <<>>
    /\ NextAttempt(c)
    /\ UNCHANGED <<placed, blind>>

\* The probe's own request failed: the next attempt, as if there were no order.
ProbeFails(c) ==
    /\ "probe" \in Faults
    /\ call[c].pc = "probe"
    /\ RepeatBlindly(c)
    /\ UNCHANGED placed

Step(c) ==
    \/ Succeed(c) \/ Refuse(c) \/ RateLimited(c) \/ ServerError(c)
    \/ NotJson(c) \/ TransportFails(c) \/ ProbeFinds(c) \/ ProbeFindsNothing(c)
    \/ ProbeFails(c)

Next == \E c \in Calls : Start(c) \/ Step(c)

Spec == Init /\ [][Next]_vars

\* Every attempt is answered or fails, and every sleep ends.
FairSpec == Spec /\ \A c \in Calls : WF_vars(Step(c))
-----------------------------------------------------------------------------
(* Properties                                                              *)

\* The client shows its caller nothing but the outcomes of PlaceCall, the ones
\* DeferredPlacer is built on, and every call it has begun comes to one of them,
\* whatever fails.
ImplementsPlaceCall == Account!Spec

OrdersOf(c) == {s \in 1..Len(placed) : placed[s] = c}

\* However calls on one account overlap and Swiggy fails, a place call is executed
\* more than once only for an attempt that was repeated blindly, after a 5xx or
\* after a probe that failed; and a call that ends in a refusal has only those.
ExecutionsAreAccountedFor ==
    \A c \in Calls :
      Cardinality(OrdersOf(c)) <=
        blind[c] + (IF call[c].result.how = "refused" THEN 0 ELSE 1)
=============================================================================
