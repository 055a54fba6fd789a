----------------------------- MODULE PlaceCall -----------------------------
(***************************************************************************)
(* What a place call is to its caller: while it is open Swiggy may execute *)
(* it, more than once, without the caller hearing of it; it ends, in one   *)
(* of four ways, and stays so.     These are the outcomes DeferredPlacer   *)
(* gives its placing ticks (Accepted, LoseReply, Recovered, Rejected,      *)
(* Throw); SwiggyClient is the code behind them.                           *)
(***************************************************************************)
EXTENDS Sequences, Naturals

CONSTANTS Calls, Others, MaxSid

VARIABLES
    placed,   \* the orders of the Swiggy account: which call each is from
    outcome   \* how each call has ended, and the id its caller was given

Idle == [how |-> "idle", sid |-> 0]
Open == [how |-> "open", sid |-> 0]
End(c, how, sid) == outcome' = [outcome EXCEPT ![c] = [how |-> how, sid |-> sid]]

Init ==
    /\ placed \in Seq({Others})
    /\ outcome = [c \in Calls |-> Idle]

Ask(c) ==
    /\ outcome[c] = Idle /\ outcome' = [outcome EXCEPT ![c] = Open]
    /\ UNCHANGED placed

LoseReply(c) ==
    /\ outcome[c] = Open /\ placed' = Append(placed, c)
    /\ UNCHANGED outcome

Accepted(c) ==
    /\ outcome[c] = Open /\ placed' = Append(placed, c)
    /\ End(c, "ok", Len(placed) + 1)

Recovered(c) ==
    /\ outcome[c] = Open
    /\ \E s \in 1..Len(placed) : End(c, "ok", s)
    /\ UNCHANGED placed

Rejected(c) ==
    /\ outcome[c] = Open
    /\ End(c, "refused", 0)
    /\ UNCHANGED placed

\* The last attempt may have been executed too.
Throw(c) ==
    /\ outcome[c] = Open
    /\ End(c, "threw", 0)
    /\ placed' \in {placed, Append(placed, c)}

Next ==
    \E c \in Calls :
      Ask(c) \/ LoseReply(c) \/ Accepted(c) \/ Recovered(c) \/ Rejected(c) \/ Throw(c)

CallsEnd == \A c \in Calls : outcome[c] = Open ~> outcome[c] # Open

Steps == Init /\ [][Next]_<<placed, outcome>>

Spec == Steps /\ CallsEnd
=============================================================================
