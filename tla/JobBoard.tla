------------------------------ MODULE JobBoard ------------------------------
(***************************************************************************)
(* What the rider portal promises of a delivery: one rider at a time has   *)
(* it.  A rider may believe that a delivery is his only after he was told  *)
(* so, and the delivery goes to another rider only after he has given it   *)
(* up.                                                                     *)
(***************************************************************************)
CONSTANTS Orders, Riders, NoRider

VARIABLES
    owner,   \* the rider each delivery is recorded for
    told     \* the riders who were told that they have it and have not given it up

Init ==
    /\ owner = [o \in Orders |-> NoRider]
    /\ told = [o \in Orders |-> {}]

Take(r, o) ==
    /\ owner[o] = NoRider
    /\ owner' = [owner EXCEPT ![o] = r]
    /\ UNCHANGED told

\* Being told again, when a claim is repeated, is a stutter.
Tell(r, o) ==
    /\ owner[o] = r
    /\ told' = [told EXCEPT ![o] = @ \union {r}]
    /\ UNCHANGED owner

GiveUp(r, o) ==
    /\ owner[o] = r
    /\ told' = [told EXCEPT ![o] = @ \ {r}]
    /\ UNCHANGED owner

Vacate(r, o) ==
    /\ owner[o] = r /\ r \notin told[o]
    /\ owner' = [owner EXCEPT ![o] = NoRider]
    /\ UNCHANGED told

Next ==
    \E o \in Orders, r \in Riders :
      Take(r, o) \/ Tell(r, o) \/ GiveUp(r, o) \/ Vacate(r, o)

Spec == Init /\ [][Next]_<<owner, told>>

\* At most one rider believes that he has a delivery, and the table agrees.
OneHolder == \A o \in Orders : told[o] \subseteq {owner[o]}
=============================================================================
