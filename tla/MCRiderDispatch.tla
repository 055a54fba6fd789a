-------------------------- MODULE MCRiderDispatch --------------------------
(* Model-checking instance of RiderDispatch: who uses which request slot.   *)
EXTENDS RiderDispatch, TLC

CONSTANTS r1, r2, h1, h2

\* Two riders with a request each; a rider and the customer, who may cancel; a
\* rider and the admin.
Teams ==
    { h1 :> r1 @@ h2 :> r2, h1 :> r1 @@ h2 :> Customer, h1 :> r1 @@ h2 :> Admin }
=============================================================================
