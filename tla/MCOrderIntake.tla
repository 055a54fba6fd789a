--------------------------- MODULE MCOrderIntake ---------------------------
(* Model-checking instances of OrderIntake: the hops a customer wants, the   *)
(* requests that ask for them, and the circumstances.                        *)
EXTENDS OrderIntake, TLC

CONSTANTS h1, h2, h3, r1, r2, elsewhere

\* One request for two hops, one for a third; each hop has its own kitchen,
\* items and intercept.
TwoHops == r1 :> <<h1, h2>> @@ r2 :> <<h3>>
Own == [h \in Hops |-> h]
FirstMoves == {<<h1, elsewhere>>}

AllNow == [h \in Hops |-> "now"]
FirstAuto == [h \in Hops |-> IF h = h1 THEN "auto" ELSE "now"]

\* A customer who waits for his answers, without the placer, while the cart is
\* always updated; the same with the placer, while the orders can be listed too;
\* requests that overlap each other while the orders can be listed; requests
\* that overlap each other and the placer.
WaitsOrOverlaps ==
    { [waits |-> TRUE, placer |-> FALSE, faults |-> FaultKinds \ {"cart"}],
      [waits |-> TRUE, placer |-> TRUE, faults |-> FaultKinds \ {"orders", "cart"}],
      [waits |-> FALSE, placer |-> FALSE, faults |-> FaultKinds \ {"orders"}],
      [waits |-> FALSE, placer |-> TRUE, faults |-> {"db", "cart", "throw"}] }

Calm == { [waits |-> TRUE, placer |-> FALSE, faults |-> {}] }
=============================================================================
