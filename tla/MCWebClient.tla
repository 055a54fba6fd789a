---- MODULE MCWebClient ----
(***************************************************************************)
(* What runs in a browser: the session (WebSession over the server's       *)
(* AuthSessions), the way from the menu to an order (Checkout), and the    *)
(* rider's console (RiderConsole).  They share no state, so an initial     *)
(* state is about one of them, the scene, and the others stand still.      *)
(***************************************************************************)
EXTENDS WebSession, Checkout, RiderConsole, TLC
CONSTANTS ann, ben, t1, t2, f1, a1, a1x, b1, p1, ka, kb, j1, j2

RolesOf == ann :> "user" @@ ben :> "rider"
FlowsTo == f1 :> ann
Browsing(tabs, slots, flows, faults) ==
    [tabs |-> tabs, slots |-> slots, flows |-> flows, faults |-> faults]
BrowsingModes ==
    {Browsing({t1, t2}, {1}, {}, {}),
     Browsing({t1}, {1, 2}, {f1}, {"restart"}),
     Browsing({t1}, {1}, {f1}, {"link", "reorder", "unreachable"}),
     Browsing({t1}, {1}, {f1}, {"expire", "revoke", "restart"})}

Items == a1 :> a1 @@ a1x :> a1 @@ b1 :> b1 @@ p1 :> p1
Sellers == a1 :> ka @@ b1 :> kb @@ p1 :> Store
Buying(servers, stops, offered, coupon, habits) ==
    [servers |-> servers, stops |-> stops, offered |-> offered, coupon |-> coupon,
     habits |-> habits]
BuyingModes ==
    {Buying({"food"}, 1, {a1}, FALSE, {"edit"}),
     Buying({"food"}, 1, {a1}, TRUE, {"leave"}),
     Buying({"food"}, 2, {a1}, FALSE, {"look"}),
     Buying({"food"}, 1, {a1}, FALSE, {"leave", "look", "reload", "lost"}),
     Buying({"food"}, 2, {a1}, FALSE, {"look", "reload", "lost"}),
     Buying({"food"}, 2, {a1, a1x, b1}, FALSE, {}),
     Buying({"food", "instamart"}, 2, {a1, p1}, FALSE, {})}

Riding(pool, near, calm, others) ==
    [pool |-> pool, near |-> near, calm |-> calm, others |-> others]
RidingModes ==
    {Riding({j1, j2}, {j1, j2}, TRUE, FALSE),
     Riding({j1}, {j1}, TRUE, TRUE),
     Riding({j1}, {}, TRUE, FALSE),
     Riding({}, {}, FALSE, FALSE)}

VARIABLE scene

Init ==
    /\ scene \in {"session", "checkout", "console"}
    /\ SessionInit /\ CheckoutInit /\ ConsoleInit
    /\ scene # "session" => sessionMode = Browsing({t1}, {1}, {f1}, {"expire", "revoke", "restart"})
    /\ scene # "checkout" => checkoutMode = Buying({"food"}, 1, {a1}, TRUE, {"leave"})
    /\ scene # "console" => consoleMode = Riding({}, {}, FALSE, FALSE) /\ ~duty

Next ==
    /\ \/ scene = "session" /\ SessionNext /\ UNCHANGED <<checkoutVars, consoleVars>>
       \/ scene = "checkout" /\ CheckoutNext /\ UNCHANGED <<sessionVars, consoleVars>>
       \/ scene = "console" /\ ConsoleNext /\ UNCHANGED <<sessionVars, checkoutVars>>
    /\ UNCHANGED scene

Spec == Init /\ [][Next]_<<scene, sessionVars, checkoutVars, consoleVars>>

\* Type correctness of the three components, whose code is untyped where it
\* reads JSON: localStorage, the answers of the API, the Swiggy preview.
WebTypes == SessionTypes /\ CheckoutTypes /\ ConsoleTypes
====
