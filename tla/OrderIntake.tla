---------------------------- MODULE OrderIntake ----------------------------
(***************************************************************************)
(* How an order comes in: POST /orders and POST /orders/multi-hop with     *)
(* placeOrder and its double-submit guard, the checkout preview, the       *)
(* re-intercept handler, and the deferred placer as the other user of the  *)
(* same Swiggy account.  They share one Food cart and one list of orders   *)
(* at Swiggy, and no lock: every await is a step.  The placer's own retries*)
(* and overlaps are those of DeferredPlacer; here one tick at a time works *)
(* on a row.                                                               *)
(***************************************************************************)
EXTENDS Naturals, Sequences

CONSTANTS
    Hops,         \* wanted deliveries, each one hop of one request
    Requests,     \* POSTs of one customer
    Plan,         \* the hops of each request, in order
    Timing,       \* "now" or "auto", for each hop
    Kitchen, Dish, Stop,   \* restaurant, items and intercept of each hop
    Previews,     \* input: hops that are previewed at checkout
    Moves,        \* input: hops whose order is moved, with the new intercept
    MaxSid,       \* bound: orders the account ever receives
    Modes,        \* input: the circumstances to look at, records of Mode
    NoKitchen, NoStop

FaultKinds ==
    { "orders",   \* the account's orders cannot be listed
      "cart",     \* update_food_cart answers with a failure
      "throw",    \* a call raises; a place call may have been executed
      "repeat",   \* an executed place call is answered with a 5xx, or not at
                  \* all with the probe failing too: the client repeats it
      "no_id",    \* the place reply is a success without an orderId
      "db",       \* the insert raises
      "crash" }   \* the process dies and restarts

\* Whether the customer waits for an answer before the next action, whether the
\* deferred placer is running, and what may fail.
Mode == [waits: BOOLEAN, placer: BOOLEAN, faults: SUBSET FaultKinds]

Stops == {Stop[h] : h \in Hops} \union {m[2] : m \in Moves}

ASSUME IntakeAssumption ==
    /\ Plan \in [Requests -> Seq(Hops)]
    /\ \A q, r \in Requests : \A i \in 1..Len(Plan[q]), j \in 1..Len(Plan[r]) :
          Plan[q][i] = Plan[r][j] => q = r /\ i = j
    /\ Timing \in [Hops -> {"now", "auto"}]
    /\ Previews \subseteq Hops
    /\ \A m \in Moves : m[1] \in Hops
    /\ MaxSid \in Nat
    /\ Modes \subseteq Mode
    /\ NoStop \notin Stops

VARIABLES
    account,  \* Swiggy: the account's orders, oldest first
    cart,     \* Swiggy: the account's one Food cart
    row,      \* the orders table: the row of each hop
    req,      \* the POST handlers
    placer,   \* the placer's work on each row
    move,     \* re-intercept handlers: the new intercept, still to be written
    mode      \* the circumstances, which stay what they are
              \* history: cart.last, the hop the cart was last filled for;
              \* req[r].seen, how many orders there were when its guard passed

vars == <<account, cart, row, req, placer, move, mode>>

Sids == 0..MaxSid       \* 0: no orderId
\* own and seen are history: whether the cart was last filled for this hop, and
\* the orders there were when the guard of its request passed.
SwiggyOrder == [hop: Hops, items: SUBSET {Dish[h] : h \in Hops}, to: Stops,
                recent: BOOLEAN, unacked: BOOLEAN, own: BOOLEAN, seen: Sids]
EmptyCart == [kitchen |-> NoKitchen, dishes |-> {}, last |-> {}]

TypeOK ==
    /\ account \in Seq(SwiggyOrder) /\ Len(account) <= MaxSid
    /\ cart \in [kitchen: {Kitchen[h] : h \in Hops} \union {NoKitchen},
                 dishes: SUBSET {Dish[h] : h \in Hops}, last: SUBSET Hops]
    /\ row \in [Hops -> [status: {"absent", "pending", "confirmed", "failed"},
                         sid: Sids, stop: Stops]]
    /\ req \in [Requests ->
                  [pc: {"idle", "guard", "cart", "check", "place", "insert"},
                   hop: Nat, sid: Sids, seen: Sids,
                   answer: {"none", "ok", "duplicate", "refused", "threw"}]]
    /\ placer \in [Hops -> [pc: {"idle", "place", "record"}, sid: Sids]]
    /\ move \in [Hops -> Stops \union {NoStop}]
    /\ mode \in Modes

Init ==
    /\ account = <<>>
    /\ cart = EmptyCart
    /\ row = [h \in Hops |-> [status |-> "absent", sid |-> 0, stop |-> Stop[h]]]
    /\ req = [r \in Requests |-> [pc |-> "idle", hop |-> 0, sid |-> 0, seen |-> 0,
                                  answer |-> "none"]]
    /\ placer = [h \in Hops |-> [pc |-> "idle", sid |-> 0]]
    /\ move = [h \in Hops |-> NoStop]
    /\ mode \in Modes

Busy(r) == req[r].pc # "idle"
CustomerMayAct == mode.waits => \A q \in Requests : ~Busy(q)

\* The hop that request r is working on.
At(r) == Plan[r][req[r].hop]

Goto(r, pc) == req' = [req EXCEPT ![r].pc = pc]
Reply(r, a) ==
    req' = [req EXCEPT ![r].pc = "idle", ![r].sid = 0, ![r].seen = 0, ![r].answer = a]
-----------------------------------------------------------------------------
(* Swiggy                                                                  *)

\* A cart holds one restaurant's items: those of another are dropped, those of
\* the same one are added to.
Merged(h) ==
    [kitchen |-> Kitchen[h],
     dishes |-> {Dish[h]} \union (IF cart.kitchen = Kitchen[h] THEN cart.dishes ELSE {}),
     last |-> {h}]

\* The result of update_food_cart is not looked at.
FillCart(h) ==
    \/ cart' = Merged(h)
    \/ "cart" \in mode.faults /\ UNCHANGED cart

\* place_food_order orders what is in the cart, were it nothing, and empties it.
Execute(h, lost, seen) ==
    /\ Len(account) < MaxSid
    /\ account' = Append(account, [hop |-> h, items |-> cart.dishes, to |-> Stop[h],
                                   recent |-> TRUE, unacked |-> lost,
                                   own |-> cart.last = {h}, seen |-> seen])
    /\ cart' = EmptyCart

\* An order is older than two minutes, or no longer in preparation.
Age(s) ==
    /\ account[s].recent
    /\ account' = [account EXCEPT ![s].recent = FALSE]
    /\ UNCHANGED <<cart, row, req, placer, move>>

-----------------------------------------------------------------------------
(* POST /orders and /orders/multi-hop: placeOrder for each hop             *)

Begin(r) ==
    /\ req[r].hop = 0 /\ Plan[r] # <<>>
    /\ CustomerMayAct
    /\ req' = [req EXCEPT ![r].pc = "guard", ![r].hop = 1]
    /\ UNCHANGED <<account, cart, row, placer, move>>

\* Mutant: the guard asks RouteBite's own table.
RecentOrder_Table ==
    \E s \in 1..Len(account) : account[s].recent /\ row[account[s].hop].sid = s

\* Any recent order of the account, wherever it goes.
RecentOrder == \E s \in 1..Len(account) : account[s].recent

\* checkForDuplicateOrder fails open.
GuardPasses(r) ==
    /\ req[r].pc = "guard"
    /\ ~RecentOrder \/ "orders" \in mode.faults
    /\ req' = [req EXCEPT ![r].pc = "cart", ![r].seen = Len(account)]
    /\ UNCHANGED <<account, cart, row, placer, move>>

GuardRefuses(r) ==
    /\ req[r].pc = "guard" /\ RecentOrder
    /\ Reply(r, "duplicate")
    /\ UNCHANGED <<account, cart, row, placer, move>>

\* Mutant: the cart is filled only if there is nothing in it.
UpdateCart_IfEmpty(r) ==
    /\ req[r].pc = "cart"
    /\ cart' = IF cart.dishes = {} THEN Merged(At(r)) ELSE cart
    /\ Goto(r, "check")
    /\ UNCHANGED <<account, row, placer, move>>

UpdateCart(r) ==
    /\ req[r].pc = "cart"
    /\ FillCart(At(r))
    /\ Goto(r, "check")
    /\ UNCHANGED <<account, row, placer, move>>

\* The cart's total, the isochrone and the halt gate allow the order; only an
\* order "now" is placed, the other is queued with its items left in the cart.
Check(r) ==
    /\ req[r].pc = "check"
    /\ Goto(r, IF Timing[At(r)] = "now" THEN "place" ELSE "insert")
    /\ UNCHANGED <<account, cart, row, placer, move>>

Refusable(r) == req[r].pc \in {"cart", "check", "place"}

\* No address, no total within the limits, no time to halt, or Swiggy's refusal.
Refuse(r) ==
    /\ Refusable(r)
    /\ Reply(r, "refused")
    /\ UNCHANGED <<account, cart, row, placer, move>>

\* An attempt of the place call that Swiggy executes and the client repeats:
\* the handler still waits, and the next attempt may be executed as well.
RepeatPlace(r) ==
    /\ "repeat" \in mode.faults
    /\ req[r].pc = "place"
    /\ Execute(At(r), TRUE, req[r].seen)
    /\ UNCHANGED <<row, req, placer, move>>

\* The last attempt succeeds.  Without an orderId in the reply there is none to
\* insert, and the order counts as confirmed all the same.
Place(r) ==
    /\ req[r].pc = "place"
    /\ \E known \in {TRUE} \union {"no_id" \notin mode.faults} :
         /\ Execute(At(r), ~known, req[r].seen)
         /\ req' = [req EXCEPT ![r].pc = "insert",
                                ![r].sid = IF known THEN Len(account) + 1 ELSE 0]
    /\ UNCHANGED <<row, placer, move>>

Throw(r) ==
    /\ "throw" \in mode.faults
    /\ req[r].pc \in {"cart", "check", "place"}
    /\ \/ UNCHANGED <<account, cart>>
       \/ req[r].pc = "place" /\ Execute(At(r), TRUE, req[r].seen)
    /\ Reply(r, "threw")
    /\ UNCHANGED <<row, placer, move>>

\* Mutant: a queued order gets a status of its own.
NewStatus_Scheduled(h) == IF Timing[h] = "now" THEN "confirmed" ELSE "scheduled"

NewStatus(h) == IF Timing[h] = "now" THEN "confirmed" ELSE "pending"

\* Where a multi-hop request goes once a hop's row is inserted.
NextHop(r) ==
    IF req[r].hop < Len(Plan[r])
    THEN req' = [req EXCEPT ![r].pc = "guard", ![r].sid = 0, ![r].seen = 0, ![r].hop = @ + 1]
    ELSE Reply(r, "ok")

\* Mutant: the orderId is left for the tracker to find.
Insert_NoSid(r) ==
    /\ req[r].pc = "insert"
    /\ row' = [row EXCEPT ![At(r)].status = NewStatus(At(r))]
    /\ NextHop(r)
    /\ UNCHANGED <<account, cart, placer, move>>

Insert(r) ==
    /\ req[r].pc = "insert"
    /\ row' = [row EXCEPT ![At(r)].status = NewStatus(At(r)), ![At(r)].sid = req[r].sid]
    /\ NextHop(r)
    /\ UNCHANGED <<account, cart, placer, move>>

\* The acknowledgements in S die with the handlers that held them.
Forget(S) ==
    account' = [s \in 1..Len(account) |->
                  [account[s] EXCEPT !.unacked = @ \/ s \in S]]

InsertFails(r) ==
    /\ "db" \in mode.faults
    /\ req[r].pc = "insert"
    /\ Forget({req[r].sid})
    /\ Reply(r, "threw")
    /\ UNCHANGED <<cart, row, placer, move>>

-----------------------------------------------------------------------------
(* The deferred placer on the row of hop h                                 *)

Rebuild(h) ==
    /\ mode.placer
    /\ placer[h].pc = "idle"
    /\ row[h].status = "pending" /\ row[h].sid = 0
    /\ FillCart(h)
    /\ placer' = [placer EXCEPT ![h].pc = "place"]
    /\ UNCHANGED <<account, row, req, move>>

\* The address is the one that was queued with the order.
PlaceQueued(h) ==
    /\ placer[h].pc = "place"
    /\ \E known \in {TRUE} \union {"no_id" \notin mode.faults} :
         /\ Execute(h, ~known, 0)
         /\ placer' = [placer EXCEPT ![h] =
                         [pc |-> "record", sid |-> IF known THEN Len(account) + 1 ELSE 0]]
    /\ UNCHANGED <<row, req, move>>

RepeatQueued(h) ==
    /\ "repeat" \in mode.faults
    /\ placer[h].pc = "place"
    /\ Execute(h, TRUE, 0)
    /\ UNCHANGED <<row, req, placer, move>>

\* Refused: back to the queue, or out of it after the last attempt.
RefuseQueued(h) ==
    /\ placer[h].pc = "place"
    /\ \E s \in {"pending", "failed"} : row' = [row EXCEPT ![h].status = s]
    /\ placer' = [placer EXCEPT ![h].pc = "idle"]
    /\ UNCHANGED <<account, cart, req, move>>

Record(h) ==
    /\ placer[h].pc = "record"
    /\ row' = [row EXCEPT ![h].status = "confirmed", ![h].sid = placer[h].sid]
    /\ placer' = [placer EXCEPT ![h] = [pc |-> "idle", sid |-> 0]]
    /\ UNCHANGED <<account, cart, req, move>>

-----------------------------------------------------------------------------
(* POST /swiggy/checkout-preview and POST /orders/:id/re-intercept         *)

Preview(h) ==
    /\ h \in Previews /\ row[h].status = "absent"
    /\ CustomerMayAct
    /\ FillCart(h)
    /\ UNCHANGED <<account, row, req, placer, move>>

\* The cart is flushed, unless the body or Swiggy says no, whoever is using it.
ReIntercept(h, stop) ==
    /\ move[h] = NoStop /\ stop # row[h].stop
    /\ CustomerMayAct
    /\ row[h].status # "absent"
    /\ row[h].sid # 0 => row[h].status \in {"pending", "confirmed"}
    /\ cart' \in {cart, EmptyCart}
    /\ move' = [move EXCEPT ![h] = stop]
    /\ UNCHANGED <<account, row, req, placer>>

\* interceptId is written; the queued address stays what it was.
WriteIntercept(h) ==
    /\ move[h] # NoStop
    /\ row' = [row EXCEPT ![h].stop = move[h]]
    /\ move' = [move EXCEPT ![h] = NoStop]
    /\ UNCHANGED <<account, cart, req, placer>>

-----------------------------------------------------------------------------
InHand(s) ==
    \/ \E r \in Requests : req[r].pc = "insert" /\ req[r].sid = s
    \/ \E h \in Hops : placer[h].pc = "record" /\ placer[h].sid = s

\* The process dies: handlers and ticks are gone, the table and Swiggy stay.
Crash ==
    /\ "crash" \in mode.faults
    /\ Forget({s \in 1..Len(account) : InHand(s)})
    /\ req' = [r \in Requests |->
                 IF Busy(r) THEN [req[r] EXCEPT !.pc = "idle", !.sid = 0, !.seen = 0,
                                                !.answer = "threw"]
                            ELSE req[r]]
    /\ placer' = [h \in Hops |-> [pc |-> "idle", sid |-> 0]]
    /\ move' = [h \in Hops |-> NoStop]
    /\ UNCHANGED <<cart, row>>

Handle(r) ==
    \/ Begin(r) \/ GuardPasses(r) \/ GuardRefuses(r) \/ UpdateCart(r) \/ Check(r)
    \/ Refuse(r) \/ RepeatPlace(r) \/ Place(r) \/ Throw(r) \/ Insert(r) \/ InsertFails(r)

Step ==
    \/ \E r \in Requests : Handle(r)
    \/ \E h \in Hops :
         \/ Rebuild(h) \/ RepeatQueued(h) \/ PlaceQueued(h) \/ RefuseQueued(h) \/ Record(h)
         \/ Preview(h) \/ WriteIntercept(h)
    \/ \E m \in Moves : ReIntercept(m[1], m[2])
    \/ \E s \in 1..Len(account) : Age(s)
    \/ Crash

Next == Step /\ UNCHANGED mode

Spec == Init /\ [][Next]_vars
-----------------------------------------------------------------------------
(* Properties                                                              *)

\* A row and the order Swiggy acknowledged for it find each other: no
\* acknowledged order is without its row, whatever else is coming in, except
\* while its handler still has to write it, or when that write was lost.
AckedOrderIsRecorded ==
    \A s \in 1..Len(account) :
      account[s].unacked \/ InHand(s) \/ row[account[s].hop].sid = s

InWindow(s) == account[s].recent /\ Timing[account[s].hop] = "now"

\* Two orders "now" inside the guard's window are the executions of one place
\* call, which repeated each but the last of them without an answer; or the
\* customer did not wait, and the later one passed the guard before the earlier
\* one was executed.  It stays so after answers and rows were lost, because the
\* guard asks Swiggy, as long as Swiggy lists the orders.
OneImmediateOrder ==
    "orders" \notin mode.faults =>
      \A s \in 1..Len(account) : \A r \in 1..(s - 1) :
        InWindow(r) /\ InWindow(s) =>
          \/ account[r].hop = account[s].hop /\ account[r].unacked
          \/ ~mode.waits /\ account[s].seen < r

\* Nobody else uses the cart: requests come one at a time, the placer rests, and
\* every update of the cart is carried out.
CartIsQuiet == mode.waits /\ ~mode.placer /\ "cart" \notin mode.faults

\* Swiggy delivers what the hop asked for (no kitchen being asked twice for
\* different items) unless the one cart was last filled or emptied by another
\* user between this hop's update of it and its place call.  When nobody else
\* uses the cart that is only a repeated place call, which orders nothing,
\* whatever previews and refused or queued hops have left in the cart before.
OrderHasItsItems ==
    \A s \in 1..Len(account) :
      \/ account[s].items = {Dish[account[s].hop]}
      \/ /\ ~account[s].own
         /\ CartIsQuiet => /\ account[s].items = {}
                           /\ \E r \in 1..(s - 1) : account[r].hop = account[s].hop

-----------------------------------------------------------------------------
(* A statement of the documents that the code does not keep                *)

\* The guard looks for an order for the same intercept: a hop is refused as a
\* duplicate only if one is on its way to that hop's intercept.
RefusedOnlyIfDuplicate ==
    [][\A r \in Requests :
         (Busy(r) /\ req'[r].answer = "duplicate")
         => \E s \in 1..Len(account) : account[s].to = Stop[At(r)]]_vars
=============================================================================
