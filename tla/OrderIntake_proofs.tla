------------------------- MODULE OrderIntake_proofs -------------------------
(***************************************************************************)
(* That two immediate orders inside the window of the double-submit guard *)
(* are executions of one place call or of requests that overlapped, that   *)
(* an acknowledged order finds its row, and that an order contains what    *)
(* its hop asks for unless the cart was used in between, for any hops,     *)
(* requests, previews, moves and orders, with the placer and with faults.  *)
(***************************************************************************)
EXTENDS OrderIntake, SequenceTheorems, TLAPS

\* A request that is being served is at a hop of its plan.
OnPlan == \A r \in Requests : Busy(r) => req[r].hop \in 1..Len(Plan[r])

\* The placer works on queued orders only.
OnlyQueued ==
    \A h \in Hops : row[h].status = "pending" \/ placer[h].pc # "idle" => Timing[h] = "auto"

OneAtATime == mode.waits => \A q, r \in Requests : Busy(q) /\ Busy(r) => q = r

\* The orders "now" inside the window, and the requests that the guard let pass.
Window == {s \in 1..Len(account) : InWindow(s)}
Passed(r) == req[r].pc \in {"cart", "check", "place"}

\* What the guard of a request has seen is there.
SeenSoFar == \A r \in Requests : req[r].seen <= Len(account)

\* When the customer waits, the orders inside the window are the executions of
\* one place call, and a request that passed the guard finds only its own there;
\* when not, whatever is inside came after the guard of the later one.
WindowIsClear ==
    "orders" \notin mode.faults =>
      /\ \A s, t \in Window : s < t =>
            IF mode.waits THEN account[s].hop = account[t].hop /\ account[s].unacked
                          ELSE account[t].seen < s
      /\ \A r \in Requests : Passed(r) => \A s \in Window :
            /\ req[r].seen < s
            /\ mode.waits => account[s].hop = At(r) /\ account[s].unacked

Types == TypeOK /\ OnPlan
Inv == Types /\ OnlyQueued /\ OneAtATime /\ SeenSoFar /\ WindowIsClear

----------------------------------------------------------------------------
(* The types                                                               *)

\* place_food_order adds one order of the account.
LEMMA ExecuteTypes ==
    ASSUME Types, NEW h \in Hops, NEW lost \in BOOLEAN, NEW seen \in Sids, Execute(h, lost, seen)
    PROVE  /\ account' \in Seq(SwiggyOrder) /\ Len(account') <= MaxSid
           /\ Len(account') = Len(account) + 1 /\ Len(account) + 1 \in Sids
           /\ \A s \in 1..Len(account) : account'[s] = account[s]
           /\ account'[Len(account) + 1].hop = h /\ account'[Len(account) + 1].seen = seen
           /\ account'[Len(account) + 1].unacked = lost
           /\ account'[Len(account) + 1].items = cart.dishes
           /\ account'[Len(account) + 1].own = (cart.last = {h})
           /\ cart' = EmptyCart
<1> DEFINE o == [hop |-> h, items |-> cart.dishes, to |-> Stop[h], recent |-> TRUE,
                 unacked |-> lost, own |-> cart.last = {h}, seen |-> seen]
<1>1. /\ o \in SwiggyOrder /\ o.hop = h /\ o.seen = seen /\ o.unacked = lost
      /\ o.items = cart.dishes /\ o.own = (cart.last = {h})
  BY DEF Types, TypeOK, SwiggyOrder, Stops
<1>2. account' = Append(account, o) /\ Len(account) < MaxSid /\ cart' = EmptyCart
  BY DEF Execute
<1> HIDE DEF o
<1>3. account \in Seq(SwiggyOrder) /\ Len(account) \in Nat
  BY DEF Types, TypeOK
<1>4. /\ account' \in Seq(SwiggyOrder) /\ Len(account') = Len(account) + 1
      /\ account'[Len(account) + 1] = o
      /\ \A s \in 1..Len(account) : account'[s] = account[s]
  BY <1>1, <1>2, <1>3
<1> QED  BY <1>1, <1>2, <1>3, <1>4, IntakeAssumption DEF Sids

\* What a lost acknowledgement changes of an order is only that.
LEMMA ForgetTypes ==
    ASSUME Types, NEW S, Forget(S)
    PROVE  /\ account' \in Seq(SwiggyOrder) /\ Len(account') = Len(account)
           /\ \A s \in 1..Len(account) : /\ account'[s].recent = account[s].recent
                                         /\ account'[s].hop = account[s].hop
                                         /\ account'[s].items = account[s].items
                                         /\ account'[s].own = account[s].own
                                         /\ account'[s].seen = account[s].seen
                                         /\ account[s].unacked => account'[s].unacked
<1>1. account \in Seq(SwiggyOrder) /\ Len(account) \in Nat
  BY DEF Types, TypeOK
<1>2. DOMAIN account' = 1..Len(account)
  BY DEF Forget
<1>3. ASSUME NEW s \in 1..Len(account)
      PROVE  /\ account'[s] \in SwiggyOrder /\ account'[s].recent = account[s].recent
             /\ account'[s].hop = account[s].hop /\ account'[s].items = account[s].items
             /\ account'[s].own = account[s].own /\ account'[s].seen = account[s].seen
             /\ account[s].unacked => account'[s].unacked
  <2> DEFINE q == account[s].unacked \/ s \in S
  <2>1. q \in BOOLEAN /\ (account[s].unacked => q)
    OBVIOUS
  <2>2. account'[s] = [account[s] EXCEPT !.unacked = q]
    BY Zenon DEF Forget
  <2>3. account[s] \in SwiggyOrder
    BY <1>1
  <2> HIDE DEF q
  <2> QED  BY <2>1, <2>2, <2>3 DEF SwiggyOrder
<1>4. account' = [s \in 1..Len(account) |-> account'[s]]
  BY <1>2 DEF Forget
<1>5. account' \in Seq(SwiggyOrder) /\ Len(account') = Len(account)
  <2> DEFINE a == account'
  <2>1. a = [s \in 1..Len(account) |-> a[s]] /\ \A s \in 1..Len(account) : a[s] \in SwiggyOrder
    BY <1>3, <1>4
  <2> HIDE DEF a
  <2>2. a \in Seq(SwiggyOrder) /\ Len(a) = Len(account)
    BY <1>1, <2>1
  <2> QED  BY <2>2 DEF a
<1> QED  BY <1>3, <1>5

\* The cart holds dishes of the hops.
LEMMA CartTypes ==
    ASSUME Types, NEW h \in Hops
    PROVE  /\ FillCart(h) => cart' \in [kitchen: {Kitchen[i] : i \in Hops} \union {NoKitchen},
                                        dishes: SUBSET {Dish[i] : i \in Hops},
                                        last: SUBSET Hops]
           /\ EmptyCart \in [kitchen: {Kitchen[i] : i \in Hops} \union {NoKitchen},
                             dishes: SUBSET {Dish[i] : i \in Hops}, last: SUBSET Hops]
  BY DEF Types, TypeOK, FillCart, Merged, EmptyCart

\* The requests' types, as one set.
Req == [pc: {"idle", "guard", "cart", "check", "place", "insert"}, hop: Nat, sid: Sids,
        seen: Sids, answer: {"none", "ok", "duplicate", "refused", "threw"}]

\* At(r) is a hop.
LEMMA AtIsHop == ASSUME Types, NEW r \in Requests, Busy(r) PROVE At(r) \in Hops
<1>1. Plan[r] \in Seq(Hops) /\ req[r].hop \in 1..Len(Plan[r])
  BY IntakeAssumption DEF Types, OnPlan
<1> QED  BY <1>1 DEF At

\* A step of a request leaves the others alone; it goes on along its plan, and
\* passes the guard only by the guard.
LEMMA HandleStep ==
    ASSUME Types, NEW r \in Requests, Handle(r)
    PROVE  /\ req' \in [Requests -> Req]
           /\ \A q \in Requests \ {r} : req'[q] = req[q]
           /\ Busy(r)' => req'[r].hop \in 1..Len(Plan[r])
           /\ Passed(r)' => \/ GuardPasses(r)
                            \/ Passed(r) /\ At(r)' = At(r) /\ req'[r].seen = req[r].seen
           /\ Busy(r)' => Busy(r) \/ Begin(r)
           /\ req'[r].seen \in {0, req[r].seen, Len(account)}
<1>1. req \in [Requests -> Req] /\ req[r] \in Req
  BY DEF Types, TypeOK, Req
<1>2. Busy(r) => req[r].hop \in 1..Len(Plan[r])
  BY DEF Types, OnPlan
<1>3. SUFFICES \E x \in Req : /\ req' = [req EXCEPT ![r] = x]
                              /\ x.pc # "idle" => /\ x.hop \in 1..Len(Plan[r])
                                                  /\ Busy(r) \/ Begin(r)
                              /\ x.pc \in {"cart", "check", "place"} =>
                                    \/ GuardPasses(r)
                                    \/ Passed(r) /\ x.hop = req[r].hop /\ x.seen = req[r].seen
                              /\ x.seen \in {0, req[r].seen, Len(account)}
  BY <1>1 DEF Busy, Passed, At
<1> DEFINE Replies(a) == [req[r] EXCEPT !.pc = "idle", !.sid = 0, !.seen = 0, !.answer = a]
           Goes(p) == [req[r] EXCEPT !.pc = p]
<1>4. 0 \in Sids /\ Len(account) \in Sids
  BY IntakeAssumption DEF Sids, Types, TypeOK
<1>5. \A a \in {"ok", "duplicate", "refused", "threw"} :
         Replies(a) \in Req /\ Replies(a).pc = "idle" /\ Replies(a).seen = 0
  BY <1>1, <1>4 DEF Req
<1>6. \A p \in {"cart", "check", "place", "insert"} :
         /\ Goes(p) \in Req /\ Goes(p).pc = p /\ Goes(p).hop = req[r].hop
         /\ Goes(p).seen = req[r].seen
  BY <1>1 DEF Req
<1>7. \A a : Reply(r, a) => req' = [req EXCEPT ![r] = Replies(a)]
  BY <1>1 DEF Reply
<1>8. \A p : Goto(r, p) => req' = [req EXCEPT ![r] = Goes(p)]
  BY <1>1 DEF Goto
<1> HIDE DEF Replies, Goes
<1>9. CASE Begin(r)
  <2> DEFINE x == [req[r] EXCEPT !.pc = "guard", !.hop = 1]
  <2>1. x \in Req /\ x.pc = "guard" /\ x.hop = 1 /\ x.seen = req[r].seen
    BY <1>1 DEF Req
  <2>2. req' = [req EXCEPT ![r] = x]
    BY <1>1, <1>9 DEF Begin
  <2>3. 1 \in 1..Len(Plan[r])
    BY <1>9, IntakeAssumption DEF Begin
  <2> HIDE DEF x
  <2> QED  BY <1>9, <2>1, <2>2, <2>3
<1>10. CASE GuardPasses(r)
  <2> DEFINE x == [req[r] EXCEPT !.pc = "cart", !.seen = Len(account)]
  <2>1. x \in Req /\ x.pc = "cart" /\ x.hop = req[r].hop /\ x.seen = Len(account)
    BY <1>1, <1>4 DEF Req
  <2>2. req' = [req EXCEPT ![r] = x] /\ Busy(r)
    BY <1>1, <1>10 DEF GuardPasses, Busy
  <2> HIDE DEF x
  <2> QED  BY <1>2, <1>10, <2>1, <2>2
<1>11. CASE UpdateCart(r)
  <2>1. Goto(r, "check") /\ Busy(r) /\ Passed(r)
    BY <1>11 DEF UpdateCart, Busy, Passed
  <2> QED  BY <1>2, <1>6, <1>8, <2>1
<1>12. CASE Check(r)
  <2>1. Goto(r, IF Timing[At(r)] = "now" THEN "place" ELSE "insert") /\ Busy(r) /\ Passed(r)
    BY <1>12 DEF Check, Busy, Passed
  <2>2. PICK p \in {"place", "insert"} : Goto(r, p)
    BY <2>1
  <2> QED  BY <1>2, <1>6, <1>8, <2>1, <2>2
<1>13. CASE GuardRefuses(r) \/ Refuse(r) \/ Throw(r) \/ InsertFails(r)
  <2>1. PICK a \in {"duplicate", "refused", "threw"} : Reply(r, a)
    BY <1>13 DEF GuardRefuses, Refuse, Throw, InsertFails
  <2> QED  BY <1>5, <1>7, <2>1
<1>14. CASE Place(r)
  <2>1. PICK k \in Sids : req' = [req EXCEPT ![r].pc = "insert", ![r].sid = k]
    <3>1. PICK lost \in BOOLEAN :
             /\ Execute(At(r), lost, req[r].seen)
             /\ req' = [req EXCEPT ![r].pc = "insert",
                                   ![r].sid = IF ~lost THEN Len(account) + 1 ELSE 0]
      BY <1>14 DEF Place
    <3>2. Busy(r) /\ req[r].seen \in Sids
      BY <1>1, <1>14 DEF Place, Busy, Req
    <3>3. Len(account) + 1 \in Sids
      BY <3>1, <3>2, AtIsHop, ExecuteTypes
    <3> QED  BY <1>4, <3>1, <3>3
  <2> DEFINE x == [req[r] EXCEPT !.pc = "insert", !.sid = k]
  <2>2. Busy(r)
    BY <1>14 DEF Place, Busy
  <2>3. x \in Req /\ x.pc = "insert" /\ x.hop = req[r].hop /\ x.seen = req[r].seen
    BY <1>1 DEF Req
  <2>4. req' = [req EXCEPT ![r] = x]
    BY <1>1, <2>1
  <2> HIDE DEF x
  <2> QED  BY <1>2, <2>2, <2>3, <2>4
<1>15. CASE Insert(r)
  <2>1. Busy(r) /\ NextHop(r)
    BY <1>15 DEF Insert, Busy
  <2>2. CASE req[r].hop < Len(Plan[r])
    <3> DEFINE x == [req[r] EXCEPT !.pc = "guard", !.sid = 0, !.seen = 0,
                                   !.hop = req[r].hop + 1]
    <3>1. req[r].hop + 1 \in 1..Len(Plan[r]) /\ req[r].hop + 1 \in Nat
      BY <1>2, <2>1, <2>2, IntakeAssumption
    <3>2. x \in Req /\ x.pc = "guard" /\ x.hop = req[r].hop + 1 /\ x.seen = 0
      BY <1>1, <1>4, <3>1 DEF Req
    <3>3. req' = [req EXCEPT ![r] = x]
      BY <1>1, <2>1, <2>2 DEF NextHop
    <3> HIDE DEF x
    <3> QED  BY <2>1, <3>1, <3>2, <3>3
  <2>3. CASE ~(req[r].hop < Len(Plan[r]))
    <3>1. Reply(r, "ok")
      BY <2>1, <2>3 DEF NextHop
    <3> QED  BY <1>5, <1>7, <3>1
  <2> QED  BY <2>2, <2>3
<1>16. CASE RepeatPlace(r)
  <2>1. req' = [req EXCEPT ![r] = req[r]] /\ Busy(r) /\ Passed(r)
    BY <1>1, <1>16 DEF RepeatPlace, Busy, Passed
  <2> QED  BY <1>1, <1>2, <2>1
<1> QED  BY <1>9, <1>10, <1>11, <1>12, <1>13, <1>14, <1>15, <1>16 DEF Handle

\* A restart ends every request where it is.
LEMMA CrashEnds ==
    ASSUME Types, Crash
    PROVE  \A r \in Requests : /\ req'[r].hop = req[r].hop /\ req'[r].pc = "idle"
                               /\ req'[r].seen \in {0, req[r].seen}
<1>1. req \in [Requests -> Req]
  BY DEF Types, TypeOK, Req
<1> QED  BY <1>1 DEF Crash, Busy, Req

\* What the handlers and the placer leave of the requests.
LEMMA RequestTypes ==
    ASSUME Types, Step
    PROVE  req' \in [Requests -> Req] /\ OnPlan'
<1>1. req \in [Requests -> Req] /\ OnPlan
  BY DEF Types, TypeOK, Req
<1>2. CASE \E r \in Requests : Handle(r)
  <2>1. PICK r \in Requests : Handle(r)
    BY <1>2
  <2>2. /\ req' \in [Requests -> Req]
        /\ \A q \in Requests \ {r} : req'[q] = req[q]
        /\ Busy(r)' => req'[r].hop \in 1..Len(Plan[r])
    BY <2>1, HandleStep
  <2>3. ASSUME NEW q \in Requests, Busy(q)' PROVE req'[q].hop \in 1..Len(Plan[q])
    <3>1. CASE q = r
      BY <2>2, <2>3, <3>1
    <3>2. CASE q # r
      BY <2>2, <2>3, <3>2, <1>1 DEF OnPlan, Busy
    <3> QED  BY <3>1, <3>2
  <2> QED  BY <2>2, <2>3 DEF OnPlan
<1>3. CASE Crash
  <2>1. ASSUME NEW r \in Requests PROVE req'[r] \in Req /\ ~Busy(r)'
    <3>1. req[r] \in Req /\ 0 \in Sids
      BY <1>1, IntakeAssumption DEF Sids
    <3>2. CASE Busy(r)
      <4> DEFINE x == [req[r] EXCEPT !.pc = "idle", !.sid = 0, !.seen = 0, !.answer = "threw"]
      <4>1. x \in Req /\ x.pc = "idle"
        BY <3>1 DEF Req
      <4>2. req'[r] = x
        BY <1>3, <3>2 DEF Crash
      <4> HIDE DEF x
      <4> QED  BY <4>1, <4>2 DEF Busy
    <3>3. CASE ~Busy(r)
      BY <1>3, <3>1, <3>3 DEF Crash, Busy
    <3> QED  BY <3>2, <3>3
  <2>2. req' = [r \in Requests |-> req'[r]]
    BY <1>3 DEF Crash
  <2> DEFINE n == req'
  <2>3. \A r \in Requests : n[r] \in Req
    BY <2>1
  <2>4. n = [r \in Requests |-> n[r]]
    BY <2>2
  <2> HIDE DEF n
  <2>5. n \in [Requests -> Req]
    BY <2>3, <2>4
  <2> QED  BY <2>1, <2>5 DEF n, OnPlan
<1>4. CASE UNCHANGED req
  BY <1>1, <1>4 DEF OnPlan, Busy
<1> QED  BY <1>2, <1>3, <1>4
         DEF Step, Rebuild, RepeatQueued, PlaceQueued, RefuseQueued, Record, Preview,
             WriteIntercept, ReIntercept, Age

\* A request's place call is executed.
Executes(r) ==
    /\ Handle(r) /\ req[r].pc = "place"
    /\ \E lost \in BOOLEAN : /\ Execute(At(r), lost, req[r].seen)
                             /\ ~Passed(r)' \/ (lost /\ UNCHANGED req)

\* Who can place at Swiggy, and what else is done to its orders.
LEMMA AccountStep ==
    ASSUME Types, Step
    PROVE  \/ \E r \in Requests : Executes(r)
           \/ \E h \in Hops : /\ placer[h].pc = "place" /\ UNCHANGED req
                               /\ \E lost \in BOOLEAN : Execute(h, lost, 0)
           \/ \E s \in 1..Len(account) : Age(s)
           \/ \E S : Forget(S)
           \/ UNCHANGED account
<1>0. req \in [Requests -> Req]
  BY DEF Types, TypeOK, Req
<1>1. CASE \E r \in Requests : Place(r)
  <2>1. PICK r \in Requests : Place(r)
    BY <1>1
  <2>2. req'[r].pc = "insert" /\ Handle(r) /\ req[r].pc = "place"
    BY <1>0, <2>1 DEF Place, Req, Handle
  <2>3. \E lost \in BOOLEAN : Execute(At(r), lost, req[r].seen)
    BY <2>1 DEF Place
  <2> QED  BY <2>2, <2>3 DEF Passed, Executes
<1>2. CASE \E r \in Requests : Throw(r)
  <2>1. PICK r \in Requests : Throw(r)
    BY <1>2
  <2>2. req'[r].pc = "idle" /\ Handle(r)
    BY <1>0, <2>1 DEF Throw, Reply, Req, Handle
  <2>3. UNCHANGED account \/ (req[r].pc = "place" /\ Execute(At(r), TRUE, req[r].seen))
    BY <2>1 DEF Throw
  <2> QED  BY <2>2, <2>3 DEF Passed, Executes
<1>3. CASE \E r \in Requests : RepeatPlace(r)
  BY <1>3 DEF RepeatPlace, Executes, Handle
<1>4. CASE \E h \in Hops : PlaceQueued(h) \/ RepeatQueued(h)
  BY <1>4 DEF PlaceQueued, RepeatQueued
<1> QED  BY <1>1, <1>2, <1>3, <1>4
         DEF Step, Handle, Begin, GuardPasses, GuardRefuses, UpdateCart, Check, Refuse, Insert,
             InsertFails, Rebuild, RefuseQueued, Record, Preview, ReIntercept,
             WriteIntercept, Crash

\* What that makes of the account's list.
LEMMA AccountTypes ==
    ASSUME Types, Step
    PROVE  account' \in Seq(SwiggyOrder) /\ Len(account') <= MaxSid
<1>1. account \in Seq(SwiggyOrder) /\ Len(account) <= MaxSid
  BY DEF Types, TypeOK
<1>2. ASSUME NEW r \in Requests, Executes(r)
      PROVE  account' \in Seq(SwiggyOrder) /\ Len(account') <= MaxSid
  <2>1. Busy(r) /\ req[r].seen \in Sids
    BY <1>2 DEF Executes, Busy, Types, TypeOK
  <2> QED  BY <1>2, <2>1, AtIsHop, ExecuteTypes DEF Executes
<1>3. ASSUME NEW h \in Hops, NEW lost \in BOOLEAN, Execute(h, lost, 0)
      PROVE  account' \in Seq(SwiggyOrder) /\ Len(account') <= MaxSid
  <2>1. 0 \in Sids
    BY IntakeAssumption DEF Sids
  <2> QED  BY <1>3, <2>1, ExecuteTypes
<1>4. ASSUME NEW s \in 1..Len(account), Age(s)
      PROVE  account' \in Seq(SwiggyOrder) /\ Len(account') <= MaxSid
  <2> DEFINE x == [account[s] EXCEPT !.recent = FALSE]
  <2>0. account[s] \in SwiggyOrder
    BY <1>1
  <2>1. x \in SwiggyOrder
    BY <2>0 DEF SwiggyOrder
  <2>2. account' = [account EXCEPT ![s] = x]
    BY <1>1, <1>4 DEF Age
  <2> HIDE DEF x
  <2> QED  BY <1>1, <2>1, <2>2
<1>5. ASSUME NEW S, Forget(S)
      PROVE  account' \in Seq(SwiggyOrder) /\ Len(account') <= MaxSid
  BY <1>1, <1>5, ForgetTypes
<1> QED  BY <1>1, <1>2, <1>3, <1>4, <1>5, AccountStep

\* The cart, the placer's work and the moves to other intercepts.
LEMMA OtherTypes ==
    ASSUME Types, Step
    PROVE  /\ cart' \in [kitchen: {Kitchen[h] : h \in Hops} \union {NoKitchen},
                         dishes: SUBSET {Dish[h] : h \in Hops}, last: SUBSET Hops]
           /\ placer' \in [Hops -> [pc: {"idle", "place", "record"}, sid: Sids]]
           /\ move' \in [Hops -> Stops \union {NoStop}]
<1>1. cart' \in [kitchen: {Kitchen[h] : h \in Hops} \union {NoKitchen},
                 dishes: SUBSET {Dish[h] : h \in Hops}, last: SUBSET Hops]
  <2>1. \/ UNCHANGED cart \/ cart' = EmptyCart
        \/ \E r \in Requests : req[r].pc = "cart" /\ FillCart(At(r))
        \/ \E h \in Hops : FillCart(h)
    <3>1. CASE \E r \in Requests : Handle(r)
      <4>1. PICK r \in Requests : Handle(r)
        BY <3>1
      <4> QED  BY <4>1 DEF Handle, Begin, GuardPasses, GuardRefuses, UpdateCart, Check, Refuse,
                           RepeatPlace, Place, Throw, Insert, InsertFails, Execute
    <3>2. CASE \E h \in Hops : PlaceQueued(h) \/ RepeatQueued(h)
      BY <3>2 DEF PlaceQueued, RepeatQueued, Execute
    <3> QED  BY <3>1, <3>2 DEF Step, Rebuild, RefuseQueued, Record, Preview, ReIntercept,
                               WriteIntercept, Crash, Age
  <2>2. ASSUME NEW r \in Requests, req[r].pc = "cart" PROVE At(r) \in Hops
    BY <2>2, AtIsHop DEF Busy
  <2>3. CASE UNCHANGED cart
    BY <2>3 DEF Types, TypeOK
  <2>4. CASE cart' = EmptyCart
    BY <2>4 DEF EmptyCart
  <2>5. CASE \E h \in Hops : FillCart(h)
    BY <2>5, CartTypes
  <2> QED  BY <2>1, <2>2, <2>3, <2>4, <2>5
<1> DEFINE P == [pc: {"idle", "place", "record"}, sid: Sids]
<1>2. placer \in [Hops -> P] /\ 0 \in Sids
  BY IntakeAssumption DEF Types, TypeOK, Sids
<1>3. placer' \in [Hops -> P]
  <2>1. CASE \E h \in Hops : Rebuild(h) \/ RefuseQueued(h) \/ Record(h)
    BY <1>2, <2>1 DEF Rebuild, RefuseQueued, Record
  <2>2. CASE \E h \in Hops : PlaceQueued(h)
    <3>1. PICK h \in Hops : PlaceQueued(h)
      BY <2>2
    <3>2. Len(account) + 1 \in Sids
      BY <1>2, <3>1, ExecuteTypes DEF PlaceQueued
    <3>3. PICK k \in Sids : placer' = [placer EXCEPT ![h] = [pc |-> "record", sid |-> k]]
      BY <1>2, <3>1, <3>2 DEF PlaceQueued
    <3> QED  BY <1>2, <3>3
  <2>3. CASE Crash
    BY <1>2, <2>3 DEF Crash
  <2>4. CASE UNCHANGED placer
    BY <1>2, <2>4
  <2> QED  BY <2>1, <2>2, <2>3, <2>4
           DEF Step, Handle, Begin, GuardPasses, GuardRefuses, UpdateCart, Check, Refuse,
               RepeatPlace, Place, Throw, Insert, InsertFails, RepeatQueued, Preview, ReIntercept,
               WriteIntercept, Age
<1>4. move' \in [Hops -> Stops \union {NoStop}]
  <2>1. move \in [Hops -> Stops \union {NoStop}]
    BY DEF Types, TypeOK
  <2>2. CASE (\E h \in Hops : WriteIntercept(h)) \/ (\E m \in Moves : ReIntercept(m[1], m[2]))
    <3>1. CASE \E h \in Hops : WriteIntercept(h)
      BY <2>1, <3>1 DEF WriteIntercept
    <3>2. CASE \E m \in Moves : ReIntercept(m[1], m[2])
      <4>1. PICK m \in Moves : move' = [move EXCEPT ![m[1]] = m[2]]
        BY <3>2 DEF ReIntercept
      <4>2. m[2] \in Stops
        BY DEF Stops
      <4> QED  BY <2>1, <4>1, <4>2
    <3> QED  BY <2>2, <3>1, <3>2
  <2>3. CASE Crash
    BY <2>3 DEF Crash
  <2>4. CASE UNCHANGED move
    BY <2>1, <2>4
  <2> QED  BY <2>2, <2>3, <2>4
           DEF Step, Handle, Begin, GuardPasses, GuardRefuses, UpdateCart, Check, Refuse,
               RepeatPlace, Place, Throw, Insert, InsertFails, Rebuild, RepeatQueued, PlaceQueued,
               RefuseQueued, Record, Preview, Age
<1> QED  BY <1>1, <1>3, <1>4

RowRec == [status: {"absent", "pending", "confirmed", "failed"}, sid: Sids, stop: Stops]

\* A row becomes pending only for a hop that is to be placed later, and the
\* placer takes up pending rows only.
LEMMA RowStep ==
    ASSUME Types, OnlyQueued, Step
    PROVE  row' \in [Hops -> RowRec] /\ OnlyQueued'
<1>1. row \in [Hops -> RowRec] /\ placer \in [Hops -> [pc: {"idle", "place", "record"}, sid: Sids]]
  BY DEF Types, TypeOK, RowRec
<1>2. CASE \E r \in Requests : Insert(r)
  <2>1. PICK r \in Requests : Insert(r)
    BY <1>2
  <2>2. /\ req[r].sid \in Sids /\ At(r) \in Hops
    BY <2>1, AtIsHop DEF Insert, Busy, Types, TypeOK
  <2>3. PICK h \in Hops, k \in Sids, st \in {"pending", "confirmed"} :
            /\ st = "pending" => Timing[h] = "auto"
            /\ row' = [row EXCEPT ![h].status = st, ![h].sid = k]
    <3>1. /\ NewStatus(At(r)) \in {"pending", "confirmed"}
          /\ NewStatus(At(r)) = "pending" => Timing[At(r)] = "auto"
      BY <2>2, IntakeAssumption DEF NewStatus
    <3>2. row' = [row EXCEPT ![At(r)].status = NewStatus(At(r)), ![At(r)].sid = req[r].sid]
      BY <2>1 DEF Insert
    <3> QED  BY <2>2, <3>1, <3>2
  <2> DEFINE x == [row[h] EXCEPT !.status = st, !.sid = k]
  <2>4. x \in RowRec /\ x.status = st
    BY <1>1, <2>3 DEF RowRec
  <2>5. row' = [row EXCEPT ![h] = x] /\ placer' = placer
    BY <1>1, <2>1, <2>3 DEF Insert
  <2> HIDE DEF x
  <2>6. row' \in [Hops -> RowRec] /\ \A g \in Hops : row'[g] = IF g = h THEN x ELSE row[g]
    BY <1>1, <2>4, <2>5
  <2> QED  BY <2>3, <2>4, <2>5, <2>6 DEF OnlyQueued
<1>3. CASE \E h \in Hops : Rebuild(h) \/ RepeatQueued(h) \/ PlaceQueued(h)
  BY <1>1, <1>3 DEF Rebuild, RepeatQueued, PlaceQueued, OnlyQueued
<1>4. CASE \E h \in Hops : RefuseQueued(h)
  <2>1. PICK h \in Hops, st \in {"pending", "failed"} :
            /\ placer[h].pc = "place" /\ placer' = [placer EXCEPT ![h].pc = "idle"]
            /\ row' = [row EXCEPT ![h].status = st]
    BY <1>4 DEF RefuseQueued
  <2> DEFINE x == [row[h] EXCEPT !.status = st]
  <2>2. x \in RowRec /\ x.status = st
    BY <1>1 DEF RowRec
  <2>3. row' = [row EXCEPT ![h] = x]
    BY <1>1, <2>1
  <2> HIDE DEF x
  <2> QED  BY <1>1, <2>1, <2>2, <2>3 DEF OnlyQueued
<1>5. CASE \E h \in Hops : Record(h)
  <2>1. PICK h \in Hops : Record(h)
    BY <1>5
  <2> DEFINE x == [row[h] EXCEPT !.status = "confirmed", !.sid = placer[h].sid]
  <2>2. x \in RowRec /\ x.status = "confirmed"
    BY <1>1 DEF RowRec
  <2>3. row' = [row EXCEPT ![h] = x]
    BY <1>1, <2>1 DEF Record
  <2>4. placer'[h].pc = "idle" /\ \A i \in Hops \ {h} : placer'[i] = placer[i]
    BY <1>1, <2>1 DEF Record
  <2> HIDE DEF x
  <2> QED  BY <1>1, <2>2, <2>3, <2>4 DEF OnlyQueued
<1>6. CASE \E h \in Hops : WriteIntercept(h)
  <2>1. PICK h \in Hops : WriteIntercept(h)
    BY <1>6
  <2> DEFINE x == [row[h] EXCEPT !.stop = move[h]]
  <2>2. move[h] \in Stops
    BY <2>1 DEF WriteIntercept, Types, TypeOK
  <2>3. x \in RowRec /\ x.status = row[h].status
    BY <1>1, <2>2 DEF RowRec
  <2>4. row' = [row EXCEPT ![h] = x] /\ placer' = placer
    BY <1>1, <2>1 DEF WriteIntercept
  <2> HIDE DEF x
  <2> QED  BY <1>1, <2>3, <2>4 DEF OnlyQueued
<1>7. CASE Crash
  BY <1>1, <1>7 DEF Crash, OnlyQueued
<1>8. CASE UNCHANGED <<row, placer>>
  BY <1>1, <1>8 DEF OnlyQueued
<1> QED  BY <1>2, <1>3, <1>4, <1>5, <1>6, <1>7, <1>8
         DEF Step, Handle, Begin, GuardPasses, GuardRefuses, UpdateCart, Check, Refuse,
             RepeatPlace, Place, Throw,
             InsertFails, Preview, ReIntercept, Age

----------------------------------------------------------------------------
(* The guard's window                                                      *)

\* An executed place call puts at most its own order into the window, and a
\* queued hop puts none.
LEMMA ExecuteWindow ==
    ASSUME Types, NEW h \in Hops, NEW lost \in BOOLEAN, NEW seen \in Sids, Execute(h, lost, seen)
    PROVE  /\ Window' \subseteq Window \union {Len(account) + 1}
           /\ Timing[h] = "auto" => Window' \subseteq Window
<1>1. Len(account) \in Nat
  BY DEF Types, TypeOK
<1>2. /\ Len(account') = Len(account) + 1
      /\ \A s \in 1..Len(account) : account'[s] = account[s]
      /\ account'[Len(account) + 1].hop = h
  BY ExecuteTypes
<1>3. 1..(Len(account) + 1) = (1..Len(account)) \union {Len(account) + 1}
  BY <1>1
<1> QED  BY <1>2, <1>3 DEF Window, InWindow

\* Orders keep what they were, but for their age and the acknowledgement.
Kept(s) == /\ account'[s].hop = account[s].hop /\ account'[s].seen = account[s].seen
           /\ account'[s].items = account[s].items /\ account'[s].own = account[s].own
           /\ account[s].unacked => account'[s].unacked

\* Nothing else puts an order into it.
LEMMA WindowShrinks ==
    ASSUME Types,
           \/ \E s \in 1..Len(account) : Age(s)
           \/ \E S : Forget(S)
           \/ UNCHANGED account
    PROVE  /\ Window' \subseteq Window /\ Len(account') = Len(account)
           /\ \A s \in 1..Len(account) : Kept(s)
<1>1. account \in Seq(SwiggyOrder) /\ Len(account) \in Nat
  BY DEF Types, TypeOK
<1>2. CASE \E s \in 1..Len(account) : Age(s)
  <2>1. PICK s \in 1..Len(account) : account' = [account EXCEPT ![s].recent = FALSE]
    BY <1>2 DEF Age
  <2>2. Len(account') = Len(account) /\ \A t \in (1..Len(account)) \ {s} : account'[t] = account[t]
    BY <1>1, <2>1
  <2>3. account'[s].recent = FALSE /\ Kept(s)
    BY <1>1, <2>1 DEF SwiggyOrder, Kept
  <2> QED  BY <2>2, <2>3 DEF Window, InWindow, Kept
<1>3. CASE \E S : Forget(S)
  BY <1>3, ForgetTypes DEF Window, InWindow, Kept
<1>4. CASE UNCHANGED account
  BY <1>4 DEF Window, InWindow, Kept
<1> QED  BY <1>2, <1>3, <1>4

\* What the requests may do together: one is served at a time when the customer
\* waits, and only the guard lets a request pass.
LEMMA RequestStep ==
    ASSUME Types, OneAtATime, Step, UNCHANGED mode
    PROVE  /\ OneAtATime'
           /\ \A r \in Requests : Passed(r)' =>
                 \/ GuardPasses(r)
                 \/ Passed(r) /\ At(r)' = At(r) /\ req'[r].seen = req[r].seen
           /\ mode.waits => \A r \in Requests : Executes(r) =>
                                \A q \in Requests \ {r} : ~Passed(q)'
           /\ \A r \in Requests : req'[r].seen \in {0, req[r].seen, Len(account)}
<1>1. CASE \E r \in Requests : Handle(r)
  <2>1. PICK r \in Requests : Handle(r)
    BY <1>1
  <2>2. /\ \A q \in Requests \ {r} : req'[q] = req[q]
        /\ Passed(r)' => \/ GuardPasses(r)
                         \/ Passed(r) /\ At(r)' = At(r) /\ req'[r].seen = req[r].seen
        /\ Busy(r)' => Busy(r) \/ Begin(r)
        /\ req'[r].seen \in {0, req[r].seen, Len(account)}
    BY <2>1, HandleStep
  <2>3. \A q \in Requests \ {r} : /\ (Busy(q)' <=> Busy(q)) /\ (Passed(q)' <=> Passed(q))
                                   /\ At(q)' = At(q)
    BY <2>2 DEF Busy, Passed, At
  <2>4. mode.waits /\ Begin(r) => \A q \in Requests : ~Busy(q)
    BY DEF Begin, CustomerMayAct
  <2>5. OneAtATime'
    BY <2>2, <2>3, <2>4 DEF OneAtATime
  <2>6. \A q \in Requests : Passed(q)' =>
           \/ GuardPasses(q)
           \/ Passed(q) /\ At(q)' = At(q) /\ req'[q].seen = req[q].seen
    BY <2>2, <2>3
  <2>7. ASSUME mode.waits, NEW t \in Requests, Executes(t), NEW q \in Requests \ {t}
        PROVE  ~Passed(q)'
    <3>1. Busy(t) /\ ~Busy(q)
      BY <2>7 DEF OneAtATime, Busy, Executes
    <3>2. CASE q # r
      BY <3>1, <3>2, <2>2 DEF Passed, Busy
    <3>3. CASE q = r
      BY <3>1, <3>3, <2>2 DEF Passed, Busy, GuardPasses
    <3> QED  BY <3>2, <3>3
  <2>8. \A q \in Requests : req'[q].seen \in {0, req[q].seen, Len(account)}
    BY <2>2
  <2> QED  BY <2>5, <2>6, <2>7, <2>8
<1>2. CASE Crash
  <2>1. \A r \in Requests : req'[r].pc = "idle" /\ req'[r].seen \in {0, req[r].seen}
    BY <1>2, CrashEnds
  <2> QED  BY <2>1 DEF OneAtATime, Busy, Passed
<1>3. CASE UNCHANGED req
  <2>1. OneAtATime' /\ \A r \in Requests : (Passed(r)' <=> Passed(r)) /\ At(r)' = At(r)
    BY <1>3 DEF OneAtATime, Busy, Passed, At
  <2>2. ASSUME mode.waits, NEW r \in Requests, Executes(r), NEW q \in Requests \ {r}
        PROVE  ~Passed(q)
    BY <2>2 DEF OneAtATime, Busy, Passed, Executes
  <2> QED  BY <1>3, <2>1, <2>2
<1> QED  BY <1>1, <1>2, <1>3
         DEF Step, Rebuild, RepeatQueued, PlaceQueued, RefuseQueued, Record, Preview,
             WriteIntercept, ReIntercept, Age

\* The account's list never gets shorter.
LEMMA AccountGrows == ASSUME Types, Step PROVE Len(account') >= Len(account)
<1>1. Len(account) \in Nat
  BY DEF Types, TypeOK
<1>2. ASSUME NEW r \in Requests, Executes(r) PROVE Len(account') >= Len(account)
  <2>1. Busy(r) /\ req[r].seen \in Sids
    BY <1>2 DEF Executes, Busy, Types, TypeOK
  <2>2. Len(account') = Len(account) + 1
    BY <1>2, <2>1, AtIsHop, ExecuteTypes DEF Executes
  <2> QED  BY <1>1, <2>2
<1>3. ASSUME NEW h \in Hops, NEW lost \in BOOLEAN, Execute(h, lost, 0)
      PROVE  Len(account') >= Len(account)
  <2>1. 0 \in Sids
    BY IntakeAssumption DEF Sids
  <2>2. Len(account') = Len(account) + 1
    BY <1>3, <2>1, ExecuteTypes
  <2> QED  BY <1>1, <2>2
<1> QED  BY <1>1, <1>2, <1>3, AccountStep, WindowShrinks

\* What a guard has seen stays there.
LEMMA SeenStep ==
    ASSUME Types, OneAtATime, SeenSoFar, Step, UNCHANGED mode PROVE SeenSoFar'
<1> SUFFICES ASSUME NEW r \in Requests PROVE req'[r].seen <= Len(account')
  BY DEF SeenSoFar
<1>1. req'[r].seen \in {0, req[r].seen, Len(account)}
  BY RequestStep
<1>2. req[r].seen <= Len(account) /\ Len(account') >= Len(account)
  BY AccountGrows DEF SeenSoFar
<1>3. Len(account) \in Nat /\ Len(account') \in Nat /\ req[r].seen \in Nat
  BY AccountTypes DEF Types, TypeOK, Sids
<1> QED  BY <1>1, <1>2, <1>3

\* A step that puts nothing into the window keeps what is said of it.
LEMMA WindowKept ==
    ASSUME Inv, Step, UNCHANGED mode, "orders" \notin mode.faults,
           Window' \subseteq Window, \A s \in 1..Len(account) : Kept(s)
    PROVE  WindowIsClear'
<1>1. WindowIsClear
  BY DEF Inv
<1>2. Window \subseteq 1..Len(account)
  BY DEF Window
<1>3. ASSUME NEW s \in Window', NEW t \in Window', s < t
      PROVE  IF mode.waits THEN account'[s].hop = account'[t].hop /\ account'[s].unacked
                           ELSE account'[t].seen < s
  <2>1. Kept(s) /\ Kept(t) /\ s \in Window /\ t \in Window
    BY <1>2
  <2> QED  BY <1>1, <1>3, <2>1 DEF WindowIsClear, Kept
<1>4. ASSUME NEW r \in Requests, Passed(r)', NEW s \in Window'
      PROVE  /\ req'[r].seen < s
             /\ mode.waits => account'[s].hop = At(r)' /\ account'[s].unacked
  <2>1. Kept(s) /\ s \in Window
    BY <1>2
  <2>2. ~GuardPasses(r)
    BY <2>1 DEF GuardPasses, RecentOrder, Window, InWindow
  <2>3. Passed(r) /\ At(r)' = At(r) /\ req'[r].seen = req[r].seen
    BY <1>4, <2>2, RequestStep DEF Inv
  <2> QED  BY <1>1, <2>1, <2>3 DEF WindowIsClear, Kept
<1> QED  BY <1>3, <1>4 DEF WindowIsClear

\* The guard, and what follows it until the order is placed: what is "now" and
\* placed between the guard and the place call is the call's own, or comes from
\* a request that overlaps.
LEMMA WindowStep ==
    ASSUME Inv, Step, UNCHANGED mode
    PROVE  WindowIsClear'
<1> SUFFICES ASSUME "orders" \notin mode.faults PROVE WindowIsClear'
  BY DEF WindowIsClear
<1>1. CASE \E r \in Requests : Executes(r)
  <2>1. PICK r \in Requests : Executes(r)
    BY <1>1
  <2>2. PICK lost \in BOOLEAN : /\ Execute(At(r), lost, req[r].seen)
                                /\ ~Passed(r)' \/ (lost /\ UNCHANGED req)
    BY <2>1 DEF Executes
  <2>3. Busy(r) /\ Passed(r) /\ req[r].seen \in Sids /\ At(r) \in Hops
    BY <2>1, AtIsHop DEF Executes, Busy, Passed, Inv, Types, TypeOK
  <2> DEFINE n == Len(account) + 1
  <2>4. /\ \A s \in 1..Len(account) : account'[s] = account[s]
        /\ account'[n].hop = At(r) /\ account'[n].seen = req[r].seen /\ account'[n].unacked = lost
        /\ Window' \subseteq Window \union {n}
    BY <2>2, <2>3, ExecuteTypes, ExecuteWindow DEF Inv
  <2>5. Len(account) \in Nat /\ Window \subseteq 1..Len(account)
    BY DEF Inv, Types, TypeOK, Window
  <2>6. \A s \in Window : /\ req[r].seen < s /\ s < n /\ account'[s] = account[s]
                          /\ mode.waits => account[s].hop = At(r) /\ account[s].unacked
    BY <2>3, <2>4, <2>5 DEF Inv, WindowIsClear
  <2>7. ASSUME NEW s \in Window', NEW t \in Window', s < t
        PROVE  IF mode.waits THEN account'[s].hop = account'[t].hop /\ account'[s].unacked
                             ELSE account'[t].seen < s
    <3>1. s \in Window
      BY <2>4, <2>5, <2>6, <2>7
    <3>2. CASE t = n
      BY <2>4, <2>6, <3>1, <3>2
    <3>3. CASE t \in Window
      BY <2>6, <2>7, <3>1, <3>3 DEF Inv, WindowIsClear
    <3> QED  BY <2>4, <3>2, <3>3
  <2>8. ASSUME NEW q \in Requests, Passed(q)', NEW s \in Window'
        PROVE  /\ req'[q].seen < s
               /\ mode.waits => account'[s].hop = At(q)' /\ account'[s].unacked
    <3>1. Passed(q) /\ At(q)' = At(q) /\ req'[q].seen = req[q].seen
      <4>1. ~GuardPasses(q)
        BY <2>4, <2>5, <2>2 DEF GuardPasses, Execute, Inv, Types, TypeOK
      <4> QED  BY <2>8, <4>1, RequestStep DEF Inv
    <3>2. mode.waits => q = r
      BY <2>1, <2>8, RequestStep DEF Inv
    <3>3. req[q].seen \in Nat /\ req[q].seen <= Len(account)
      BY DEF Inv, Types, TypeOK, Sids, SeenSoFar
    <3>4. CASE s = n
      <4>1. q = r => lost
        BY <2>2, <2>8
      <4> QED  BY <2>4, <2>5, <3>1, <3>2, <3>3, <3>4, <4>1
    <3>5. CASE s \in Window
      BY <2>6, <3>1, <3>5 DEF Inv, WindowIsClear
    <3> QED  BY <2>4, <3>4, <3>5
  <2> QED  BY <2>7, <2>8 DEF WindowIsClear
<1>2. CASE \E h \in Hops : /\ placer[h].pc = "place" /\ UNCHANGED req
                           /\ \E lost \in BOOLEAN : Execute(h, lost, 0)
  <2>1. PICK h \in Hops, lost \in BOOLEAN : placer[h].pc = "place" /\ Execute(h, lost, 0)
    BY <1>2
  <2>2. Timing[h] = "auto" /\ 0 \in Sids
    BY <2>1, IntakeAssumption DEF Inv, OnlyQueued, Sids
  <2>3. Window' \subseteq Window /\ \A s \in 1..Len(account) : account'[s] = account[s]
    BY <2>1, <2>2, ExecuteWindow, ExecuteTypes DEF Inv
  <2> QED  BY <2>3, WindowKept DEF Kept
<1> QED  BY <1>1, <1>2, AccountStep, WindowShrinks, WindowKept DEF Inv

----------------------------------------------------------------------------
\* No order, no request.
LEMMA InvInit == Init => Inv
<1> SUFFICES ASSUME Init PROVE Inv
  OBVIOUS
<1>1. TypeOK
  BY IntakeAssumption DEF Init, TypeOK, Sids, Stops, EmptyCart
<1>2. \A r \in Requests : ~Busy(r) /\ ~Passed(r) /\ req[r].seen = 0
  BY DEF Init, Busy, Passed
<1>3. Window = {} /\ Len(account) = 0
  BY DEF Init, Window
<1> QED  BY <1>1, <1>2, <1>3
         DEF Init, Inv, Types, OnPlan, OnlyQueued, OneAtATime, SeenSoFar, WindowIsClear

\* Every handler, every tick of the placer and every fault keeps the invariant.
LEMMA InvStep == Inv /\ [Next]_vars => Inv'
<1> SUFFICES ASSUME Inv, [Next]_vars PROVE Inv'
  OBVIOUS
<1>1. CASE UNCHANGED vars
  BY <1>1 DEF vars, Inv, Types, TypeOK, OnPlan, OnlyQueued, OneAtATime, SeenSoFar, WindowIsClear,
              Window, InWindow, Passed, Busy, At
<1>2. CASE Step /\ UNCHANGED mode
  <2>1. Types /\ OnlyQueued /\ OneAtATime
    BY DEF Inv
  <2>2. TypeOK'
    BY <1>2, <2>1, RequestTypes, AccountTypes, OtherTypes, RowStep DEF Types, TypeOK, Req, RowRec
  <2>3. OnPlan' /\ OnlyQueued' /\ OneAtATime' /\ SeenSoFar' /\ WindowIsClear'
    BY <1>2, <2>1, RequestTypes, RowStep, RequestStep, SeenStep, WindowStep DEF Inv
  <2> QED  BY <2>2, <2>3 DEF Inv, Types
<1> QED  BY <1>1, <1>2 DEF Next

\* The intake's state has its types.
THEOREM TypeCorrect == Spec => []TypeOK
<1>1. Inv => TypeOK
  BY DEF Inv, Types
<1> QED  BY <1>1, InvInit, InvStep, PTL DEF Spec

\* Two orders "now" inside the window of checkForDuplicateOrder come from one
\* place call, which the client repeated after an execution without an answer
\* (client.ts), or from requests of a customer who did not wait, the later of
\* which passed the guard before the earlier was executed: as long as Swiggy
\* lists the orders, whatever rows and answers are lost.
THEOREM OneNow == Spec => []OneImmediateOrder
<1>1. Inv => OneImmediateOrder
  <2> SUFFICES ASSUME Inv, "orders" \notin mode.faults, NEW s \in 1..Len(account),
                      NEW r \in 1..(s - 1), InWindow(r), InWindow(s)
               PROVE  \/ account[r].hop = account[s].hop /\ account[r].unacked
                      \/ ~mode.waits /\ account[s].seen < r
    BY DEF OneImmediateOrder
  <2>1. Len(account) \in Nat
    BY DEF Inv, Types, TypeOK
  <2>2. r \in Window /\ s \in Window /\ r < s
    BY <2>1 DEF Window
  <2> QED  BY <2>2 DEF Inv, WindowIsClear
<1> QED  BY <1>1, InvInit, InvStep, PTL DEF Spec

----------------------------------------------------------------------------
(* An acknowledged order and its row                                       *)

Acked(h) == {s \in 1..Len(account) : account[s].hop = h /\ ~account[s].unacked}
Inserting(r, h, s) == req[r].pc = "insert" /\ At(r) = h /\ req[r].sid = s

\* The hops that a request is at or that lie before it have no row.
Ahead ==
    \A r \in Requests : \A i \in 1..Len(Plan[r]) :
      req[r].hop < i \/ (Busy(r) /\ req[r].hop = i) => row[Plan[r][i]].status = "absent"

\* Where the acknowledged orders of a hop are: with the handler that will insert
\* its row, in the row, or with the tick that will write it.
Held(h) ==
    /\ row[h].status = "absent" =>
          /\ row[h].sid = 0 /\ placer[h].pc = "idle"
          /\ \A s \in Acked(h) : \E r \in Requests : Inserting(r, h, s)
    /\ row[h].status # "absent" /\ row[h].sid # 0 =>
          placer[h].pc = "idle" /\ \A s \in Acked(h) : s = row[h].sid
    /\ row[h].status # "absent" /\ row[h].sid = 0 =>
          \A s \in Acked(h) : placer[h].pc = "record" /\ placer[h].sid = s

\* Where the order of each hop is.
Book == Ahead /\ \A h \in Hops : Held(h)

\* Two requests are never at the same hop, and a hop that is being served has
\* no row (orders.ts: each delivery is asked for once).
LEMMA HopsAreApart ==
    ASSUME Types, Ahead, NEW r \in Requests, Busy(r)
    PROVE  /\ At(r) \in Hops /\ row[At(r)].status = "absent"
           /\ \A q \in Requests \ {r} : Busy(q) => At(q) # At(r)
           /\ \A q \in Requests : \A i \in 1..Len(Plan[q]) :
                 q # r \/ i # req[r].hop => Plan[q][i] # At(r)
<1>1. \A q \in Requests : Busy(q) => req[q].hop \in 1..Len(Plan[q])
  BY DEF Types, OnPlan
<1>2. At(r) \in Hops
  BY AtIsHop
<1>3. row[At(r)].status = "absent"
  BY <1>1 DEF Ahead, At
<1>4. \A q \in Requests : \A i \in 1..Len(Plan[q]) :
         q # r \/ i # req[r].hop => Plan[q][i] # At(r)
  BY <1>1, IntakeAssumption DEF At
<1>5. \A q \in Requests \ {r} : Busy(q) => At(q) # At(r)
  BY <1>1, <1>4 DEF At
<1> QED  BY <1>2, <1>3, <1>4, <1>5

\* A step that inserts nothing and acknowledges nothing moves no order.
LEMMA HeldStays ==
    ASSUME NEW h, Held(h), row'[h].status = row[h].status, row'[h].sid = row[h].sid,
           placer'[h] = placer[h], Acked(h)' \subseteq Acked(h),
           \A r \in Requests : req[r].pc = "insert" => req'[r] = req[r] \/ At(r) # h
    PROVE  Held(h)'
<1>1. \A r \in Requests : \A s : Inserting(r, h, s) => Inserting(r, h, s)'
  BY DEF Inserting, At
<1> QED  BY <1>1 DEF Held

\* A request that goes on, or ends, without a new row.
LEMMA AheadStays ==
    ASSUME Types, Ahead, NEW r \in Requests,
           \A q \in Requests \ {r} : req'[q] = req[q],
           (req'[r].hop = req[r].hop /\ (Busy(r)' => Busy(r))) \/ Begin(r),
           \A h \in Hops : row'[h].status = row[h].status
    PROVE  Ahead'
<1>1. \A q \in Requests : \A i \in 1..Len(Plan[q]) : Plan[q][i] \in Hops
  BY IntakeAssumption
<1>2. CASE req'[r].hop = req[r].hop /\ (Busy(r)' => Busy(r))
  <2>1. \A q \in Requests : req'[q].hop = req[q].hop /\ (Busy(q)' => Busy(q))
    BY <1>2 DEF Busy
  <2> QED  BY <1>1, <2>1 DEF Ahead
<1>3. CASE Begin(r)
  <2>1. req[r].hop = 0 /\ req'[r].hop = 1
    BY <1>3 DEF Begin, Types, TypeOK
  <2>2. \A i \in 1..Len(Plan[r]) : row[Plan[r][i]].status = "absent"
    BY <2>1, IntakeAssumption DEF Ahead
  <2>3. \A q \in Requests \ {r} : req'[q].hop = req[q].hop /\ (Busy(q)' <=> Busy(q))
    BY DEF Busy
  <2> QED  BY <1>1, <2>2, <2>3 DEF Ahead
<1> QED  BY <1>2, <1>3

\* What an executed place call acknowledges.
LEMMA ExecuteAcks ==
    ASSUME Types, NEW h \in Hops, NEW lost \in BOOLEAN, NEW seen \in Sids, Execute(h, lost, seen)
    PROVE  /\ \A g \in Hops \ {h} : Acked(g)' = Acked(g)
           /\ Acked(h)' \subseteq Acked(h) \union {Len(account) + 1}
           /\ lost => Acked(h)' = Acked(h)
<1>1. Len(account) \in Nat
  BY DEF Types, TypeOK
<1>2. /\ Len(account') = Len(account) + 1
      /\ \A s \in 1..Len(account) : account'[s] = account[s]
      /\ account'[Len(account) + 1].hop = h /\ account'[Len(account) + 1].unacked = lost
  BY ExecuteTypes
<1>3. 1..(Len(account) + 1) = (1..Len(account)) \union {Len(account) + 1}
  BY <1>1
<1> QED  BY <1>2, <1>3 DEF Acked

\* What a forgotten acknowledgement leaves.
LEMMA ForgetAcks ==
    ASSUME Types, NEW S, Forget(S)
    PROVE  \A h : Acked(h)' \subseteq Acked(h) \ S
<1>1. Len(account') = Len(account)
  BY ForgetTypes
<1>2. ASSUME NEW s \in 1..Len(account), ~account'[s].unacked
      PROVE  ~account[s].unacked /\ s \notin S
  <2> DEFINE q == account[s].unacked \/ s \in S
  <2>1. q \in BOOLEAN
    OBVIOUS
  <2>2. account'[s] = [account[s] EXCEPT !.unacked = q]
    BY Zenon DEF Forget
  <2>3. account[s] \in SwiggyOrder
    BY DEF Types, TypeOK
  <2> HIDE DEF q
  <2>4. account'[s].unacked = q
    BY <2>1, <2>2, <2>3 DEF SwiggyOrder
  <2>5. ~q
    BY <1>2, <2>4
  <2> QED  BY <2>5 DEF q
<1>3. \A s \in 1..Len(account) : account'[s].hop = account[s].hop
  BY ForgetTypes
<1> QED  BY <1>1, <1>2, <1>3 DEF Acked

\* The steps of a request between its beginning and its insert, with those that
\* end it: what they execute is not acknowledged.
LEMMA BookHandle ==
    ASSUME Types, Book, NEW r \in Requests,
           Begin(r) \/ GuardPasses(r) \/ GuardRefuses(r) \/ UpdateCart(r) \/ Check(r)
             \/ Refuse(r) \/ RepeatPlace(r) \/ Throw(r)
    PROVE  Book'
<1>1. /\ req[r].pc # "insert" /\ UNCHANGED <<row, placer>>
      /\ \A q \in Requests \ {r} : req'[q] = req[q]
      /\ (req'[r].hop = req[r].hop /\ Busy(r)) \/ Begin(r)
  <2>0. req \in [Requests -> Req] /\ req[r] \in Req /\ (Busy(r) => req[r].hop # 0)
    BY DEF Types, TypeOK, Req, OnPlan
  <2>1. CASE Begin(r)
    BY <2>0, <2>1 DEF Begin, Busy
  <2>2. CASE GuardPasses(r)
    BY <2>0, <2>2 DEF GuardPasses, Busy, Req
  <2>3. CASE RepeatPlace(r)
    BY <2>3 DEF RepeatPlace, Busy
  <2>4. CASE UpdateCart(r) \/ Check(r)
    BY <2>0, <2>4 DEF UpdateCart, Check, Goto, Req, Busy
  <2>5. CASE GuardRefuses(r) \/ Refuse(r) \/ Throw(r)
    <3>1. \E a : Reply(r, a)
      BY <2>5 DEF GuardRefuses, Refuse, Throw
    <3>2. /\ req'[r].hop = req[r].hop
          /\ \A q \in Requests \ {r} : req'[q] = req[q]
      BY <2>0, <3>1 DEF Reply, Req
    <3>3. /\ req[r].pc \in {"guard", "cart", "check", "place"}
          /\ UNCHANGED <<row, placer>>
      BY <2>5 DEF GuardRefuses, Refuse, Refusable, Throw
    <3> QED  BY <3>2, <3>3 DEF Busy
  <2> QED  BY <2>1, <2>2, <2>3, <2>4, <2>5
<1>2. \A h \in Hops : Acked(h)' \subseteq Acked(h)
  <2>1. UNCHANGED account \/ (req[r].pc = "place" /\ Execute(At(r), TRUE, req[r].seen))
    BY DEF Begin, GuardPasses, GuardRefuses, UpdateCart, Check, Refuse, RepeatPlace, Throw
  <2>2. req[r].seen \in Sids
    BY DEF Types, TypeOK
  <2>3. CASE UNCHANGED account
    BY <2>3 DEF Acked
  <2>4. CASE req[r].pc = "place" /\ Execute(At(r), TRUE, req[r].seen)
    <3>1. At(r) \in Hops
      BY <2>4, AtIsHop DEF Busy
    <3>2. /\ \A g \in Hops \ {At(r)} : Acked(g)' = Acked(g)
          /\ \A h \in Hops : h = At(r) => Acked(h)' = Acked(h)
      <4>1. PICK h \in Hops : h = At(r)
        BY <3>1
      <4>2. PICK seen \in Sids : seen = req[r].seen
        BY <2>2
      <4>3. Execute(h, TRUE, seen)
        BY <2>4, <4>1, <4>2
      <4> QED  BY <4>1, <4>3, ExecuteAcks
    <3> QED  BY <3>2
  <2> QED  BY <2>1, <2>3, <2>4
<1>3. Ahead'
  BY <1>1, AheadStays DEF Book
<1>4. \A h \in Hops : Held(h)'
  BY <1>1, <1>2, HeldStays DEF Book
<1> QED  BY <1>3, <1>4 DEF Book

\* The acknowledged order is in the handler's hands; one without an orderId
\* counts as not acknowledged.
LEMMA BookPlace == ASSUME Types, Book, NEW r \in Requests, Place(r) PROVE Book'
<1>1. PICK lost \in BOOLEAN :
         /\ Execute(At(r), lost, req[r].seen)
         /\ req' = [req EXCEPT ![r].pc = "insert",
                               ![r].sid = IF ~lost THEN Len(account) + 1 ELSE 0]
  BY DEF Place
<1>2. Busy(r) /\ req[r].pc = "place" /\ UNCHANGED <<row, placer>> /\ req[r].seen \in Sids
  BY DEF Place, Busy, Types, TypeOK
<1>3. /\ At(r) \in Hops /\ row[At(r)].status = "absent"
      /\ \A q \in Requests \ {r} : Busy(q) => At(q) # At(r)
  BY <1>2, HopsAreApart DEF Book
<1>4. /\ req'[r].pc = "insert" /\ req'[r].hop = req[r].hop
      /\ ~lost => req'[r].sid = Len(account) + 1
      /\ \A q \in Requests \ {r} : req'[q] = req[q]
  BY <1>1 DEF Types, TypeOK
<1>5. Ahead'
  BY <1>2, <1>4, AheadStays DEF Book
<1>6. ASSUME NEW h \in Hops \ {At(r)} PROVE Held(h)'
  <2>1. Acked(h)' \subseteq Acked(h)
    BY <1>1, <1>2, <1>3, ExecuteAcks
  <2> QED  BY <1>2, <1>3, <1>4, <2>1, HeldStays DEF Book
<1>7. PICK h \in Hops : h = At(r)
  BY <1>3
<1>8. Acked(h) = {}
  BY <1>2, <1>3, <1>7 DEF Book, Held, Inserting, Busy
<1>9. /\ \A s \in Acked(h)' : Inserting(r, h, s)'
      /\ row'[h].status = "absent" /\ row'[h].sid = 0 /\ placer'[h].pc = "idle"
  <2>1. PICK n : n = Len(account) + 1
    OBVIOUS
  <2>2. \A s \in Acked(h)' : s = n /\ ~lost
    BY <1>1, <1>2, <1>7, <1>8, <2>1, ExecuteAcks
  <2>3. At(r)' = h
    BY <1>4, <1>7 DEF At
  <2>4. ~lost => Inserting(r, h, n)'
    BY <1>4, <2>1, <2>3 DEF Inserting
  <2>5. row[h].sid = 0 /\ placer[h].pc = "idle" /\ row[h].status = "absent"
    BY <1>3, <1>7 DEF Held, Book
  <2> QED  BY <1>2, <2>2, <2>4, <2>5
<1>10. Held(h)'
  BY <1>9 DEF Held
<1> QED  BY <1>5, <1>6, <1>7, <1>10 DEF Book

\* The row is inserted with the order's id, which the handler then lets go.
LEMMA BookInsert == ASSUME Types, Book, NEW r \in Requests, Insert(r) PROVE Book'
<1>1. Busy(r) /\ req[r].pc = "insert" /\ UNCHANGED <<account, placer>> /\ NextHop(r)
  BY DEF Insert, Busy
<1>2. PICK h \in Hops : /\ h = At(r) /\ row[h].status = "absent"
                        /\ \A q \in Requests \ {r} : Busy(q) => At(q) # h
  BY <1>1, HopsAreApart DEF Book
<1>3. /\ row'[h].status # "absent" /\ row'[h].sid = req[r].sid
      /\ \A g \in Hops \ {h} : row'[g] = row[g]
  <2>1. PICK st \in {"pending", "confirmed"} :
            row' = [row EXCEPT ![h].status = st, ![h].sid = req[r].sid]
    BY <1>2 DEF Insert, NewStatus
  <2> QED  BY <2>1 DEF Types, TypeOK
<1>4. \A q \in Requests \ {r} : req'[q] = req[q]
  BY <1>1 DEF NextHop, Reply, Types, TypeOK
<1>5. \/ req'[r].hop = req[r].hop /\ ~Busy(r)'
      \/ req'[r].hop = req[r].hop + 1
  BY <1>1 DEF NextHop, Reply, Types, TypeOK, Busy
<1>6. Ahead'
  <2> SUFFICES ASSUME NEW q \in Requests, NEW i \in 1..Len(Plan[q]),
                      req'[q].hop < i \/ (Busy(q)' /\ req'[q].hop = i)
               PROVE  row'[Plan[q][i]].status = "absent"
    BY DEF Ahead
  <2>1. Plan[q][i] \in Hops /\ req[q].hop \in Nat
    BY IntakeAssumption DEF Types, TypeOK
  <2>2. q # r \/ i # req[r].hop
    BY <1>5, <2>1
  <2>3. Plan[q][i] # h
    BY <1>1, <1>2, <2>2, HopsAreApart DEF Book
  <2>4. req[q].hop < i \/ (Busy(q) /\ req[q].hop = i)
    BY <1>4, <1>5, <2>1 DEF Busy
  <2> QED  BY <1>3, <2>1, <2>3, <2>4 DEF Book, Ahead
<1>7. ASSUME NEW g \in Hops \ {h} PROVE Held(g)'
  <2>1. Acked(g)' \subseteq Acked(g) /\ placer'[g] = placer[g] /\ row'[g] = row[g]
    BY <1>1, <1>3 DEF Acked
  <2>2. \A q \in Requests : req[q].pc = "insert" => req'[q] = req[q] \/ At(q) # g
    BY <1>2, <1>4
  <2> QED  BY <2>1, <2>2, HeldStays DEF Book
<1>8. \A s \in Acked(h)' : s = req[r].sid /\ s # 0
  BY <1>1, <1>2 DEF Book, Held, Inserting, Busy, Acked
<1>9. placer'[h].pc = "idle"
  BY <1>1, <1>2 DEF Book, Held
<1>10. Held(h)'
  BY <1>3, <1>8, <1>9 DEF Held
<1> QED  BY <1>6, <1>7, <1>10 DEF Book

\* An insert that raises loses the acknowledgement with the handler.
LEMMA BookInsertFails == ASSUME Types, Book, NEW r \in Requests, InsertFails(r) PROVE Book'
<1>1. /\ Busy(r) /\ req[r].pc = "insert" /\ UNCHANGED <<row, placer>>
      /\ Forget({req[r].sid}) /\ Reply(r, "threw")
  BY DEF InsertFails, Busy
<1>2. PICK h \in Hops : /\ h = At(r) /\ row[h].status = "absent"
                        /\ \A q \in Requests \ {r} : Busy(q) => At(q) # h
  BY <1>1, HopsAreApart DEF Book
<1>3. /\ \A q \in Requests \ {r} : req'[q] = req[q]
      /\ req'[r].hop = req[r].hop /\ ~Busy(r)'
  BY <1>1 DEF Reply, Types, TypeOK, Busy
<1>4. Ahead'
  BY <1>1, <1>3, AheadStays DEF Book
<1>5. \A g \in Hops : Acked(g)' \subseteq Acked(g) \ {req[r].sid}
  BY <1>1, ForgetAcks
<1>6. \A s \in Acked(h) : s = req[r].sid
  BY <1>1, <1>2 DEF Book, Held, Inserting, Busy
<1>7. Acked(h)' = {}
  BY <1>5, <1>6
<1>8. Held(h)'
  <2>1. row'[h].status = "absent" /\ row'[h].sid = 0 /\ placer'[h].pc = "idle"
    BY <1>1, <1>2 DEF Book, Held
  <2> QED  BY <1>7, <2>1 DEF Held
<1>9. ASSUME NEW g \in Hops \ {h} PROVE Held(g)'
  <2>1. Acked(g)' \subseteq Acked(g) /\ placer' = placer /\ row' = row
    BY <1>1, <1>5
  <2>2. \A q \in Requests : req[q].pc = "insert" => req'[q] = req[q] \/ At(q) # g
    BY <1>2, <1>3
  <2> QED  BY <2>1, <2>2, HeldStays DEF Book
<1> QED  BY <1>4, <1>8, <1>9 DEF Book

\* A tick of the placer has a row of its own, which it finds by what is in it;
\* its order is written to that row.
LEMMA BookPlacer ==
    ASSUME Types, Book, NEW h \in Hops,
           Rebuild(h) \/ RepeatQueued(h) \/ PlaceQueued(h) \/ RefuseQueued(h) \/ Record(h)
    PROVE  Book'
<1>0. 0 \in Sids
  BY IntakeAssumption DEF Sids
<1>1. /\ req' = req /\ row \in [Hops -> RowRec]
      /\ placer \in [Hops -> [pc: {"idle", "place", "record"}, sid: Sids]]
  BY DEF Rebuild, RepeatQueued, PlaceQueued, RefuseQueued, Record, Types, TypeOK, RowRec
<1>2. \A g \in Hops \ {h} : row'[g] = row[g] /\ placer'[g] = placer[g]
  BY <1>1 DEF Rebuild, RepeatQueued, PlaceQueued, RefuseQueued, Record
<1>3. Held(h) /\ Ahead
  BY DEF Book
<1>4. row[h].status # "absent" /\ row'[h].status # "absent"
  <2>1. row[h].status # "absent"
    BY <1>3 DEF Held, Rebuild, RepeatQueued, PlaceQueued, RefuseQueued, Record
  <2>2. CASE Rebuild(h) \/ RepeatQueued(h) \/ PlaceQueued(h)
    BY <2>1, <2>2 DEF Rebuild, RepeatQueued, PlaceQueued
  <2>3. CASE RefuseQueued(h)
    <3>1. PICK st \in {"pending", "failed"} : row' = [row EXCEPT ![h].status = st]
      BY <2>3 DEF RefuseQueued
    <3> QED  BY <1>1, <2>1, <3>1 DEF RowRec
  <2>4. CASE Record(h)
    BY <1>1, <2>1, <2>4 DEF Record, RowRec
  <2> QED  BY <2>1, <2>2, <2>3, <2>4
<1>5. Ahead'
  <2>1. \A q \in Requests : \A i \in 1..Len(Plan[q]) :
           Plan[q][i] \in Hops /\ (Plan[q][i] # h \/ row[h].status # "absent")
    BY <1>4, IntakeAssumption
  <2> QED  BY <1>1, <1>2, <1>3, <1>4, <2>1 DEF Ahead, Busy
<1>6. ASSUME NEW g \in Hops \ {h} PROVE Held(g)'
  <2>1. Acked(g)' \subseteq Acked(g)
    <3>1. CASE PlaceQueued(h) \/ RepeatQueued(h)
      <4>1. \E lost \in BOOLEAN : Execute(h, lost, 0)
        BY <3>1 DEF PlaceQueued, RepeatQueued
      <4> QED  BY <1>0, <4>1, ExecuteAcks
    <3>2. CASE UNCHANGED account
      BY <3>2 DEF Acked
    <3> QED  BY <3>1, <3>2 DEF Rebuild, RefuseQueued, Record
  <2> QED  BY <1>1, <1>2, <2>1, HeldStays DEF Book
<1>7. Held(h)'
  <2>1. CASE Rebuild(h)
    <3>1. Acked(h)' = {}
      BY <1>3, <1>4, <2>1 DEF Held, Rebuild, Acked
    <3>2. row'[h].sid = 0
      BY <2>1 DEF Rebuild
    <3> QED  BY <1>4, <3>1, <3>2 DEF Held
  <2>2. CASE PlaceQueued(h)
    <3>1. Acked(h) = {} /\ row[h].sid = 0
      BY <1>3, <1>4, <2>2 DEF Held, PlaceQueued
    <3>2. PICK lost \in BOOLEAN :
             /\ Execute(h, lost, 0)
             /\ placer' = [placer EXCEPT ![h] =
                             [pc |-> "record", sid |-> IF ~lost THEN Len(account) + 1 ELSE 0]]
      BY <2>2 DEF PlaceQueued
    <3>3. \A s \in Acked(h)' : s = Len(account) + 1 /\ ~lost
      BY <1>0, <3>1, <3>2, ExecuteAcks
    <3>4. /\ placer'[h].pc = "record" /\ row' = row
          /\ ~lost => placer'[h].sid = Len(account) + 1
      BY <1>1, <2>2, <3>2 DEF PlaceQueued
    <3>5. \A s \in Acked(h)' : placer'[h].pc = "record" /\ placer'[h].sid = s
      BY <3>3, <3>4
    <3>6. row'[h].sid = 0
      BY <3>1, <3>4
    <3> QED  BY <1>4, <3>5, <3>6 DEF Held
  <2>3. CASE RefuseQueued(h)
    <3>1. Acked(h)' = {} /\ row[h].sid = 0
      BY <1>3, <1>4, <2>3 DEF Held, RefuseQueued, Acked
    <3>2. PICK st \in {"pending", "failed"} : row' = [row EXCEPT ![h].status = st]
      BY <2>3 DEF RefuseQueued
    <3>3. row'[h].sid = 0
      BY <1>1, <3>1, <3>2 DEF RowRec
    <3> QED  BY <1>4, <3>1, <3>3 DEF Held
  <2>4. CASE Record(h)
    <3>1. \A s \in Acked(h) : s = placer[h].sid
      BY <1>3, <1>4, <2>4 DEF Held, Record
    <3>2. Acked(h)' = Acked(h)
      BY <2>4 DEF Record, Acked
    <3>3. row'[h].sid = placer[h].sid /\ placer'[h].pc = "idle"
      BY <1>1, <2>4 DEF Record, RowRec
    <3>4. placer[h].sid = 0 => Acked(h) = {}
      BY <3>1 DEF Acked
    <3> QED  BY <1>4, <3>1, <3>2, <3>3, <3>4 DEF Held
  <2>5. CASE RepeatQueued(h)
    <3>1. Acked(h) = {} /\ row[h].sid = 0 /\ row' = row
      BY <1>3, <1>4, <2>5 DEF Held, RepeatQueued
    <3>2. Acked(h)' = {}
      BY <1>0, <2>5, <3>1, ExecuteAcks DEF RepeatQueued
    <3> QED  BY <1>4, <3>1, <3>2 DEF Held
  <2> QED  BY <2>1, <2>2, <2>3, <2>4, <2>5
<1> QED  BY <1>5, <1>6, <1>7 DEF Book

\* A restart loses the acknowledgements that are in hand, and no other.
LEMMA BookCrash == ASSUME Types, Book, Crash PROVE Book'
<1>1. /\ Forget({s \in 1..Len(account) : InHand(s)}) /\ row' = row
      /\ \A h \in Hops : placer'[h].pc = "idle"
  BY DEF Crash
<1>2. \A r \in Requests : req'[r].hop = req[r].hop /\ ~Busy(r)'
  BY CrashEnds DEF Busy
<1>3. Ahead'
  BY <1>1, <1>2 DEF Ahead, Book
<1>4. ASSUME NEW h \in Hops PROVE Held(h)'
  <2>1. Acked(h)' \subseteq {s \in Acked(h) : ~InHand(s)}
    <3>1. Acked(h)' \subseteq Acked(h) \ {s \in 1..Len(account) : InHand(s)}
      BY <1>1, ForgetAcks
    <3> QED  BY <3>1 DEF Acked
  <2>2. Held(h)
    BY DEF Book
  <2>3. row[h].status = "absent" => Acked(h)' = {} /\ row[h].sid = 0
    BY <2>1, <2>2 DEF Held, InHand, Inserting
  <2>4. row[h].status # "absent" /\ row[h].sid = 0 => Acked(h)' = {}
    BY <2>1, <2>2 DEF Held, InHand
  <2>5. row[h].status # "absent" /\ row[h].sid # 0 => \A s \in Acked(h)' : s = row[h].sid
    BY <2>1, <2>2 DEF Held
  <2> QED  BY <1>1, <2>3, <2>4, <2>5 DEF Held
<1> QED  BY <1>3, <1>4 DEF Book

\* Previews, moves and the passing of time write neither a status nor an id.
LEMMA BookRest ==
    ASSUME Types, Book,
           \/ \E h \in Hops : Preview(h) \/ WriteIntercept(h)
           \/ \E m \in Moves : ReIntercept(m[1], m[2])
           \/ \E s \in 1..Len(account) : Age(s)
           \/ UNCHANGED vars
    PROVE  Book'
<1>1. req' = req /\ placer' = placer
  BY DEF Preview, WriteIntercept, ReIntercept, Age, vars
<1>2. \A h \in Hops : row'[h].status = row[h].status /\ row'[h].sid = row[h].sid
  BY DEF Preview, WriteIntercept, ReIntercept, Age, vars, Types, TypeOK
<1>3. \A h \in Hops : Acked(h)' \subseteq Acked(h)
  <2>1. CASE UNCHANGED account
    BY <2>1 DEF Acked
  <2>2. CASE \E s \in 1..Len(account) : Age(s)
    <3>1. PICK s \in 1..Len(account) : account' = [account EXCEPT ![s].recent = FALSE]
      BY <2>2 DEF Age
    <3>2. account \in Seq(SwiggyOrder)
      BY DEF Types, TypeOK
    <3>3. /\ Len(account') = Len(account)
          /\ \A t \in (1..Len(account)) \ {s} : account'[t] = account[t]
      BY <3>1, <3>2
    <3>4. account'[s].hop = account[s].hop /\ account'[s].unacked = account[s].unacked
      BY <3>1, <3>2 DEF SwiggyOrder
    <3> QED  BY <3>3, <3>4 DEF Acked
  <2> QED  BY <2>1, <2>2 DEF Preview, WriteIntercept, ReIntercept, vars
<1>4. Ahead'
  <2>1. \A q \in Requests : \A i \in 1..Len(Plan[q]) : Plan[q][i] \in Hops
    BY IntakeAssumption
  <2> QED  BY <1>1, <1>2, <2>1 DEF Book, Ahead, Busy
<1>5. \A h \in Hops : Held(h)'
  BY <1>1, <1>2, <1>3, HeldStays DEF Book
<1> QED  BY <1>4, <1>5 DEF Book

\* Every step keeps the acknowledged orders and their rows together.
LEMMA BookStep == Types /\ Book /\ [Next]_vars => Book'
<1> SUFFICES ASSUME Types, Book, [Next]_vars PROVE Book'
  OBVIOUS
<1>1. CASE \E r \in Requests : Handle(r)
  BY <1>1, BookHandle, BookPlace, BookInsert, BookInsertFails DEF Handle
<1> QED  BY <1>1, BookPlacer, BookCrash, BookRest DEF Next, Step

\* An order that Swiggy acknowledged is in a handler's hands, or in the row of
\* its delivery (orders.ts, deferred-placer.ts), unless the write was lost.
THEOREM AckedRecorded == Spec => []AckedOrderIsRecorded
<1>1. Init => Book
  <2> SUFFICES ASSUME Init PROVE Book
    OBVIOUS
  <2>1. \A q \in Requests : \A i \in 1..Len(Plan[q]) : Plan[q][i] \in Hops
    BY IntakeAssumption
  <2>2. \A h \in Hops : row[h].status = "absent" /\ row[h].sid = 0 /\ placer[h].pc = "idle"
    BY DEF Init
  <2>3. \A h \in Hops : Acked(h) = {}
    <3>1. Len(account) = 0 /\ 1..0 = {}
      BY DEF Init
    <3> QED  BY <3>1 DEF Acked
  <2> QED  BY <2>1, <2>2, <2>3 DEF Book, Ahead, Held
<1>2. Inv => Types
  BY DEF Inv
<1>3. Types /\ Book => AckedOrderIsRecorded
  <2> SUFFICES ASSUME Types, Book, NEW s \in 1..Len(account), ~account[s].unacked, ~InHand(s)
               PROVE  row[account[s].hop].sid = s
    BY DEF AckedOrderIsRecorded
  <2>1. PICK h \in Hops : h = account[s].hop
    <3>1. account[s] \in SwiggyOrder
      BY DEF Types, TypeOK
    <3> QED  BY <3>1 DEF SwiggyOrder
  <2>2. s \in Acked(h) /\ Held(h)
    BY <2>1 DEF Acked, Book
  <2>3. row[h].status # "absent"
    BY <2>2 DEF Held, InHand, Inserting
  <2>4. row[h].sid # 0
    BY <2>2, <2>3 DEF Held, InHand
  <2> QED  BY <2>1, <2>2, <2>3, <2>4 DEF Held
<1> QED  BY <1>1, <1>2, <1>3, InvInit, InvStep, BookStep, PTL DEF Spec

----------------------------------------------------------------------------
(* The items of an order                                                   *)

\* Hops of one kitchen want the same of it.
KitchensApart == \A g, h \in Hops : Kitchen[g] = Kitchen[h] => Dish[g] = Dish[h]

\* What a cart of a kitchen has in it is what the hop of that kitchen wants, and
\* the hop it was last filled for finds it there.
CartInv ==
    /\ \A h \in Hops : cart.kitchen = Kitchen[h] => cart.dishes \subseteq {Dish[h]}
    /\ \A h \in Hops : cart.last = {h} => cart.dishes = {Dish[h]}

\* An order placed from the cart of its own hop is what the hop wants.
OwnItems == \A s \in 1..Len(account) : account[s].own => account[s].items = {Dish[account[s].hop]}

Earlier(a, s, h) == \E r \in 1..(s - 1) : a[r].hop = h

\* When nobody else uses the cart, a request that filled it finds it so, until
\* an attempt of its place call was executed.
QuietInv ==
    CartIsQuiet =>
      /\ \A h \in Hops : placer[h].pc = "idle"
      /\ \A r \in Requests : req[r].pc = "check" => cart.last = {At(r)}
      /\ \A r \in Requests : req[r].pc = "place" =>
            cart.last = {At(r)} \/ (cart.dishes = {} /\ Earlier(account, Len(account) + 1, At(r)))
      /\ \A s \in 1..Len(account) :
            account[s].own \/ (account[s].items = {} /\ Earlier(account, s, account[s].hop))

\* What a step may do to the cart.
LEMMA CartMove ==
    ASSUME Types, Step
    PROVE  cart' \in {cart, EmptyCart} \/ \E h \in Hops : cart' = Merged(h)
<1>1. \A r \in Requests : UpdateCart(r) => At(r) \in Hops
  BY AtIsHop DEF UpdateCart, Busy
<1>2. CASE \E r \in Requests : Handle(r)
  <2>1. PICK r \in Requests : Handle(r)
    BY <1>2
  <2> QED  BY <1>1, <2>1
           DEF Handle, Begin, GuardPasses, GuardRefuses, UpdateCart, FillCart, Check, Refuse,
               RepeatPlace, Place, Throw, Insert, InsertFails, Execute
<1>3. CASE \E h \in Hops : PlaceQueued(h) \/ RepeatQueued(h)
  BY <1>3 DEF PlaceQueued, RepeatQueued, Execute
<1>4. CASE \E h \in Hops : Rebuild(h) \/ Preview(h)
  BY <1>4 DEF Rebuild, Preview, FillCart
<1> QED  BY <1>2, <1>3, <1>4
         DEF Step, RefuseQueued, Record, ReIntercept, WriteIntercept, Crash, Age

\* The cart after an update, whatever was in it before.
LEMMA FilledCart ==
    ASSUME KitchensApart, CartInv, NEW h \in Hops, cart' = Merged(h)
    PROVE  cart'.kitchen = Kitchen[h] /\ cart'.dishes = {Dish[h]} /\ cart'.last = {h}
BY DEF Merged, CartInv

\* Updates and orders keep the cart to one kitchen's dishes.
LEMMA CartStep == ASSUME KitchensApart, Types, CartInv, Step PROVE CartInv'
<1>1. CASE cart' = cart
  BY <1>1 DEF CartInv
<1>2. CASE cart' = EmptyCart
  BY <1>2 DEF CartInv, EmptyCart
<1>3. CASE \E h \in Hops : cart' = Merged(h)
  <2>1. PICK h \in Hops : cart' = Merged(h)
    BY <1>3
  <2>2. cart'.kitchen = Kitchen[h] /\ cart'.dishes = {Dish[h]} /\ cart'.last = {h}
    BY <2>1, FilledCart
  <2> QED  BY <2>2 DEF CartInv, KitchensApart
<1> QED  BY <1>1, <1>2, <1>3, CartMove

\* The order that a place call makes of the cart.
LEMMA ExecuteItems ==
    ASSUME Types, CartInv, OwnItems, NEW h \in Hops, NEW lost \in BOOLEAN, NEW seen \in Sids,
           Execute(h, lost, seen)
    PROVE  OwnItems'
<1>1. Len(account) \in Nat
  BY DEF Types, TypeOK
<1>2. /\ Len(account') = Len(account) + 1
      /\ \A s \in 1..Len(account) : account'[s] = account[s]
      /\ account'[Len(account) + 1].hop = h
      /\ account'[Len(account) + 1].items = cart.dishes
      /\ account'[Len(account) + 1].own = (cart.last = {h})
  BY ExecuteTypes
<1>3. 1..(Len(account) + 1) = (1..Len(account)) \union {Len(account) + 1}
  BY <1>1
<1>4. account'[Len(account) + 1].own => account'[Len(account) + 1].items = {Dish[h]}
  BY <1>2 DEF CartInv
<1> QED  BY <1>2, <1>3, <1>4 DEF OwnItems

\* Whoever places.
LEMMA OwnStep == ASSUME Types, CartInv, OwnItems, Step PROVE OwnItems'
<1>1. CASE \E r \in Requests : Executes(r)
  <2>1. PICK r \in Requests : Executes(r)
    BY <1>1
  <2>2. Busy(r) /\ req[r].seen \in Sids
    BY <2>1 DEF Executes, Busy, Types, TypeOK
  <2> QED  BY <2>1, <2>2, AtIsHop, ExecuteItems DEF Executes
<1>2. CASE \E h \in Hops : \E lost \in BOOLEAN : Execute(h, lost, 0)
  <2>1. 0 \in Sids
    BY IntakeAssumption DEF Sids
  <2> QED  BY <1>2, <2>1, ExecuteItems
<1>3. CASE /\ Len(account') = Len(account)
           /\ \A s \in 1..Len(account) : Kept(s)
  BY <1>3 DEF OwnItems, Kept
<1> QED  BY <1>1, <1>2, <1>3, AccountStep, WindowShrinks

\* What is said of the orders when nobody else uses the cart.
ItemsOrEmpty(a) ==
    \A s \in 1..Len(a) : a[s].own \/ (a[s].items = {} /\ Earlier(a, s, a[s].hop))

\* Orders that are kept stay as they were placed, each after those before it.
LEMMA ItemsKept ==
    ASSUME Types, ItemsOrEmpty(account), Len(account') = Len(account),
           \A s \in 1..Len(account) : Kept(s)
    PROVE  /\ ItemsOrEmpty(account')
           /\ \A h : Earlier(account, Len(account) + 1, h)
                      => Earlier(account', Len(account') + 1, h)
<1>1. Len(account) \in Nat
  BY DEF Types, TypeOK
<1>2. ASSUME NEW s \in 1..(Len(account) + 1), NEW h, Earlier(account, s, h)
      PROVE  Earlier(account', s, h)
  <2>1. PICK r \in 1..(s - 1) : account[r].hop = h
    BY <1>2 DEF Earlier
  <2>2. r \in 1..Len(account)
    BY <1>1
  <2>3. account'[r].hop = h
    BY <2>1, <2>2 DEF Kept
  <2> QED  BY <2>3 DEF Earlier
<1>3. ASSUME NEW s \in 1..Len(account')
      PROVE  account'[s].own \/ (account'[s].items = {} /\ Earlier(account', s, account'[s].hop))
  <2>1. s \in 1..Len(account) /\ s \in 1..(Len(account) + 1) /\ Kept(s)
    BY <1>1
  <2>2. account[s].own \/ (account[s].items = {} /\ Earlier(account, s, account[s].hop))
    BY <2>1 DEF ItemsOrEmpty
  <2> QED  BY <1>2, <2>1, <2>2 DEF Kept
<1>4. Len(account) + 1 \in 1..(Len(account) + 1)
  BY <1>1
<1> QED  BY <1>2, <1>3, <1>4 DEF ItemsOrEmpty

\* A place call finds its own cart, or repeats one that was executed.
LEMMA ItemsPlaced ==
    ASSUME Types, ItemsOrEmpty(account), NEW h \in Hops, NEW lost \in BOOLEAN, NEW seen \in Sids,
           Execute(h, lost, seen),
           cart.last = {h} \/ (cart.dishes = {} /\ Earlier(account, Len(account) + 1, h))
    PROVE  ItemsOrEmpty(account') /\ Earlier(account', Len(account') + 1, h)
<1>1. Len(account) \in Nat
  BY DEF Types, TypeOK
<1>2. PICK n : n = Len(account) + 1
  OBVIOUS
<1>3. /\ Len(account') = n
      /\ \A s \in 1..Len(account) : account'[s] = account[s]
      /\ account'[n].hop = h /\ account'[n].items = cart.dishes
      /\ account'[n].own = (cart.last = {h})
  BY <1>2, ExecuteTypes
<1>4. \A s \in 1..n : \A g : Earlier(account, s, g) => Earlier(account', s, g)
  <2> SUFFICES ASSUME NEW s \in 1..n, NEW g, NEW r \in 1..(s - 1), account[r].hop = g
               PROVE  Earlier(account', s, g)
    BY DEF Earlier
  <2>1. r \in 1..Len(account)
    BY <1>1, <1>2
  <2> QED  BY <1>3, <2>1 DEF Earlier
<1>5. ASSUME NEW s \in 1..n
      PROVE  account'[s].own \/ (account'[s].items = {} /\ Earlier(account', s, account'[s].hop))
  <2>1. CASE s = n
    BY <1>2, <1>3, <1>4, <2>1
  <2>2. CASE s \in 1..Len(account)
    BY <1>3, <1>4, <2>2 DEF ItemsOrEmpty
  <2> QED  BY <1>1, <1>2, <2>1, <2>2
<1>6. Earlier(account', Len(account') + 1, h)
  <2>1. n \in 1..((n + 1) - 1)
    BY <1>1, <1>2
  <2> QED  BY <1>3, <2>1 DEF Earlier
<1> QED  BY <1>3, <1>5, <1>6 DEF ItemsOrEmpty

\* A request's own step, while the others wait.
LEMMA QuietHandle ==
    ASSUME Types, OneAtATime, QuietInv, CartIsQuiet, NEW r \in Requests, Handle(r)
    PROVE  /\ ItemsOrEmpty(account')
           /\ \A q \in Requests : req'[q].pc = "check" => cart'.last = {At(q)'}
           /\ \A q \in Requests : req'[q].pc = "place" =>
                 \/ cart'.last = {At(q)'}
                 \/ cart'.dishes = {} /\ Earlier(account', Len(account') + 1, At(q)')
<1>1. /\ \A q \in Requests : req[q].pc = "check" => cart.last = {At(q)}
      /\ \A q \in Requests : req[q].pc = "place" =>
            cart.last = {At(q)} \/ (cart.dishes = {} /\ Earlier(account, Len(account) + 1, At(q)))
      /\ ItemsOrEmpty(account)
  BY DEF QuietInv, ItemsOrEmpty
<1>2. \A q \in Requests \ {r} : req'[q] = req[q]
  BY HandleStep
<1>3. Busy(r) \/ Begin(r)
  BY DEF Handle, GuardPasses, GuardRefuses, UpdateCart, Check, Refuse, Refusable, RepeatPlace,
         Place, Throw, Insert, InsertFails, Busy
<1>4. \A q \in Requests \ {r} : req'[q].pc = "idle"
  BY <1>2, <1>3 DEF OneAtATime, CartIsQuiet, Begin, CustomerMayAct, Busy
<1>5. req \in [Requests -> Req] /\ req[r] \in Req
  BY DEF Types, TypeOK, Req
<1>6. CASE Begin(r) \/ GuardPasses(r) \/ GuardRefuses(r) \/ Refuse(r)
  <2>1. UNCHANGED <<account, cart>> /\ req'[r].pc \in {"guard", "cart", "idle"}
    BY <1>5, <1>6 DEF Begin, GuardPasses, GuardRefuses, Refuse, Goto, Reply, Req
  <2> QED  BY <1>1, <1>4, <2>1
<1>7. CASE UpdateCart(r)
  <2>1. cart' = Merged(At(r)) /\ UNCHANGED account
    BY <1>7 DEF UpdateCart, FillCart, CartIsQuiet
  <2>2. req'[r].pc = "check" /\ At(r)' = At(r)
    BY <1>5, <1>7 DEF UpdateCart, Goto, At, Req
  <2>3. cart'.last = {At(r)}
    BY <2>1 DEF Merged
  <2> QED  BY <1>1, <1>4, <2>1, <2>2, <2>3
<1>8. CASE Check(r)
  <2>1. UNCHANGED <<account, cart>> /\ At(r)' = At(r) /\ cart.last = {At(r)}
    BY <1>1, <1>5, <1>8 DEF Check, Goto, At, Req
  <2> QED  BY <1>1, <1>4, <2>1
<1>9. CASE Executes(r)
  <2>1. PICK lost \in BOOLEAN : /\ Execute(At(r), lost, req[r].seen)
                                /\ ~Passed(r)' \/ (lost /\ UNCHANGED req)
    BY <1>9 DEF Executes
  <2>2. At(r) \in Hops /\ req[r].seen \in Sids
    BY <1>9, AtIsHop DEF Executes, Busy, Types, TypeOK
  <2>3. ItemsOrEmpty(account') /\ Earlier(account', Len(account') + 1, At(r))
    BY <1>1, <1>9, <2>1, <2>2, ItemsPlaced DEF Executes
  <2>4. cart'.dishes = {}
    BY <2>1 DEF Execute, EmptyCart
  <2>5. req'[r].pc = "place" \/ req'[r].pc = "check" => req'[r].pc = "place" /\ At(r)' = At(r)
    BY <1>9, <2>1 DEF Executes, Passed, At
  <2> QED  BY <1>4, <2>3, <2>4, <2>5
<1>10. CASE Throw(r) /\ UNCHANGED <<account, cart>>
  <2>1. req'[r].pc = "idle"
    BY <1>5, <1>10 DEF Throw, Reply, Req
  <2> QED  BY <1>1, <1>4, <1>10, <2>1
<1>11. CASE Insert(r)
  <2>1. UNCHANGED <<account, cart>> /\ req'[r].pc \in {"guard", "idle"}
    BY <1>5, <1>11 DEF Insert, NextHop, Reply, Req
  <2> QED  BY <1>1, <1>4, <2>1
<1>12. CASE InsertFails(r)
  <2>1. UNCHANGED cart /\ req'[r].pc = "idle" /\ Forget({req[r].sid})
    BY <1>5, <1>12 DEF InsertFails, Reply, Req
  <2>2. ItemsOrEmpty(account')
    BY <1>1, <2>1, WindowShrinks, ItemsKept
  <2> QED  BY <1>4, <2>1, <2>2
<1>13. Throw(r) \/ RepeatPlace(r) \/ Place(r)
       => Executes(r) \/ (Throw(r) /\ UNCHANGED <<account, cart>>)
  <2>1. CASE Throw(r)
    <3>1. req'[r].pc = "idle"
      BY <1>5, <2>1 DEF Throw, Reply, Req
    <3> QED  BY <2>1, <3>1 DEF Throw, Executes, Passed
  <2>2. CASE RepeatPlace(r)
    BY <2>2 DEF RepeatPlace, Executes
  <2>3. CASE Place(r)
    <3>1. req'[r].pc = "insert"
      BY <1>5, <2>3 DEF Place, Req
    <3> QED  BY <2>3, <3>1 DEF Place, Executes, Passed
  <2> QED  BY <2>1, <2>2, <2>3
<1> QED  BY <1>6, <1>7, <1>8, <1>9, <1>10, <1>11, <1>12, <1>13 DEF Handle

\* Every step of requests, previews, moves and the passing of time keeps it.
LEMMA QuietStep ==
    ASSUME Types, OneAtATime, QuietInv, Step, UNCHANGED mode
    PROVE  QuietInv'
<1> SUFFICES ASSUME CartIsQuiet
             PROVE  /\ \A h \in Hops : placer'[h].pc = "idle"
                    /\ \A q \in Requests : req'[q].pc = "check" => cart'.last = {At(q)'}
                    /\ \A q \in Requests : req'[q].pc = "place" =>
                          \/ cart'.last = {At(q)'}
                          \/ cart'.dishes = {} /\ Earlier(account', Len(account') + 1, At(q)')
                    /\ ItemsOrEmpty(account')
  BY DEF QuietInv, CartIsQuiet, ItemsOrEmpty
<1>1. /\ \A h \in Hops : placer[h].pc = "idle"
      /\ \A q \in Requests : req[q].pc = "check" => cart.last = {At(q)}
      /\ \A q \in Requests : req[q].pc = "place" =>
            cart.last = {At(q)} \/ (cart.dishes = {} /\ Earlier(account, Len(account) + 1, At(q)))
      /\ ItemsOrEmpty(account)
  BY DEF QuietInv, ItemsOrEmpty
<1>2. ASSUME NEW h \in Hops
      PROVE  ~(Rebuild(h) \/ RepeatQueued(h) \/ PlaceQueued(h) \/ RefuseQueued(h) \/ Record(h))
  BY <1>1 DEF Rebuild, RepeatQueued, PlaceQueued, RefuseQueued, Record, CartIsQuiet
<1>3. CASE \E r \in Requests : Handle(r)
  <2>1. PICK r \in Requests : Handle(r)
    BY <1>3
  <2>2. placer' = placer
    BY <2>1 DEF Handle, Begin, GuardPasses, GuardRefuses, UpdateCart, Check, Refuse, RepeatPlace,
                Place, Throw, Insert, InsertFails
  <2> QED  BY <1>1, <2>1, <2>2, QuietHandle
<1>4. CASE (\E h \in Hops : Preview(h)) \/ (\E m \in Moves : ReIntercept(m[1], m[2]))
  <2>1. UNCHANGED <<account, req, placer>> /\ \A q \in Requests : req[q].pc = "idle"
    BY <1>4 DEF Preview, ReIntercept, CustomerMayAct, CartIsQuiet, Busy
  <2> QED  BY <1>1, <2>1
<1>5. CASE \E h \in Hops : WriteIntercept(h)
  BY <1>1, <1>5 DEF WriteIntercept, At
<1>6. CASE \E s \in 1..Len(account) : Age(s)
  <2>1. /\ ItemsOrEmpty(account')
        /\ \A h : Earlier(account, Len(account) + 1, h) => Earlier(account', Len(account') + 1, h)
    BY <1>1, <1>6, WindowShrinks, ItemsKept
  <2>2. UNCHANGED <<cart, req, placer>>
    BY <1>6 DEF Age
  <2>3. \A q \in Requests : At(q)' = At(q)
    BY <2>2 DEF At
  <2> QED  BY <1>1, <2>1, <2>2, <2>3
<1>7. CASE Crash
  <2>1. \A h \in Hops : placer'[h].pc = "idle"
    BY <1>7 DEF Crash
  <2>2. \A q \in Requests : req'[q].pc = "idle"
    BY <1>7, CrashEnds
  <2>3. ItemsOrEmpty(account')
    BY <1>1, <1>7, WindowShrinks, ItemsKept DEF Crash
  <2> QED  BY <2>1, <2>2, <2>3
<1> QED  BY <1>2, <1>3, <1>4, <1>5, <1>6, <1>7 DEF Step

\* What Swiggy is asked for is what the hop wanted (orders.ts, placeOrder), if
\* no kitchen is asked twice for different items, unless the one cart was last
\* filled or emptied by another user, the placer or a request that overlaps,
\* between the update and the place call.  When requests come one at a time, the
\* placer rests and the cart is always updated, that is only a place call which
\* the client repeats, and it orders nothing: previews, refusals and queued hops
\* leave their items in the cart, but never in an order.
THEOREM ItemsAsWanted == KitchensApart => (Spec => []OrderHasItsItems)
<1> SUFFICES ASSUME KitchensApart PROVE Spec => []OrderHasItsItems
  OBVIOUS
<1> DEFINE Items == CartInv /\ OwnItems /\ QuietInv
<1>1. Init => Items
  <2> SUFFICES ASSUME Init PROVE Items
    OBVIOUS
  <2>1. Len(account) = 0 /\ 1..0 = {} /\ cart.dishes = {} /\ cart.last = {}
    BY DEF Init, EmptyCart
  <2>2. /\ \A h \in Hops : placer[h].pc = "idle"
        /\ \A r \in Requests : req[r].pc = "idle"
    BY DEF Init
  <2> QED  BY <2>1, <2>2 DEF CartInv, OwnItems, QuietInv
<1>2. Inv /\ Items /\ [Next]_vars => Items'
  <2>1. CASE UNCHANGED vars
    BY <2>1 DEF vars, CartInv, OwnItems, QuietInv, CartIsQuiet, Earlier, At
  <2>2. CASE Step /\ UNCHANGED mode
    BY <2>2, CartStep, OwnStep, QuietStep DEF Inv
  <2> QED  BY <2>1, <2>2 DEF Next
<1>3. Items => OrderHasItsItems
  <2> SUFFICES ASSUME OwnItems, QuietInv, NEW s \in 1..Len(account),
                      account[s].items # {Dish[account[s].hop]}
               PROVE  /\ ~account[s].own
                      /\ CartIsQuiet => /\ account[s].items = {}
                                        /\ \E r \in 1..(s - 1) : account[r].hop = account[s].hop
    BY DEF OrderHasItsItems
  <2>1. ~account[s].own
    BY DEF OwnItems
  <2> QED  BY <2>1 DEF QuietInv, Earlier
<1> HIDE DEF Items
<1> QED  BY <1>1, <1>2, <1>3, InvInit, InvStep, PTL DEF Spec
============================================================================
