------------------------ MODULE RiderDispatch_proofs ------------------------
(***************************************************************************)
(* Proofs about RiderDispatch, for any orders, riders, slots and ways in   *)
(* which the slots belong to users.  LocalInv says what a request in       *)
(* progress knows; HolderInv, while the portal is quiet, what it may rely  *)
(* on of the row it read; DutyInv, what the next status and the presence   *)
(* that it is going to write have to do with the rows by then.             *)
(***************************************************************************)
EXTENDS RiderDispatch, TLAPS

\* What the statements of one request hand to each other.
LocalOk(h) ==
    /\ req[h].pc \in {"claiming", "claimed", "granted", "releasing", "moving"}
         => user[h] \in Riders /\ req[h].order \in Orders
    /\ req[h].pc = "moving" => req[h].next \in Status
    /\ req[h].pc \in {"patching", "assigning"} => user[h] = Admin
    /\ req[h].pc = "patching" => req[h].order \in Orders
    /\ req[h].pc = "assigning" => req[h].to \in Riders
    /\ req[h].pc = "cancelling" => user[h] = Customer /\ req[h].order \in Orders
    /\ req[h].pc \in {"count", "reread", "settle"} => req[h].who \in Riders

LocalInv == TypeOK /\ \A h \in Slots : LocalOk(h)

\* Who sends a request.
LEMMA UserType == ASSUME TypeOK, NEW h \in Slots
                  PROVE user[h] \in Riders \union {Admin, Customer, NoRider}
BY DispatchAssumption DEF TypeOK

\* No request is in progress.
LEMMA InitLocal == Init => LocalInv
<1> SUFFICES ASSUME Init PROVE LocalInv
    OBVIOUS
<1>1. rows \in [Orders -> Row]
    <2>1. [status: {"pending", "confirmed"}, rider: {NoRider}] \subseteq Row
        BY DEF Row, Status, ACTIVE_STATUSES
    <2> QED  BY <2>1 DEF Init
<1>2. req \in [Slots -> Request]
    <2>1. Idle \in Request
        BY DEF Idle, Request
    <2> QED  BY <2>1 DEF Init
<1>3. TypeOK
    BY <1>1, <1>2 DEF Init, TypeOK, Presence
<1>4. ASSUME NEW h \in Slots PROVE LocalOk(h)
    BY DEF Init, Idle, LocalOk
<1> QED  BY <1>3, <1>4 DEF LocalInv

\* A statement of one request leaves the others what they were.
LEMMA LocalFrame ==
    ASSUME LocalInv, UNCHANGED user, crashed' \in BOOLEAN,
           rows' \in [Orders -> Row],
           presence' \in [Riders -> Presence],
           told' \in [Orders -> SUBSET Riders],
           NEW h \in Slots, req' \in [Slots -> Request],
           \A k \in Slots : k # h => req'[k] = req[k],
           LocalOk(h)'
    PROVE  LocalInv'
<1>1. TypeOK'
    BY DEF LocalInv, TypeOK
<1>2. ASSUME NEW k \in Slots PROVE LocalOk(k)'
    <2>1. CASE k = h
        BY <2>1
    <2>2. CASE k # h
        <3>1. req'[k] = req[k] /\ user'[k] = user[k] /\ LocalOk(k)
            BY <2>2 DEF LocalInv
        <3> QED  BY <3>1 DEF LocalOk
    <2> QED  BY <2>1, <2>2
<1> QED  BY <1>1, <1>2 DEF LocalInv

\* A request that ends leaves nothing to be known.
LEMMA DoneLocal ==
    ASSUME LocalInv, UNCHANGED user, crashed' \in BOOLEAN,
           rows' \in [Orders -> Row],
           presence' \in [Riders -> Presence],
           told' \in [Orders -> SUBSET Riders],
           NEW h \in Slots, Done(h)
    PROVE  LocalInv'
<1>1. Idle \in Request
    BY DEF Idle, Request
<1>2. /\ req' \in [Slots -> Request]
      /\ req'[h] = Idle
      /\ \A k \in Slots : k # h => req'[k] = req[k]
    BY <1>1 DEF Done, LocalInv, TypeOK
<1>3. LocalOk(h)'
    BY <1>2 DEF LocalOk, Idle
<1> QED  BY <1>2, <1>3, LocalFrame

\* Where the admin's handler goes on is a statement that knows whom to refresh.
LEMMA AfterAssignLocal ==
    ASSUME LocalInv, UNCHANGED user, crashed' \in BOOLEAN,
           rows' \in [Orders -> Row],
           presence' \in [Riders -> Presence],
           told' \in [Orders -> SUBSET Riders],
           NEW h \in Slots, AfterAssign(h)
    PROVE  LocalInv'
<1>1. CASE req[h].to # "keep" /\ req[h].who \notin {NoRider, req[h].to}
    <2>1. req' = [req EXCEPT ![h].pc = "count"]
        BY <1>1 DEF AfterAssign
    <2>2. req[h] \in Request
        BY DEF LocalInv, TypeOK
    <2>3. /\ req' \in [Slots -> Request]
          /\ req'[h].pc = "count" /\ req'[h].who = req[h].who
          /\ \A k \in Slots : k # h => req'[k] = req[k]
        BY <2>1, <2>2 DEF LocalInv, TypeOK, Request
    <2>4. req[h].who \in Riders
        BY <1>1, <2>2 DEF Request
    <2>5. LocalOk(h)'
        BY <2>3, <2>4 DEF LocalOk
    <2> QED  BY <2>3, <2>5, LocalFrame
<1>2. CASE ~(req[h].to # "keep" /\ req[h].who \notin {NoRider, req[h].to})
    <2>1. Done(h)
        BY <1>2 DEF AfterAssign
    <2> QED  BY <2>1, DoneLocal
<1> QED  BY <1>1, <1>2

\* The first statement of a request.
LEMMA BeginLocal ==
    ASSUME LocalInv, UNCHANGED <<user, crashed>>, NEW h \in Slots, Begin(h)
    PROVE  LocalInv'
<1>0. /\ TypeOK /\ req[h] \in Request /\ req \in [Slots -> Request]
      /\ crashed' \in BOOLEAN /\ UNCHANGED user
    BY DEF LocalInv, TypeOK
<1>1. ASSUME NEW o \in Orders, ClaimRead(h, o) PROVE LocalInv'
    <2>1. /\ req' \in [Slots -> Request]
          /\ req'[h].pc = "claiming" /\ req'[h].order = o
          /\ \A k \in Slots : k # h => req'[k] = req[k]
        BY <1>0, <1>1 DEF ClaimRead, Request
    <2>2. LocalOk(h)'
        BY <1>1, <2>1 DEF ClaimRead, IsRider, LocalOk
    <2> QED  BY <1>0, <1>1, <2>1, <2>2, LocalFrame DEF ClaimRead, TypeOK
<1>2. ASSUME NEW o \in Orders, ClaimAgain(h, o) PROVE LocalInv'
    <2>1. told' \in [Orders -> SUBSET Riders]
        BY <1>0, <1>2 DEF ClaimAgain, IsRider, TypeOK
    <2>2. LocalOk(h)'
        BY <1>2 DEF ClaimAgain, LocalInv, LocalOk
    <2> QED  BY <1>0, <1>2, <2>1, <2>2, LocalFrame DEF ClaimAgain, TypeOK
<1>3. ASSUME NEW o \in Orders, ReleaseRead(h, o) PROVE LocalInv'
    <2>1. /\ req' \in [Slots -> Request]
          /\ req'[h].pc = "releasing" /\ req'[h].order = o
          /\ \A k \in Slots : k # h => req'[k] = req[k]
        BY <1>0, <1>3 DEF ReleaseRead, Request
    <2>2. LocalOk(h)'
        BY <1>3, <2>1 DEF ReleaseRead, IsRider, LocalOk
    <2>3. told' \in [Orders -> SUBSET Riders]
        BY <1>0, <1>3 DEF ReleaseRead, TypeOK
    <2> QED  BY <1>0, <1>3, <2>1, <2>2, <2>3, LocalFrame DEF ReleaseRead, TypeOK
<1>4. ASSUME NEW o \in Orders, CancelRead(h, o) PROVE LocalInv'
    <2>1. /\ req' \in [Slots -> Request]
          /\ req'[h].pc = "cancelling" /\ req'[h].order = o
          /\ \A k \in Slots : k # h => req'[k] = req[k]
        BY <1>0, <1>4 DEF CancelRead, Request
    <2>2. LocalOk(h)'
        BY <1>4, <2>1 DEF CancelRead, LocalOk
    <2> QED  BY <1>0, <1>4, <2>1, <2>2, LocalFrame DEF CancelRead, TypeOK
<1>5. ASSUME NEW o \in Orders, NEW s \in Status, StatusRead(h, o, s) PROVE LocalInv'
    <2>1. /\ req' \in [Slots -> Request]
          /\ req'[h].pc = "moving" /\ req'[h].order = o /\ req'[h].next = s
          /\ \A k \in Slots : k # h => req'[k] = req[k]
        BY <1>0, <1>5 DEF StatusRead, Request
    <2>2. LocalOk(h)'
        BY <1>5, <2>1 DEF StatusRead, IsRider, LocalOk
    <2> QED  BY <1>0, <1>5, <2>1, <2>2, LocalFrame DEF StatusRead, TypeOK
<1>6. ASSUME NEW o \in Orders, NEW next \in ForcedStatuses \union {"keep"},
             NEW to \in Riders \union {NoRider, "keep"}, PatchRead(h, o, next, to)
      PROVE  LocalInv'
    <2>1. rows[o].rider \in Riders \union {NoRider}
        BY <1>0 DEF TypeOK, Row
    <2>2. [pc |-> "patching", order |-> o, next |-> next, to |-> to,
           who |-> rows[o].rider, jobs |-> FALSE] \in Request
        BY <2>1, DispatchAssumption DEF Request
    <2>3. /\ req' \in [Slots -> Request]
          /\ req'[h].pc = "patching" /\ req'[h].order = o
          /\ \A k \in Slots : k # h => req'[k] = req[k]
        BY <1>0, <1>6, <2>2 DEF PatchRead
    <2>4. LocalOk(h)'
        BY <1>6, <2>3 DEF PatchRead, LocalOk
    <2> QED  BY <1>0, <1>6, <2>3, <2>4, LocalFrame DEF PatchRead, TypeOK
<1>7. CASE GoOnline(h)
    <2>1. user[h] \in Riders /\ HasJobs(user[h]) \in BOOLEAN
        BY <1>7 DEF GoOnline, IsRider, HasJobs
    <2>2. /\ req' \in [Slots -> Request]
          /\ req'[h].pc = "settle" /\ req'[h].who = user[h]
          /\ \A k \in Slots : k # h => req'[k] = req[k]
        BY <1>0, <1>7, <2>1 DEF GoOnline, Request
    <2>3. LocalOk(h)'
        BY <2>1, <2>2 DEF LocalOk
    <2> QED  BY <1>0, <1>7, <2>2, <2>3, LocalFrame DEF GoOnline, TypeOK
<1>8. ASSUME NEW p \in {"offline", "busy"}, SetPresence(h, p) PROVE LocalInv'
    <2>1. presence' \in [Riders -> Presence]
        BY <1>0, <1>8 DEF SetPresence, TypeOK, Presence
    <2>2. LocalOk(h)'
        BY <1>8 DEF SetPresence, LocalInv, LocalOk
    <2> QED  BY <1>0, <1>8, <2>1, <2>2, LocalFrame DEF SetPresence, TypeOK
<1> QED  BY <1>1, <1>2, <1>3, <1>4, <1>5, <1>6, <1>7, <1>8 DEF Begin

\* The statements after it.
LEMMA FinishLocal ==
    ASSUME LocalInv, UNCHANGED <<user, crashed>>, NEW h \in Slots, Finish(h)
    PROVE  LocalInv'
<1>0. /\ TypeOK /\ req[h] \in Request /\ req \in [Slots -> Request] /\ LocalOk(h)
      /\ rows \in [Orders -> Row] /\ presence \in [Riders -> Presence]
      /\ told \in [Orders -> SUBSET Riders]
      /\ crashed' \in BOOLEAN /\ UNCHANGED user
    BY DEF LocalInv, TypeOK
<1>1. CASE ClaimWrite(h)
    <2>1. user[h] \in Riders /\ req[h].order \in Orders
        BY <1>0, <1>1 DEF ClaimWrite, LocalOk
    <2>2. rows' \in [Orders -> Row]
        <3>1. rows' = [rows EXCEPT ![req[h].order].rider = user[h]] \/ rows' = rows
            BY <1>1 DEF ClaimWrite
        <3> QED  BY <1>0, <2>1, <3>1 DEF Row
    <2>3. /\ req' \in [Slots -> Request]
          /\ req'[h].pc = "claimed" /\ req'[h].order = req[h].order
          /\ \A k \in Slots : k # h => req'[k] = req[k]
        BY <1>0, <1>1 DEF ClaimWrite, Request
    <2>4. LocalOk(h)'
        BY <1>0, <2>1, <2>3 DEF LocalOk
    <2> QED  BY <1>0, <1>1, <2>2, <2>3, <2>4, LocalFrame DEF ClaimWrite
<1>2. CASE ClaimReread(h)
    <2>1. CASE rows[req[h].order].rider = user[h]
        <3>1. user[h] \in Riders /\ req[h].order \in Orders
            BY <1>0, <1>2 DEF ClaimReread, LocalOk
        <3>2. /\ req' \in [Slots -> Request]
              /\ req'[h].pc = "granted" /\ req'[h].order = req[h].order
              /\ \A k \in Slots : k # h => req'[k] = req[k]
            BY <1>0, <1>2, <2>1 DEF ClaimReread, Request
        <3>3. LocalOk(h)'
            BY <1>0, <3>1, <3>2 DEF LocalOk
        <3> QED  BY <1>0, <1>2, <3>2, <3>3, LocalFrame DEF ClaimReread
    <2>2. CASE rows[req[h].order].rider # user[h]
        <3>1. Done(h) /\ UNCHANGED <<rows, presence, told>>
            BY <1>2, <2>2 DEF ClaimReread
        <3> QED  BY <1>0, <3>1, DoneLocal
    <2> QED  BY <2>1, <2>2
<1>3. CASE ClaimGrant(h)
    <2>1. user[h] \in Riders /\ req[h].order \in Orders
        BY <1>0, <1>3 DEF ClaimGrant, LocalOk
    <2>2. presence' \in [Riders -> Presence] /\ told' \in [Orders -> SUBSET Riders]
        BY <1>0, <1>3, <2>1 DEF ClaimGrant, Presence
    <2> QED  BY <1>0, <1>3, <2>2, DoneLocal DEF ClaimGrant
<1>4. CASE ReleaseWrite(h)
    <2>1. user[h] \in Riders /\ req[h].order \in Orders
        BY <1>0, <1>4 DEF ReleaseWrite, LocalOk
    <2>2. rows' \in [Orders -> Row]
        BY <1>0, <1>4, <2>1 DEF ReleaseWrite, Row
    <2>3. /\ req' \in [Slots -> Request]
          /\ req'[h].pc = "count" /\ req'[h].who = user[h]
          /\ \A k \in Slots : k # h => req'[k] = req[k]
        BY <1>0, <1>4, <2>1 DEF ReleaseWrite, Request
    <2>4. LocalOk(h)'
        BY <1>0, <2>1, <2>3 DEF LocalOk
    <2> QED  BY <1>0, <1>4, <2>2, <2>3, <2>4, LocalFrame DEF ReleaseWrite
<1>5. CASE StatusWrite(h)
    <2>1. user[h] \in Riders /\ req[h].order \in Orders /\ req[h].next \in Status
        BY <1>0, <1>5 DEF StatusWrite, LocalOk
    <2>2. rows' \in [Orders -> Row]
        BY <1>0, <1>5, <2>1 DEF StatusWrite, Row
    <2>3. /\ req' \in [Slots -> Request]
          /\ req'[h].pc = "count" /\ req'[h].who = user[h]
          /\ \A k \in Slots : k # h => req'[k] = req[k]
        BY <1>0, <1>5, <2>1 DEF StatusWrite, Request
    <2>4. LocalOk(h)'
        BY <1>0, <2>1, <2>3 DEF LocalOk
    <2> QED  BY <1>0, <1>5, <2>2, <2>3, <2>4, LocalFrame DEF StatusWrite
<1>6. CASE Count(h)
    <2> DEFINE jobs == HasJobs(req[h].who)
    <2>1. jobs \in BOOLEAN
        BY DEF HasJobs
    <2>a. req' = [req EXCEPT ![h].pc = "reread", ![h].jobs = jobs]
        BY <1>6 DEF Count
    <2> HIDE DEF jobs
    <2>2. /\ req' \in [Slots -> Request]
          /\ req'[h].pc = "reread" /\ req'[h].who = req[h].who
          /\ \A k \in Slots : k # h => req'[k] = req[k]
        BY <1>0, <2>1, <2>a DEF Request
    <2>3. LocalOk(h)'
        BY <1>0, <1>6, <2>2 DEF Count, LocalOk
    <2> QED  BY <1>0, <1>6, <2>2, <2>3, LocalFrame DEF Count
<1>7. CASE Reread(h)
    <2>1. CASE Done(h)
        BY <1>0, <1>7, <2>1, DoneLocal DEF Reread
    <2>2. CASE req' = [req EXCEPT ![h].pc = "settle"]
        <3>1. /\ req' \in [Slots -> Request]
              /\ req'[h].pc = "settle" /\ req'[h].who = req[h].who
              /\ \A k \in Slots : k # h => req'[k] = req[k]
            BY <1>0, <2>2 DEF Request
        <3>2. LocalOk(h)'
            BY <1>0, <1>7, <3>1 DEF Reread, LocalOk
        <3> QED  BY <1>0, <1>7, <3>1, <3>2, LocalFrame DEF Reread
    <2> QED  BY <1>7, <2>1, <2>2 DEF Reread
<1>8. CASE Settle(h)
    <2>1. req[h].who \in Riders
        BY <1>0, <1>8 DEF Settle, LocalOk
    <2>2. presence' \in [Riders -> Presence]
        BY <1>0, <1>8, <2>1 DEF Settle, Refreshed, Presence
    <2> QED  BY <1>0, <1>8, <2>2, DoneLocal DEF Settle
<1>9. CASE PatchWrite(h)
    <2>1. user[h] = Admin /\ req[h].order \in Orders
        BY <1>0, <1>9 DEF PatchWrite, LocalOk
    <2> DEFINE row == rows[req[h].order]
               new == [status |-> IF req[h].next = "keep" THEN row.status ELSE req[h].next,
                       rider |-> IF req[h].to = "keep" THEN row.rider ELSE req[h].to]
    <2>2. row \in Row
        BY <1>0, <2>1
    <2>3. new \in Row
        BY <1>0, <2>2 DEF Row, Request
    <2>4. rows' = [rows EXCEPT ![req[h].order] = new]
        BY <1>9 DEF PatchWrite
    <2> HIDE DEF new, row
    <2>5. rows' \in [Orders -> Row]
        BY <1>0, <2>3, <2>4
    <2>6. CASE req[h].to \in Riders
        <3>1. req' = [req EXCEPT ![h].pc = "assigning"]
            BY <1>9, <2>6 DEF PatchWrite
        <3>2. /\ req' \in [Slots -> Request]
              /\ req'[h].pc = "assigning" /\ req'[h].to = req[h].to
              /\ \A k \in Slots : k # h => req'[k] = req[k]
            BY <1>0, <3>1 DEF Request
        <3>3. LocalOk(h)'
            BY <1>0, <2>1, <2>6, <3>2 DEF LocalOk
        <3> QED  BY <1>0, <1>9, <2>5, <3>2, <3>3, LocalFrame DEF PatchWrite
    <2>7. CASE req[h].to \notin Riders
        <3>1. AfterAssign(h) /\ UNCHANGED <<presence, told>>
            BY <1>9, <2>7 DEF PatchWrite
        <3> QED  BY <1>0, <2>5, <3>1, AfterAssignLocal
    <2> QED  BY <2>6, <2>7
<1>10. CASE Assign(h)
    <2>1. req[h].to \in Riders
        BY <1>0, <1>10 DEF Assign, LocalOk
    <2>2. presence' \in [Riders -> Presence]
        BY <1>0, <1>10, <2>1 DEF Assign, Presence
    <2>3. AfterAssign(h) /\ UNCHANGED <<rows, told>>
        BY <1>10 DEF Assign
    <2> QED  BY <1>0, <2>2, <2>3, AfterAssignLocal
<1>11. CASE CancelWrite(h)
    <2>1. req[h].order \in Orders
        BY <1>0, <1>11 DEF CancelWrite, LocalOk
    <2>2. rows' \in [Orders -> Row]
        <3>1. "cancelled" \in Status
            BY DEF Status
        <3> QED  BY <1>0, <1>11, <2>1, <3>1 DEF CancelWrite, Row
    <2> QED  BY <1>0, <1>11, <2>2, DoneLocal DEF CancelWrite
<1> QED  BY <1>1, <1>2, <1>3, <1>4, <1>5, <1>6, <1>7, <1>8, <1>9, <1>10, <1>11
         DEF Finish

\* A restart forgets the requests.
LEMMA CrashLocal == ASSUME LocalInv, Crash PROVE LocalInv'
<1>1. Idle \in Request
    BY DEF Idle, Request
<1>2. req' \in [Slots -> Request] /\ \A h \in Slots : req'[h].pc = "idle"
    BY <1>1 DEF Crash, Idle
<1>3. TypeOK'
    BY <1>2 DEF LocalInv, TypeOK, Crash
<1>4. ASSUME NEW h \in Slots PROVE LocalOk(h)'
    BY <1>2 DEF LocalOk
<1> QED  BY <1>3, <1>4 DEF LocalInv

\* Every step keeps it.
LEMMA NextLocal == LocalInv /\ [Next]_vars => LocalInv'
<1> SUFFICES ASSUME LocalInv, [Next]_vars PROVE LocalInv'
    OBVIOUS
<1>1. CASE Handle
    <2>1. PICK h \in Slots : Begin(h) \/ Finish(h)
        BY <1>1 DEF Handle
    <2> QED  BY <1>1, <2>1, BeginLocal, FinishLocal DEF Handle
<1>2. CASE Crash
    BY <1>2, CrashLocal
<1>3. CASE UNCHANGED vars
    BY <1>3 DEF vars, LocalInv, TypeOK, LocalOk
<1> QED  BY <1>1, <1>2, <1>3 DEF Next

\* Type correctness, together with what each request in progress knows.
THEOREM LocalCorrect == Spec => []LocalInv
BY InitLocal, NextLocal, PTL DEF Spec

\* The tables and the requests keep their types in every behaviour.
THEOREM DispatchTypes == Spec => []TypeOK
<1>1. LocalInv => TypeOK
    BY DEF LocalInv
<1> QED  BY <1>1, LocalCorrect, PTL

-----------------------------------------------------------------------------
(* Who may lose a delivery                                                 *)

\* The statements that write the rider of a row are the claim, the release and
\* the admin's update.
LEMMA OthersKeepRiders ==
    ASSUME LocalInv, NEW h \in Slots,
           (Begin(h) \/ Finish(h)) /\ ~ClaimWrite(h) /\ ~ReleaseWrite(h) /\ ~PatchWrite(h),
           NEW o \in Orders
    PROVE  rows'[o].rider = rows[o].rider
<1>1. rows \in [Orders -> Row]
    BY DEF LocalInv, TypeOK
<1>2. CASE UNCHANGED rows
    BY <1>2
<1>3. CASE StatusWrite(h)
    BY <1>1, <1>3 DEF StatusWrite, Row
<1>4. CASE CancelWrite(h)
    BY <1>1, <1>4 DEF CancelWrite, Row
<1>5. CASE Begin(h)
    BY <1>2, <1>5 DEF Begin, ClaimRead, ClaimAgain, ReleaseRead, CancelRead, StatusRead,
          PatchRead, GoOnline, SetPresence
<1> QED  BY <1>2, <1>3, <1>4, <1>5 DEF Finish, ClaimReread, ClaimGrant, Count, Reread,
            Settle, Assign

\* The claim writes only where there is no rider.
LEMMA ClaimKeepsRiders ==
    ASSUME LocalInv, NEW h \in Slots, ClaimWrite(h), NEW o \in Orders
    PROVE  rows[o].rider # NoRider => rows'[o].rider = rows[o].rider
<1>1. rows \in [Orders -> Row]
    BY DEF LocalInv, TypeOK
<1>2. CASE rows' = rows
    BY <1>2
<1>3. CASE /\ rows[req[h].order].rider = NoRider
           /\ rows' = [rows EXCEPT ![req[h].order].rider = user[h]]
    BY <1>1, <1>3 DEF Row
<1> QED  BY <1>2, <1>3 DEF ClaimWrite

\* A rider is replaced only by an update of the administrator.
LEMMA NeverStealsStep ==
    ASSUME LocalInv, [Next]_vars, NEW o \in Orders,
           rows[o].rider # NoRider, rows'[o].rider \notin {NoRider, rows[o].rider}
    PROVE  \E h \in Slots : req[h].pc = "patching" /\ req[h].to = rows'[o].rider
<1>0. rows \in [Orders -> Row]
    BY DEF LocalInv, TypeOK
<1>1. rows' # rows
    OBVIOUS
<1>2. PICK h \in Slots : Begin(h) \/ Finish(h)
    BY <1>1 DEF Next, Handle, Crash, vars
<1>3. ~ClaimWrite(h)
    BY ClaimKeepsRiders
<1>4. ~ReleaseWrite(h)
    BY <1>0 DEF ReleaseWrite, Row
<1>5. PatchWrite(h)
    BY <1>2, <1>3, <1>4, OthersKeepRiders
<1> DEFINE row == rows[req[h].order]
           new == [status |-> IF req[h].next = "keep" THEN row.status ELSE req[h].next,
                   rider |-> IF req[h].to = "keep" THEN row.rider ELSE req[h].to]
<1>6. req[h].pc = "patching" /\ rows' = [rows EXCEPT ![req[h].order] = new]
    BY <1>5 DEF PatchWrite
<1>7. o = req[h].order /\ rows'[o] = new
    <2> HIDE DEF new
    <2> QED  BY <1>0, <1>6
<1>8. req[h].to = rows'[o].rider
    BY <1>7
<1> QED  BY <1>6, <1>8

\* A delivery that has a rider passes to another one only by an update of the
\* admin's that names him: the claim's read, conditional update and read-back
\* never take it away, whoever claims and in whatever order.
THEOREM ClaimsNeverSteal == Spec => ClaimNeverSteals
<1>1. LocalInv /\ [Next]_vars =>
        [\A o \in Orders :
           (rows[o].rider # NoRider /\ rows'[o].rider \notin {NoRider, rows[o].rider})
           => \E h \in Slots : req[h].pc = "patching" /\ req[h].to = rows'[o].rider]_vars
    BY NeverStealsStep
<1> QED  BY <1>1, LocalCorrect, PTL DEF Spec, ClaimNeverSteals

-----------------------------------------------------------------------------
(* The portal is a job board                                               *)

\* Between the statements of a claim that has won, and of a release that has
\* been checked, the delivery stays with its rider; and who was told that he
\* has it is who has it.
HolderOk(h) ==
    /\ req[h].pc = "granted" => rows[req[h].order].rider = user[h]
    /\ req[h].pc = "releasing" =>
         rows[req[h].order].rider = user[h] /\ user[h] \notin told[req[h].order]

Believers == \A o \in Orders : told[o] \subseteq {rows[o].rider}

HolderInv == Quiet => (\A h \in Slots : HolderOk(h)) /\ Believers

\* Who uses the portal does not change.
LEMMA QuietStays == ASSUME UNCHANGED user PROVE Quiet' <=> Quiet
BY DEF Quiet

\* No rider has two requests in progress while it is quiet.
LEMMA OneSlot ==
    ASSUME Quiet, NEW h \in Slots, NEW k \in Slots, user[h] \in Riders, k # h
    PROVE  user[k] # user[h]
BY DEF Quiet

\* Nobody has been told anything.
LEMMA InitHolder == Init => HolderInv
<1> SUFFICES ASSUME Init PROVE HolderInv
    OBVIOUS
<1>1. \A h \in Slots : HolderOk(h)
    BY DEF Init, Idle, HolderOk
<1>2. Believers
    BY DEF Init, Believers
<1> QED  BY <1>1, <1>2 DEF HolderInv

\* A statement that writes neither a rider nor what riders were told.
LEMMA HolderFrame ==
    ASSUME LocalInv, LocalInv', HolderInv, Quiet, UNCHANGED <<user, told>>,
           \A o \in Orders : rows'[o].rider = rows[o].rider,
           NEW h \in Slots, \A k \in Slots : k # h => req'[k] = req[k],
           HolderOk(h)'
    PROVE  HolderInv'
<1>1. ASSUME NEW k \in Slots PROVE HolderOk(k)'
    <2>1. CASE k = h
        BY <2>1
    <2>2. CASE k # h
        <3>1. req'[k] = req[k] /\ user'[k] = user[k] /\ HolderOk(k)
            BY <2>2 DEF HolderInv
        <3>2. req[k].pc \in {"granted", "releasing"} => req[k].order \in Orders
            BY DEF LocalInv, LocalOk
        <3> QED  BY <3>1, <3>2 DEF HolderOk
    <2> QED  BY <2>1, <2>2
<1>2. Believers'
    BY DEF HolderInv, Believers
<1> QED  BY <1>1, <1>2 DEF HolderInv

\* What the board shows while the portal is quiet.
Owner == [o \in Orders |-> IF Quiet THEN rows[o].rider ELSE NoRider]
Informed == [o \in Orders |-> IF Quiet THEN told[o] ELSE {}]

\* The refinement mapping while the portal is quiet.
LEMMA QuietBoard ==
    ASSUME Quiet, Quiet', told \in [Orders -> SUBSET Riders],
           told' \in [Orders -> SUBSET Riders]
    PROVE  /\ Owner = [o \in Orders |-> rows[o].rider] /\ Informed = told
           /\ Owner' = [o \in Orders |-> rows'[o].rider] /\ Informed' = told'
BY DEF Owner, Informed

\* A claim of what the rider has: he is told again.
LEMMA ClaimAgainHolder ==
    ASSUME LocalInv, LocalInv', HolderInv, Quiet, UNCHANGED user,
           NEW h \in Slots, NEW o \in Orders, ClaimAgain(h, o)
    PROVE  HolderInv' /\ Board!Tell(user[h], o)
<1>0. /\ user[h] \in Riders /\ rows[o].rider = user[h] /\ req[h].pc = "idle"
      /\ told' = [told EXCEPT ![o] = @ \union {user[h]}] /\ rows' = rows /\ req' = req
      /\ told \in [Orders -> SUBSET Riders]
    BY DEF ClaimAgain, IsRider, LocalInv, TypeOK
<1>1. Quiet'
    BY QuietStays
<1>2. ASSUME NEW k \in Slots PROVE HolderOk(k)'
    <2>1. HolderOk(k)
        BY DEF HolderInv
    <2>2. CASE k = h
        BY <1>0, <2>2 DEF HolderOk
    <2>3. CASE k # h
        <3>1. user[k] # user[h]
            BY <1>0, <2>3, OneSlot
        <3>2. req[k].pc = "releasing" => req[k].order \in Orders
            BY DEF LocalInv, LocalOk
        <3> QED  BY <1>0, <2>1, <3>1, <3>2 DEF HolderOk
    <2> QED  BY <2>2, <2>3
<1>3. Believers'
    BY <1>0 DEF HolderInv, Believers
<1>4. /\ Owner[o] = user[h] /\ Owner' = Owner
      /\ Informed' = [Informed EXCEPT ![o] = @ \union {user[h]}]
    <2>1. told' \in [Orders -> SUBSET Riders]
        BY DEF LocalInv, TypeOK
    <2> QED  BY <1>0, <1>1, <2>1, QuietBoard
<1> QED  BY <1>2, <1>3, <1>4 DEF HolderInv, Board!Tell, Owner, Informed

\* A claim that has won: he is told.
LEMMA ClaimGrantHolder ==
    ASSUME LocalInv, LocalInv', HolderInv, Quiet, UNCHANGED user,
           NEW h \in Slots, ClaimGrant(h),
           NEW r \in Riders, NEW o \in Orders, r = user[h], o = req[h].order
    PROVE  HolderInv' /\ Board!Tell(r, o)
<1>0. /\ user[h] \in Riders /\ o \in Orders /\ rows[o].rider = user[h]
      /\ req[h].pc = "granted"
    BY DEF ClaimGrant, LocalInv, LocalOk, HolderInv, HolderOk
<1>a. /\ told' = [told EXCEPT ![o] = @ \union {user[h]}] /\ rows' = rows
      /\ req' = [req EXCEPT ![h] = Idle]
      /\ told \in [Orders -> SUBSET Riders] /\ req \in [Slots -> Request]
    BY DEF ClaimGrant, Done, LocalInv, TypeOK
<1>1. Quiet'
    BY QuietStays
<1>2. ASSUME NEW k \in Slots PROVE HolderOk(k)'
    <2>1. HolderOk(k)
        BY DEF HolderInv
    <2>2. CASE k = h
        BY <1>a, <2>2 DEF HolderOk, Idle
    <2>3. CASE k # h
        <3>1. user[k] # user[h] /\ req'[k] = req[k]
            BY <1>0, <1>a, <2>3, OneSlot
        <3>2. req[k].pc = "releasing" => req[k].order \in Orders
            BY DEF LocalInv, LocalOk
        <3> QED  BY <1>0, <1>a, <2>1, <3>1, <3>2 DEF HolderOk
    <2> QED  BY <2>2, <2>3
<1>3. Believers'
    BY <1>0, <1>a DEF HolderInv, Believers
<1>4. /\ Owner[o] = user[h] /\ Owner' = Owner
      /\ Informed' = [Informed EXCEPT ![o] = @ \union {user[h]}]
    <2>1. told' \in [Orders -> SUBSET Riders]
        BY DEF LocalInv, TypeOK
    <2> QED  BY <1>0, <1>a, <1>1, <2>1, QuietBoard
<1> QED  BY <1>2, <1>3, <1>4 DEF HolderInv, Board!Tell, Owner, Informed

\* A release that is checked: he no longer counts on it.
LEMMA ReleaseReadHolder ==
    ASSUME LocalInv, LocalInv', HolderInv, Quiet, UNCHANGED user,
           NEW h \in Slots, NEW o \in Orders, ReleaseRead(h, o)
    PROVE  HolderInv' /\ Board!GiveUp(user[h], o)
<1>0. /\ user[h] \in Riders /\ rows[o].rider = user[h]
      /\ told' = [told EXCEPT ![o] = @ \ {user[h]}] /\ rows' = rows
      /\ req' = [req EXCEPT ![h].pc = "releasing", ![h].order = o]
      /\ told \in [Orders -> SUBSET Riders]
      /\ req \in [Slots -> Request] /\ req[h] \in Request
    BY DEF ReleaseRead, IsRider, LocalInv, TypeOK
<1>1. Quiet'
    BY QuietStays
<1>2. ASSUME NEW k \in Slots PROVE HolderOk(k)'
    <2>1. HolderOk(k)
        BY DEF HolderInv
    <2>2. CASE k = h
        <3>1. req'[h].pc = "releasing" /\ req'[h].order = o
            BY <1>0 DEF Request
        <3> QED  BY <1>0, <2>2, <3>1 DEF HolderOk
    <2>3. CASE k # h
        <3>1. req'[k] = req[k]
            BY <1>0, <2>3
        <3>2. req[k].pc = "releasing" => req[k].order \in Orders
            BY DEF LocalInv, LocalOk
        <3> QED  BY <1>0, <2>1, <3>1, <3>2 DEF HolderOk
    <2> QED  BY <2>2, <2>3
<1>3. Believers'
    BY <1>0 DEF HolderInv, Believers
<1>4. /\ Owner[o] = user[h] /\ Owner' = Owner
      /\ Informed' = [Informed EXCEPT ![o] = @ \ {user[h]}]
    <2>1. told' \in [Orders -> SUBSET Riders]
        BY DEF LocalInv, TypeOK
    <2> QED  BY <1>0, <1>1, <2>1, QuietBoard
<1> QED  BY <1>2, <1>3, <1>4 DEF HolderInv, Board!GiveUp, Owner, Informed

\* The conditional update: it takes a free delivery or does nothing.
LEMMA ClaimWriteHolder ==
    ASSUME LocalInv, LocalInv', HolderInv, Quiet, UNCHANGED user,
           NEW h \in Slots, ClaimWrite(h),
           NEW r \in Riders, NEW o \in Orders, r = user[h], o = req[h].order
    PROVE  HolderInv' /\ (Board!Take(r, o)
                          \/ UNCHANGED <<Owner, Informed>>)
<1>0. user[h] \in Riders /\ o \in Orders /\ req[h].pc = "claiming"
    BY DEF ClaimWrite, LocalInv, LocalOk
<1>a. /\ req' = [req EXCEPT ![h].pc = "claimed"] /\ told' = told
      /\ rows \in [Orders -> Row] /\ told \in [Orders -> SUBSET Riders]
      /\ req \in [Slots -> Request] /\ req[h] \in Request
    BY DEF ClaimWrite, LocalInv, TypeOK
<1>b. req'[h].pc = "claimed" /\ \A k \in Slots : k # h => req'[k] = req[k]
    BY <1>a DEF Request
<1>1. Quiet'
    BY QuietStays
<1>2. CASE rows' = rows
    <2>1. HolderOk(h)'
        BY <1>b DEF HolderOk
    <2>2. HolderInv'
        BY <1>2, <1>a, <1>b, <2>1, HolderFrame
    <2>3. UNCHANGED <<Owner, Informed>>
        BY <1>2, <1>a, <1>1, QuietBoard
    <2> QED  BY <2>2, <2>3
<1>3. CASE rows[o].rider = NoRider /\ rows' = [rows EXCEPT ![o].rider = user[h]]
    <2>1. /\ rows'[o].rider = user[h]
          /\ \A p \in Orders : p # o => rows'[p].rider = rows[p].rider
        BY <1>0, <1>3, <1>a DEF Row
    <2>2. told[o] = {}
        <3>1. told[o] \subseteq {NoRider} /\ told[o] \subseteq Riders
            BY <1>0, <1>3, <1>a DEF HolderInv, Believers
        <3> QED  BY <3>1, DispatchAssumption
    <2>3. ASSUME NEW k \in Slots PROVE HolderOk(k)'
        <3>1. HolderOk(k)
            BY DEF HolderInv
        <3>2. CASE k = h
            BY <1>b, <3>2 DEF HolderOk
        <3>3. CASE k # h
            <4>1. req'[k] = req[k] /\ user'[k] = user[k]
                BY <1>b, <3>3
            <4>2. req[k].pc \in {"granted", "releasing"}
                    => req[k].order \in Orders /\ user[k] \in Riders
                BY DEF LocalInv, LocalOk
            <4>3. req[k].pc \in {"granted", "releasing"} => req[k].order # o
                BY <1>3, <3>1, <4>2, DispatchAssumption DEF HolderOk
            <4> QED  BY <1>a, <2>1, <3>1, <4>1, <4>2, <4>3 DEF HolderOk
        <3> QED  BY <3>2, <3>3
    <2>4. Believers'
        BY <1>a, <2>1, <2>2 DEF HolderInv, Believers
    <2>5. /\ Owner[o] = NoRider /\ Owner' = [Owner EXCEPT ![o] = user[h]]
          /\ Informed' = Informed
        BY <1>0, <1>3, <1>a, <1>1, <2>1, QuietBoard
    <2> QED  BY <2>3, <2>4, <2>5 DEF HolderInv, Board!Take, Owner, Informed
<1> QED  BY <1>2, <1>3 DEF ClaimWrite

\* The update of a release: its rider still has the delivery.
LEMMA ReleaseWriteHolder ==
    ASSUME LocalInv, LocalInv', HolderInv, Quiet, UNCHANGED user,
           NEW h \in Slots, ReleaseWrite(h),
           NEW r \in Riders, NEW o \in Orders, r = user[h], o = req[h].order
    PROVE  HolderInv' /\ Board!Vacate(r, o)
<1>0. /\ user[h] \in Riders /\ o \in Orders /\ req[h].pc = "releasing"
      /\ rows[o].rider = user[h] /\ user[h] \notin told[o]
    BY DEF ReleaseWrite, LocalInv, LocalOk, HolderInv, HolderOk
<1>a. /\ rows' = [rows EXCEPT ![o].rider = NoRider] /\ told' = told
      /\ req' = [req EXCEPT ![h].pc = "count", ![h].who = user[h]]
      /\ rows \in [Orders -> Row] /\ told \in [Orders -> SUBSET Riders]
      /\ req \in [Slots -> Request] /\ req[h] \in Request
    BY DEF ReleaseWrite, LocalInv, TypeOK
<1>b. req'[h].pc = "count" /\ \A k \in Slots : k # h => req'[k] = req[k]
    BY <1>a DEF Request
<1>c. /\ rows'[o].rider = NoRider
      /\ \A p \in Orders : p # o => rows'[p].rider = rows[p].rider
    BY <1>0, <1>a DEF Row
<1>1. Quiet'
    BY QuietStays
<1>2. told[o] = {}
    BY <1>0 DEF HolderInv, Believers
<1>3. ASSUME NEW k \in Slots PROVE HolderOk(k)'
    <2>1. HolderOk(k)
        BY DEF HolderInv
    <2>2. CASE k = h
        BY <1>b, <2>2 DEF HolderOk
    <2>3. CASE k # h
        <3>1. req'[k] = req[k] /\ user'[k] = user[k] /\ user[k] # user[h]
            BY <1>0, <1>b, <2>3, OneSlot
        <3>2. req[k].pc \in {"granted", "releasing"}
                => req[k].order \in Orders /\ req[k].order # o
            BY <1>0, <2>1, <3>1 DEF LocalInv, LocalOk, HolderOk
        <3> QED  BY <1>a, <1>c, <2>1, <3>1, <3>2 DEF HolderOk
    <2> QED  BY <2>2, <2>3
<1>4. Believers'
    BY <1>a, <1>c, <1>2 DEF HolderInv, Believers
<1>5. /\ Owner[o] = user[h] /\ user[h] \notin Informed[o]
      /\ Owner' = [Owner EXCEPT ![o] = NoRider] /\ Informed' = Informed
    BY <1>0, <1>a, <1>c, <1>1, QuietBoard
<1> QED  BY <1>3, <1>4, <1>5 DEF HolderInv, Board!Vacate, Owner, Informed

\* Every other statement of a quiet portal is a stutter of the board.
LEMMA SilentHolder ==
    ASSUME LocalInv, LocalInv', HolderInv, Quiet, UNCHANGED <<user, told>>,
           \A o \in Orders : rows'[o].rider = rows[o].rider,
           NEW h \in Slots, \A k \in Slots : k # h => req'[k] = req[k],
           HolderOk(h)'
    PROVE  HolderInv' /\ UNCHANGED <<Owner, Informed>>
<1>1. HolderInv'
    BY HolderFrame
<1>2. Quiet' /\ told \in [Orders -> SUBSET Riders]
    BY QuietStays DEF LocalInv, TypeOK
<1>3. UNCHANGED <<Owner, Informed>>
    BY <1>2, QuietBoard
<1> QED  BY <1>1, <1>3

\* Every statement of a request is a step of the board or a stutter.
LEMMA QuietStep ==
    ASSUME LocalInv, LocalInv', HolderInv, Quiet, UNCHANGED user,
           NEW h \in Slots, Begin(h) \/ Finish(h)
    PROVE  HolderInv' /\ (Board!Next \/ UNCHANGED <<Owner, Informed>>)
<1>0. /\ req \in [Slots -> Request] /\ req[h] \in Request /\ user[h] # Admin
      /\ LocalOk(h)
    BY DEF LocalInv, TypeOK, Quiet
<1>1. ASSUME NEW o \in Orders, ClaimAgain(h, o) PROVE HolderInv' /\ Board!Next
    <2>1. user[h] \in Riders
        BY <1>1 DEF ClaimAgain, IsRider
    <2> QED  BY <1>1, <2>1, ClaimAgainHolder DEF Board!Next
<1>2. CASE ClaimGrant(h)
    <2>1. user[h] \in Riders /\ req[h].order \in Orders
        BY <1>0, <1>2 DEF ClaimGrant, LocalOk
    <2>2. PICK r \in Riders, o \in Orders : r = user[h] /\ o = req[h].order
        BY <2>1
    <2> QED  BY <1>2, <2>2, ClaimGrantHolder DEF Board!Next
<1>3. ASSUME NEW o \in Orders, ReleaseRead(h, o) PROVE HolderInv' /\ Board!Next
    <2>1. user[h] \in Riders
        BY <1>3 DEF ReleaseRead, IsRider
    <2> QED  BY <1>3, <2>1, ReleaseReadHolder DEF Board!Next
<1>4. CASE ClaimWrite(h)
    <2>1. user[h] \in Riders /\ req[h].order \in Orders
        BY <1>0, <1>4 DEF ClaimWrite, LocalOk
    <2>2. PICK r \in Riders, o \in Orders : r = user[h] /\ o = req[h].order
        BY <2>1
    <2> QED  BY <1>4, <2>2, ClaimWriteHolder DEF Board!Next
<1>5. CASE ReleaseWrite(h)
    <2>1. user[h] \in Riders /\ req[h].order \in Orders
        BY <1>0, <1>5 DEF ReleaseWrite, LocalOk
    <2>2. PICK r \in Riders, o \in Orders : r = user[h] /\ o = req[h].order
        BY <2>1
    <2> QED  BY <1>5, <2>2, ReleaseWriteHolder DEF Board!Next
<1>6. ~PatchWrite(h) /\ ~Assign(h)
    BY <1>0 DEF PatchWrite, Assign, LocalOk
<1>7. ASSUME \/ \E o \in Orders :
                  \/ ClaimRead(h, o) \/ CancelRead(h, o)
                  \/ \E s \in Status : StatusRead(h, o, s)
             \/ GoOnline(h)
             \/ \E p \in {"offline", "busy"} : SetPresence(h, p)
      PROVE  HolderInv' /\ UNCHANGED <<Owner, Informed>>
    <2>1. UNCHANGED <<rows, told>>
        BY <1>7 DEF ClaimRead, CancelRead, StatusRead, GoOnline, SetPresence
    <2>2. \A k \in Slots : k # h => req'[k] = req[k]
        BY <1>0, <1>7 DEF ClaimRead, CancelRead, StatusRead, GoOnline, SetPresence
    <2>3. req'[h].pc \notin {"granted", "releasing"}
        <3>1. ASSUME NEW o \in Orders, ClaimRead(h, o) PROVE req'[h].pc = "claiming"
            BY <1>0, <3>1 DEF ClaimRead, Request
        <3>2. ASSUME NEW o \in Orders, CancelRead(h, o) PROVE req'[h].pc = "cancelling"
            BY <1>0, <3>2 DEF CancelRead, Request
        <3>3. ASSUME NEW o \in Orders, NEW s \in Status, StatusRead(h, o, s)
              PROVE  req'[h].pc = "moving"
            BY <1>0, <3>3 DEF StatusRead, Request
        <3>4. CASE GoOnline(h)
            BY <1>0, <3>4 DEF GoOnline, Request
        <3>5. ASSUME NEW p \in {"offline", "busy"}, SetPresence(h, p)
              PROVE  req'[h].pc = "idle"
            BY <3>5 DEF SetPresence
        <3> QED  BY <1>7, <3>1, <3>2, <3>3, <3>4, <3>5
    <2> QED  BY <2>1, <2>2, <2>3, SilentHolder DEF HolderOk
<1>8. CASE ClaimReread(h)
    <2>1. /\ UNCHANGED <<rows, told>>
          /\ \A k \in Slots : k # h => req'[k] = req[k]
        BY <1>0, <1>8 DEF ClaimReread, Done
    <2>2. CASE rows[req[h].order].rider = user[h]
        <3>1. req'[h].pc = "granted" /\ req'[h].order = req[h].order
            BY <1>0, <1>8, <2>2 DEF ClaimReread, Request
        <3>2. HolderOk(h)'
            BY <2>1, <2>2, <3>1 DEF HolderOk
        <3> QED  BY <2>1, <3>2, SilentHolder
    <2>3. CASE rows[req[h].order].rider # user[h]
        <3>1. req'[h] = Idle
            BY <1>0, <1>8, <2>3 DEF ClaimReread, Done
        <3>2. HolderOk(h)'
            BY <3>1 DEF HolderOk, Idle
        <3> QED  BY <2>1, <3>2, SilentHolder
    <2> QED  BY <2>2, <2>3
<1>9. CASE StatusWrite(h) \/ Count(h) \/ Reread(h) \/ Settle(h) \/ CancelWrite(h)
    <2>1. \A o \in Orders : rows'[o].rider = rows[o].rider
        <3>1. ~ClaimWrite(h) /\ ~ReleaseWrite(h)
            BY <1>9 DEF StatusWrite, Count, Reread, Settle, CancelWrite, ClaimWrite,
               ReleaseWrite
        <3> QED  BY <1>6, <3>1, OthersKeepRiders
    <2>2. /\ told' = told
          /\ \A k \in Slots : k # h => req'[k] = req[k]
        BY <1>0, <1>9 DEF StatusWrite, Count, Reread, Settle, CancelWrite, Done
    <2>3. req'[h].pc \notin {"granted", "releasing"}
        BY <1>0, <1>9 DEF StatusWrite, Count, Reread, Settle, CancelWrite, Done, Idle,
           Request
    <2> QED  BY <2>1, <2>2, <2>3, SilentHolder DEF HolderOk
<1>10. ~\E o \in Orders, next \in ForcedStatuses \union {"keep"},
           to \in Riders \union {NoRider, "keep"} : PatchRead(h, o, next, to)
    BY <1>0 DEF PatchRead
<1>11. CASE Begin(h)
    BY <1>1, <1>3, <1>7, <1>10, <1>11 DEF Begin
<1>12. CASE Finish(h)
    BY <1>2, <1>4, <1>5, <1>6, <1>8, <1>9, <1>12 DEF Finish
<1> QED  BY <1>11, <1>12

\* So is every step of the portal.
LEMMA NextHolder ==
    LocalInv /\ LocalInv' /\ HolderInv /\ [Next]_vars
    => HolderInv' /\ (Board!Next \/ UNCHANGED <<Owner, Informed>>)
<1> SUFFICES ASSUME LocalInv, LocalInv', HolderInv, [Next]_vars
             PROVE  HolderInv' /\ (Board!Next \/ UNCHANGED <<Owner, Informed>>)
    OBVIOUS
<1>0. user' = user
    BY DEF Next, Handle, Crash, vars
<1>1. CASE ~Quiet
    <2>1. ~Quiet'
        BY <1>0, <1>1, QuietStays
    <2> QED  BY <1>1, <2>1 DEF HolderInv, Owner, Informed
<1>2. CASE Quiet /\ Handle
    <2>1. PICK h \in Slots : Begin(h) \/ Finish(h)
        BY <1>2 DEF Handle
    <2> QED  BY <1>0, <1>2, <2>1, QuietStep
<1>3. CASE Quiet /\ (Crash \/ UNCHANGED vars)
    <2>1. rows' = rows /\ told' = told /\ Quiet'
        BY <1>0, <1>3, QuietStays DEF Crash, vars
    <2>2. ASSUME NEW k \in Slots PROVE HolderOk(k)'
        <3>1. CASE Crash
            BY <3>1 DEF Crash, Idle, HolderOk
        <3>2. CASE UNCHANGED vars
            <4>1. HolderOk(k)
                BY <1>3 DEF HolderInv
            <4> QED  BY <3>2, <4>1 DEF HolderOk, vars
        <3> QED  BY <1>3, <3>1, <3>2
    <2>3. HolderInv'
        BY <1>3, <2>1, <2>2 DEF HolderInv, Believers
    <2>4. UNCHANGED <<Owner, Informed>>
        BY <1>3, <2>1, QuietBoard DEF LocalInv, TypeOK
    <2> QED  BY <2>3, <2>4
<1> QED  BY <1>1, <1>2, <1>3 DEF Next

\* An empty board.
LEMMA InitBoard == Init => Board!Init
<1> SUFFICES ASSUME Init PROVE Board!Init
    OBVIOUS
<1>1. \A o \in Orders : rows[o].rider = NoRider
    BY DEF Init
<1> QED  BY <1>1 DEF Init, Board!Init

\* A portal in which no rider sends two requests at a time and the admin keeps
\* out is a job board: at most one rider believes that he has a delivery, and it
\* passes to another one only after he has given it up.
THEOREM PortalIsJobBoard == Spec => ImplementsJobBoard
<1>1. Init => HolderInv /\ LocalInv
    BY InitHolder, InitLocal
<1>2. LocalInv /\ LocalInv' /\ HolderInv /\ [Next]_vars
      => HolderInv' /\ [Board!Next]_<<Owner, Informed>>
    BY NextHolder
<1>3. Spec => Board!Init /\ [][Board!Next]_<<Owner, Informed>>
    BY <1>1, <1>2, InitBoard, LocalCorrect, PTL DEF Spec
<1> QED  BY <1>3, PTL DEF ImplementsJobBoard, Board!Spec, Owner, Informed

-----------------------------------------------------------------------------
(* Statuses and presence                                                   *)

\* A rider who is about to write a status still holds the delivery, and the
\* table still allows the status unless the delivery was cancelled meanwhile.
MoveOk(h) ==
    req[h].pc = "moving" =>
      /\ rows[req[h].order].rider = user[h]
      /\ \/ rows[req[h].order].status = "cancelled"
         \/ req[h].next \in allowed[rows[req[h].order].status]

\* A request refreshes the presence of its own rider, and one that has counted
\* no jobs is right about it until it has written.
CountOk(h) ==
    /\ req[h].pc \in {"count", "reread", "settle"} => req[h].who = user[h]
    /\ req[h].pc \in {"reread", "settle"} /\ ~req[h].jobs => ~HasJobs(user[h])

\* A rider who is shown as free has no job but the one his claim has just won.
FreeOk(r) ==
    (/\ presence[r] = "online"
     /\ \A h \in Slots : user[h] = r => req[h].pc \in {"idle", "claiming", "claimed"})
    => \A o \in Orders : Active(o) /\ rows[o].rider = r
         => \E h \in Slots : user[h] = r /\ req[h].pc = "claimed" /\ req[h].order = o

\* The inductive invariant of statuses and presence while the portal is quiet.
DutyInv ==
    Quiet => /\ \A h \in Slots : MoveOk(h) /\ CountOk(h)
             /\ ~crashed => \A r \in Riders : FreeOk(r)

\* Riders without deliveries.
LEMMA InitDuty == Init => DutyInv
<1> SUFFICES ASSUME Init PROVE DutyInv
    OBVIOUS
<1>1. ASSUME NEW h \in Slots PROVE MoveOk(h) /\ CountOk(h)
    BY DEF Init, Idle, MoveOk, CountOk
<1>2. ASSUME NEW r \in Riders PROVE FreeOk(r)
    BY DEF Init, FreeOk
<1> QED  BY <1>1, <1>2 DEF DutyInv

\* What a request does to the deliveries and the presence of the other riders
\* while the portal is quiet: a delivery of theirs stays theirs, and its status
\* is left alone or cancelled.
LEMMA OthersUntouched ==
    ASSUME LocalInv, HolderInv, DutyInv, Quiet, UNCHANGED user,
           NEW h \in Slots, Begin(h) \/ Finish(h),
           NEW r \in Riders, r # user[h]
    PROVE  /\ presence'[r] = presence[r]
           /\ \A o \in Orders : rows'[o].rider = r => rows[o].rider = r
           /\ \A o \in Orders : rows[o].rider = r =>
                /\ rows'[o].rider = r
                /\ rows'[o].status \in {rows[o].status, "cancelled"}
<1>0. /\ rows \in [Orders -> Row] /\ presence \in [Riders -> Presence]
      /\ user[h] # Admin /\ LocalOk(h) /\ HolderOk(h) /\ MoveOk(h) /\ CountOk(h)
      /\ r # NoRider
    BY DispatchAssumption DEF LocalInv, TypeOK, Quiet, HolderInv, DutyInv
<1>1. ~PatchWrite(h) /\ ~Assign(h)
    BY <1>0 DEF PatchWrite, Assign, LocalOk
<1>2. CASE ClaimWrite(h)
    <2>1. presence' = presence
        BY <1>2 DEF ClaimWrite
    <2>2. CASE rows' = rows
        BY <2>1, <2>2
    <2>3. CASE /\ rows[req[h].order].rider = NoRider
               /\ rows' = [rows EXCEPT ![req[h].order].rider = user[h]]
        BY <1>0, <2>1, <2>3 DEF Row
    <2> QED  BY <1>2, <2>2, <2>3 DEF ClaimWrite
<1>3. CASE ReleaseWrite(h)
    <2>1. rows[req[h].order].rider = user[h]
        BY <1>0, <1>3 DEF ReleaseWrite, HolderOk
    <2>2. presence' = presence /\ rows' = [rows EXCEPT ![req[h].order].rider = NoRider]
        BY <1>3 DEF ReleaseWrite
    <2> QED  BY <1>0, <2>1, <2>2 DEF Row
<1>4. CASE StatusWrite(h)
    <2>1. rows[req[h].order].rider = user[h]
        BY <1>0, <1>4 DEF StatusWrite, MoveOk
    <2>2. presence' = presence /\ rows' = [rows EXCEPT ![req[h].order].status = req[h].next]
        BY <1>4 DEF StatusWrite
    <2> QED  BY <1>0, <2>1, <2>2 DEF Row
<1>5. CASE CancelWrite(h)
    <2>1. presence' = presence /\ rows' = [rows EXCEPT ![req[h].order].status = "cancelled"]
        BY <1>5 DEF CancelWrite
    <2> QED  BY <1>0, <2>1 DEF Row
<1>6. CASE ClaimGrant(h)
    BY <1>0, <1>6 DEF ClaimGrant
<1>7. CASE Settle(h)
    <2>1. req[h].who = user[h]
        BY <1>0, <1>7 DEF Settle, CountOk
    <2> QED  BY <1>0, <1>7, <2>1 DEF Settle
<1>8. CASE UNCHANGED <<rows, presence>>
    BY <1>8
<1>9. ASSUME NEW p \in {"offline", "busy"}, SetPresence(h, p)
      PROVE  rows' = rows /\ presence'[r] = presence[r]
    BY <1>0, <1>9 DEF SetPresence
<1>10. CASE Begin(h)
    BY <1>8, <1>9, <1>10 DEF Begin, ClaimRead, ClaimAgain, ReleaseRead, CancelRead,
       StatusRead, PatchRead, GoOnline
<1>11. CASE Finish(h)
    BY <1>1, <1>2, <1>3, <1>4, <1>5, <1>6, <1>7, <1>8, <1>11
       DEF Finish, ClaimReread, Count, Reread
<1> QED  BY <1>10, <1>11

\* A delivery that is not active does not become active by being cancelled.
LEMMA NoNewJobs ==
    ASSUME LocalInv, HolderInv, DutyInv, Quiet, UNCHANGED user,
           NEW h \in Slots, Begin(h) \/ Finish(h),
           NEW r \in Riders, r # user[h],
           NEW o \in Orders, Active(o)', rows'[o].rider = r
    PROVE  Active(o) /\ rows[o].rider = r
<1>1. /\ rows[o].rider = r
      /\ rows'[o].status \in {rows[o].status, "cancelled"}
    BY OthersUntouched
<1>2. rows'[o].status # "cancelled" /\ rows'[o].status \in ACTIVE_STATUSES
    BY DEF Active, ACTIVE_STATUSES
<1> QED  BY <1>1, <1>2 DEF Active

\* So a statement of one request need only look after its own rider.
LEMMA DutyFrame ==
    ASSUME LocalInv, LocalInv', HolderInv, DutyInv, Quiet, UNCHANGED <<user, crashed>>,
           NEW h \in Slots, Begin(h) \/ Finish(h),
           \A k \in Slots : k # h => req'[k] = req[k],
           MoveOk(h)', CountOk(h)',
           (~crashed /\ user[h] \in Riders) => FreeOk(user[h])'
    PROVE  DutyInv'
<1>1. ASSUME NEW k \in Slots PROVE MoveOk(k)' /\ CountOk(k)'
    <2>1. CASE k = h
        BY <2>1
    <2>2. CASE k # h
        <3>1. req'[k] = req[k] /\ user'[k] = user[k] /\ MoveOk(k) /\ CountOk(k) /\ LocalOk(k)
            BY <2>2 DEF DutyInv, LocalInv
        <3>2. ASSUME user[k] \in Riders PROVE user[k] # user[h]
            BY <2>2, <3>2, OneSlot
        <3>3. MoveOk(k)'
            <4> SUFFICES ASSUME req[k].pc = "moving" PROVE MoveOk(k)'
                BY <3>1 DEF MoveOk
            <4>1. user[k] \in Riders /\ req[k].order \in Orders
                BY <3>1 DEF LocalOk
            <4>2. rows[req[k].order].rider = user[k]
                BY <3>1 DEF MoveOk
            <4>3. /\ rows'[req[k].order].rider = user[k]
                  /\ rows'[req[k].order].status \in {rows[req[k].order].status, "cancelled"}
                BY <3>2, <4>1, <4>2, OthersUntouched
            <4> QED  BY <3>1, <4>3 DEF MoveOk
        <3>4. CountOk(k)'
            <4>1. ASSUME req[k].pc \in {"reread", "settle"}, ~req[k].jobs
                  PROVE  ~HasJobs(user[k])'
                <5>1. user[k] \in Riders /\ ~HasJobs(user[k])
                    BY <3>1, <4>1 DEF CountOk, LocalOk
                <5>2. user[k] # user[h]
                    BY <3>2, <5>1
                <5>3. ASSUME NEW o \in Orders, Active(o)', rows'[o].rider = user[k]
                      PROVE  Active(o) /\ rows[o].rider = user[k]
                    BY <5>1, <5>2, <5>3, NoNewJobs
                <5> QED  BY <3>1, <5>1, <5>3 DEF HasJobs
            <4> QED  BY <3>1, <4>1 DEF CountOk
        <3> QED  BY <3>3, <3>4
    <2> QED  BY <2>1, <2>2
<1>2. ASSUME ~crashed, NEW r \in Riders PROVE FreeOk(r)'
    <2>1. CASE r = user[h]
        BY <1>2, <2>1
    <2>2. CASE r # user[h]
        <3> SUFFICES ASSUME presence'[r] = "online",
                            \A k \in Slots : user'[k] = r =>
                               req'[k].pc \in {"idle", "claiming", "claimed"},
                            NEW o \in Orders, Active(o)', rows'[o].rider = r
                     PROVE  \E k \in Slots : user'[k] = r /\ req'[k].pc = "claimed"
                                             /\ req'[k].order = o
            BY DEF FreeOk
        <3>1. FreeOk(r) /\ presence[r] = "online"
            BY <1>2, <2>2, OthersUntouched DEF DutyInv
        <3>2. Active(o) /\ rows[o].rider = r
            BY <2>2, NoNewJobs
        <3>3. \A k \in Slots : user[k] = r => req'[k] = req[k]
            BY <2>2
        <3>4. PICK k \in Slots : user[k] = r /\ req[k].pc = "claimed" /\ req[k].order = o
            BY <3>1, <3>2, <3>3 DEF FreeOk
        <3> QED  BY <3>3, <3>4
    <2> QED  BY <2>1, <2>2
<1> QED  BY <1>1, <1>2 DEF DutyInv

\* What the invariants give a request that takes a step in a quiet portal.
LEMMA DutyKnown ==
    ASSUME LocalInv, HolderInv, DutyInv, Quiet, NEW h \in Slots
    PROVE  /\ rows \in [Orders -> Row] /\ presence \in [Riders -> Presence]
           /\ req \in [Slots -> Request] /\ req[h] \in Request /\ user[h] # Admin
           /\ LocalOk(h) /\ HolderOk(h) /\ MoveOk(h) /\ CountOk(h)
           /\ (~crashed /\ user[h] \in Riders) => FreeOk(user[h])
BY DEF LocalInv, TypeOK, Quiet, HolderInv, DutyInv

\* A rider in the middle of a request that will look at his jobs again.
LEMMA BusyFree ==
    ASSUME NEW h \in Slots, UNCHANGED user, user[h] \in Riders,
           req'[h].pc \notin {"idle", "claiming", "claimed"}
    PROVE  FreeOk(user[h])'
BY DEF FreeOk

\* A rider whose presence and jobs a statement leaves alone.
LEMMA SameFree ==
    ASSUME Quiet, NEW h \in Slots, UNCHANGED <<user, rows, presence>>,
           user[h] \in Riders, FreeOk(user[h]),
           req[h].pc \in {"idle", "claiming"}
    PROVE  FreeOk(user[h])'
<1> DEFINE r == user[h]
<1> SUFFICES ASSUME presence'[r] = "online",
                    NEW o \in Orders, Active(o)', rows'[o].rider = r
             PROVE  FALSE
    BY DEF FreeOk
<1>1. \A k \in Slots : user[k] = r => k = h
    BY OneSlot
<1>2. Active(o) /\ rows[o].rider = r /\ presence[r] = "online"
    BY DEF Active
<1>3. PICK k \in Slots : user[k] = r /\ req[k].pc = "claimed"
    BY <1>1, <1>2 DEF FreeOk
<1> QED  BY <1>1, <1>3

\* The first statement of a request.
LEMMA BeginDuty ==
    ASSUME LocalInv, LocalInv', HolderInv, DutyInv, Quiet, UNCHANGED <<user, crashed>>,
           NEW h \in Slots, Begin(h)
    PROVE  DutyInv'
<1>0. /\ req \in [Slots -> Request] /\ req[h] \in Request /\ user[h] # Admin
      /\ presence \in [Riders -> Presence]
      /\ MoveOk(h) /\ CountOk(h)
      /\ (~crashed /\ user[h] \in Riders) => FreeOk(user[h])
    BY DutyKnown
<1>1. /\ req[h].pc = "idle"
      /\ \A k \in Slots : k # h => req'[k] = req[k]
    BY <1>0 DEF Begin, ClaimRead, ClaimAgain, ReleaseRead, CancelRead,
       StatusRead, PatchRead, GoOnline, SetPresence
<1>2. ASSUME NEW o \in Orders, ClaimRead(h, o) PROVE DutyInv'
    <2>1. req'[h].pc = "claiming" /\ UNCHANGED <<rows, presence>>
        BY <1>0, <1>2 DEF ClaimRead, Request
    <2>2. MoveOk(h)' /\ CountOk(h)'
        BY <2>1 DEF MoveOk, CountOk
    <2> QED  BY <1>0, <1>1, <2>1, <2>2, SameFree, DutyFrame
<1>3. ASSUME NEW o \in Orders, ClaimAgain(h, o) PROVE DutyInv'
    <2>1. UNCHANGED <<rows, presence, req>>
        BY <1>3 DEF ClaimAgain
    <2>2. MoveOk(h)' /\ CountOk(h)'
        BY <1>1, <2>1 DEF MoveOk, CountOk
    <2> QED  BY <1>0, <1>1, <2>1, <2>2, SameFree, DutyFrame
<1>4. ASSUME NEW o \in Orders, ReleaseRead(h, o) PROVE DutyInv'
    <2>1. req'[h].pc = "releasing"
        BY <1>0, <1>4 DEF ReleaseRead, Request
    <2>2. MoveOk(h)' /\ CountOk(h)'
        BY <2>1 DEF MoveOk, CountOk
    <2> QED  BY <1>1, <2>1, <2>2, BusyFree, DutyFrame
<1>5. ASSUME NEW o \in Orders, CancelRead(h, o) PROVE DutyInv'
    <2>1. req'[h].pc = "cancelling"
        BY <1>0, <1>5 DEF CancelRead, Request
    <2>2. MoveOk(h)' /\ CountOk(h)'
        BY <2>1 DEF MoveOk, CountOk
    <2> QED  BY <1>1, <2>1, <2>2, BusyFree, DutyFrame
<1>6. ASSUME NEW o \in Orders, NEW s \in Status, StatusRead(h, o, s) PROVE DutyInv'
    <2>1. /\ req'[h].pc = "moving" /\ req'[h].order = o /\ req'[h].next = s
          /\ rows' = rows /\ rows[o].rider = user[h] /\ s \in allowed[rows[o].status]
        BY <1>0, <1>6 DEF StatusRead, Request
    <2>2. MoveOk(h)' /\ CountOk(h)'
        BY <2>1 DEF MoveOk, CountOk
    <2> QED  BY <1>1, <2>1, <2>2, BusyFree, DutyFrame
<1>7. ~\E o \in Orders, next \in ForcedStatuses \union {"keep"},
          to \in Riders \union {NoRider, "keep"} : PatchRead(h, o, next, to)
    BY <1>0 DEF PatchRead
<1>8. CASE GoOnline(h)
    <2> DEFINE jobs == HasJobs(user[h])
    <2>1. jobs \in BOOLEAN
        BY DEF HasJobs
    <2>2. /\ req' = [req EXCEPT ![h].pc = "settle", ![h].who = user[h], ![h].jobs = jobs]
          /\ rows' = rows
        BY <1>8 DEF GoOnline
    <2>3. req'[h].pc = "settle" /\ req'[h].who = user[h] /\ req'[h].jobs = jobs
        <3> HIDE DEF jobs
        <3> QED  BY <1>0, <2>1, <2>2 DEF Request
    <2>4. HasJobs(user[h])' <=> HasJobs(user[h])
        BY <2>2 DEF HasJobs, Active
    <2>5. MoveOk(h)' /\ CountOk(h)'
        BY <2>3, <2>4 DEF MoveOk, CountOk
    <2> QED  BY <1>1, <2>3, <2>5, BusyFree, DutyFrame
<1>9. ASSUME NEW p \in {"offline", "busy"}, SetPresence(h, p) PROVE DutyInv'
    <2>1. UNCHANGED <<rows, req>> /\ presence' = [presence EXCEPT ![user[h]] = p]
        BY <1>9 DEF SetPresence
    <2>2. MoveOk(h)' /\ CountOk(h)'
        BY <1>1, <2>1 DEF MoveOk, CountOk
    <2>3. user[h] \in Riders => FreeOk(user[h])'
        BY <1>0, <2>1 DEF FreeOk
    <2> QED  BY <1>1, <2>2, <2>3, DutyFrame
<1> QED  BY <1>2, <1>3, <1>4, <1>5, <1>6, <1>7, <1>8, <1>9 DEF Begin

\* A request of a rider's that ends after it has looked at his jobs.
LEMMA DoneFree ==
    ASSUME Quiet, NEW h \in Slots, UNCHANGED <<user, rows>>, user[h] \in Riders,
           presence'[user[h]] = "online" => ~HasJobs(user[h])
    PROVE  FreeOk(user[h])'
BY DEF FreeOk, HasJobs, Active

\* The statements after it, the count and the presence it settles.
LEMMA FinishDuty ==
    ASSUME LocalInv, LocalInv', HolderInv, DutyInv, Quiet, UNCHANGED <<user, crashed>>,
           NEW h \in Slots, Finish(h)
    PROVE  DutyInv'
<1>0. /\ rows \in [Orders -> Row] /\ presence \in [Riders -> Presence]
      /\ req \in [Slots -> Request] /\ req[h] \in Request /\ user[h] # Admin
      /\ LocalOk(h) /\ HolderOk(h) /\ MoveOk(h) /\ CountOk(h)
      /\ (~crashed /\ user[h] \in Riders) => FreeOk(user[h])
    BY DutyKnown
<1>1. ~PatchWrite(h) /\ ~Assign(h)
    BY <1>0 DEF PatchWrite, Assign, LocalOk
<1>2. \A k \in Slots : k # h => req'[k] = req[k]
    BY <1>0, <1>1 DEF Finish, ClaimWrite, ClaimReread, ClaimGrant, ReleaseWrite,
       StatusWrite, Count, Reread, Settle, CancelWrite, Done
<1>3. ASSUME Done(h), ~crashed /\ user[h] \in Riders => FreeOk(user[h])' PROVE DutyInv'
    <2>1. MoveOk(h)' /\ CountOk(h)'
        BY <1>0, <1>3 DEF Done, Idle, MoveOk, CountOk
    <2> QED  BY <1>2, <1>3, <2>1, DutyFrame
<1>4. CASE ClaimWrite(h)
    <2>1. /\ req[h].pc = "claiming" /\ presence' = presence
          /\ req'[h].pc = "claimed" /\ req'[h].order = req[h].order
          /\ user[h] \in Riders /\ req[h].order \in Orders
        BY <1>0, <1>4 DEF ClaimWrite, Request, LocalOk
    <2>2. ASSUME NEW o \in Orders, o # req[h].order PROVE rows'[o] = rows[o]
        BY <1>0, <1>4, <2>2 DEF ClaimWrite
    <2>3. ASSUME ~crashed PROVE FreeOk(user[h])'
        <3> SUFFICES ASSUME presence[user[h]] = "online",
                            NEW o \in Orders, o # req[h].order,
                            Active(o)', rows'[o].rider = user[h]
                     PROVE  FALSE
            BY <2>1 DEF FreeOk
        <3>1. Active(o) /\ rows[o].rider = user[h]
            BY <2>2 DEF Active
        <3>2. \A k \in Slots : user[k] = user[h] => k = h
            BY <2>1, OneSlot
        <3>3. PICK k \in Slots : user[k] = user[h] /\ req[k].pc = "claimed"
            BY <1>0, <2>1, <2>3, <3>1, <3>2 DEF FreeOk
        <3> QED  BY <2>1, <3>2, <3>3
    <2>4. MoveOk(h)' /\ CountOk(h)'
        BY <2>1 DEF MoveOk, CountOk
    <2> QED  BY <1>2, <2>3, <2>4, DutyFrame
<1>5. CASE ClaimReread(h)
    <2>1. /\ req[h].pc = "claimed" /\ UNCHANGED <<rows, presence>>
          /\ user[h] \in Riders /\ req[h].order \in Orders
        BY <1>0, <1>5 DEF ClaimReread, LocalOk
    <2>2. CASE rows[req[h].order].rider = user[h]
        <3>1. req'[h].pc = "granted"
            BY <1>0, <1>5, <2>2 DEF ClaimReread, Request
        <3>2. MoveOk(h)' /\ CountOk(h)'
            BY <3>1 DEF MoveOk, CountOk
        <3> QED  BY <1>2, <3>1, <3>2, BusyFree, DutyFrame
    <2>3. CASE rows[req[h].order].rider # user[h]
        <3>1. ASSUME ~crashed, presence[user[h]] = "online",
                     NEW o \in Orders, Active(o), rows[o].rider = user[h]
              PROVE  FALSE
            <4>1. \A k \in Slots : user[k] = user[h] => k = h
                BY <2>1, OneSlot
            <4>2. PICK k \in Slots : /\ user[k] = user[h] /\ req[k].pc = "claimed"
                                     /\ req[k].order = o
                BY <1>0, <2>1, <3>1, <4>1 DEF FreeOk
            <4> QED  BY <2>3, <3>1, <4>1, <4>2
        <3>2. ~crashed => FreeOk(user[h])'
            BY <2>1, <3>1, DoneFree DEF HasJobs
        <3>3. Done(h)
            BY <1>5, <2>3 DEF ClaimReread
        <3> QED  BY <1>3, <3>2, <3>3
    <2> QED  BY <2>2, <2>3
<1>6. CASE ClaimGrant(h)
    <2>1. user[h] \in Riders /\ presence' = [presence EXCEPT ![user[h]] = "busy"]
          /\ rows' = rows /\ Done(h)
        BY <1>0, <1>6 DEF ClaimGrant, LocalOk
    <2>2. presence'[user[h]] = "busy"
        BY <1>0, <2>1
    <2> QED  BY <1>3, <2>1, <2>2, DoneFree
<1>7. CASE ReleaseWrite(h) \/ StatusWrite(h)
    <2>1. req'[h].pc = "count" /\ req'[h].who = user[h]
        BY <1>0, <1>7 DEF ReleaseWrite, StatusWrite, Request
    <2>2. MoveOk(h)' /\ CountOk(h)'
        BY <2>1 DEF MoveOk, CountOk
    <2> QED  BY <1>2, <2>1, <2>2, BusyFree, DutyFrame
<1>8. CASE Count(h)
    <2>1. req[h].who = user[h]
        BY <1>0, <1>8 DEF Count, CountOk
    <2> DEFINE jobs == HasJobs(user[h])
    <2>2. jobs \in BOOLEAN
        BY DEF HasJobs
    <2>3. req' = [req EXCEPT ![h].pc = "reread", ![h].jobs = jobs] /\ rows' = rows
        BY <1>8, <2>1 DEF Count
    <2>4. req'[h].pc = "reread" /\ req'[h].who = user[h] /\ req'[h].jobs = jobs
        <3> HIDE DEF jobs
        <3> QED  BY <1>0, <2>1, <2>2, <2>3 DEF Request
    <2>5. HasJobs(user[h])' <=> HasJobs(user[h])
        BY <2>3 DEF HasJobs, Active
    <2>6. MoveOk(h)' /\ CountOk(h)'
        BY <2>4, <2>5 DEF MoveOk, CountOk
    <2> QED  BY <1>2, <2>4, <2>6, BusyFree, DutyFrame
<1>9. CASE Reread(h)
    <2>1. /\ req[h].pc = "reread" /\ req[h].who = user[h] /\ user[h] \in Riders
          /\ UNCHANGED <<rows, presence>>
          /\ ~req[h].jobs => ~HasJobs(user[h])
        BY <1>0, <1>9 DEF Reread, CountOk, LocalOk
    <2>2. CASE presence[user[h]] = "offline"
               \/ (IsRider(h) /\ presence[user[h]] = Refreshed(h))
        <3>1. Done(h)
            BY <1>9, <2>1, <2>2 DEF Reread
        <3>2. presence'[user[h]] = "online" => ~HasJobs(user[h])
            BY <2>1, <2>2 DEF Refreshed
        <3> QED  BY <1>3, <2>1, <3>1, <3>2, DoneFree
    <2>3. CASE ~(presence[user[h]] = "offline"
                 \/ (IsRider(h) /\ presence[user[h]] = Refreshed(h)))
        <3>1. req' = [req EXCEPT ![h].pc = "settle"]
            BY <1>9, <2>1, <2>3 DEF Reread
        <3>2. /\ req'[h].pc = "settle" /\ req'[h].who = user[h]
              /\ req'[h].jobs = req[h].jobs
            BY <1>0, <2>1, <3>1 DEF Request
        <3>3. HasJobs(user[h])' <=> HasJobs(user[h])
            BY <2>1 DEF HasJobs, Active
        <3>4. MoveOk(h)' /\ CountOk(h)'
            BY <2>1, <3>2, <3>3 DEF MoveOk, CountOk
        <3> QED  BY <1>2, <3>2, <3>4, BusyFree, DutyFrame
    <2> QED  BY <2>2, <2>3
<1>10. CASE Settle(h)
    <2>1. /\ req[h].who = user[h] /\ user[h] \in Riders /\ rows' = rows /\ Done(h)
          /\ presence' = [presence EXCEPT ![user[h]] = Refreshed(h)]
          /\ ~req[h].jobs => ~HasJobs(user[h])
        BY <1>0, <1>10 DEF Settle, CountOk, LocalOk
    <2>2. presence'[user[h]] = "online" => ~HasJobs(user[h])
        BY <1>0, <2>1 DEF Refreshed
    <2> QED  BY <1>3, <2>1, <2>2, DoneFree
<1>11. CASE CancelWrite(h)
    <2>1. user[h] \notin Riders /\ Done(h)
        BY <1>0, <1>11, DispatchAssumption DEF CancelWrite, LocalOk
    <2> QED  BY <1>3, <2>1
<1> QED  BY <1>1, <1>4, <1>5, <1>6, <1>7, <1>8, <1>9, <1>10, <1>11 DEF Finish

\* Every step keeps it.
LEMMA NextDuty ==
    LocalInv /\ LocalInv' /\ HolderInv /\ DutyInv /\ [Next]_vars => DutyInv'
<1> SUFFICES ASSUME LocalInv, LocalInv', HolderInv, DutyInv, [Next]_vars
             PROVE  DutyInv'
    OBVIOUS
<1>0. user' = user
    BY DEF Next, Handle, Crash, vars
<1>1. CASE ~Quiet
    <2>1. ~Quiet'
        BY <1>0, <1>1, QuietStays
    <2> QED  BY <2>1 DEF DutyInv
<1>2. CASE Quiet /\ Handle
    <2>1. PICK h \in Slots : Begin(h) \/ Finish(h)
        BY <1>2 DEF Handle
    <2>2. UNCHANGED <<user, crashed>>
        BY <1>2 DEF Handle
    <2> QED  BY <1>2, <2>1, <2>2, BeginDuty, FinishDuty
<1>3. CASE Crash
    BY <1>3 DEF Crash, Idle, DutyInv, MoveOk, CountOk
<1>4. CASE UNCHANGED vars
    BY <1>4 DEF vars, DutyInv, Quiet, MoveOk, CountOk, FreeOk, HasJobs, Active
<1> QED  BY <1>1, <1>2, <1>3, <1>4 DEF Next

\* The three invariants together.
LEMMA QuietInvariants == Spec => [](LocalInv /\ HolderInv /\ DutyInv)
<1>1. Init => HolderInv /\ DutyInv
    BY InitHolder, InitDuty
<1>2. LocalInv /\ LocalInv' /\ HolderInv /\ DutyInv /\ [Next]_vars => HolderInv' /\ DutyInv'
    BY NextHolder, NextDuty
<1> QED  BY <1>1, <1>2, LocalCorrect, PTL DEF Spec

\* A rider none of whose requests is in progress is not shown as free while he
\* has an active delivery: in a quiet portal that no restart has cut short, the
\* claim's and the refresh's separate statements leave no gap.
THEOREM FreeRidersHaveNoJobs == Spec => []FreeHasNoJobs
<1>1. DutyInv => FreeHasNoJobs
    BY DEF DutyInv, FreeOk, FreeHasNoJobs, HasJobs
<1> QED  BY <1>1, QuietInvariants, PTL

\* A status is written only along the table, or by a cancellation.
LEMMA StatusStep ==
    ASSUME LocalInv, HolderInv, DutyInv, Quiet, [Next]_vars, NEW o \in Orders
    PROVE  \/ rows'[o].status \in {rows[o].status, "cancelled"}
           \/ rows[o].status = "cancelled"
           \/ rows'[o].status \in allowed[rows[o].status]
<1>1. CASE rows' = rows
    BY <1>1
<1>2. CASE rows' # rows
    <2>1. PICK h \in Slots : Begin(h) \/ Finish(h)
        BY <1>2 DEF Next, Handle, Crash, vars
    <2>2. /\ rows \in [Orders -> Row] /\ user[h] # Admin
          /\ LocalOk(h) /\ MoveOk(h)
        BY DutyKnown
    <2>3. ClaimWrite(h) \/ ReleaseWrite(h) \/ StatusWrite(h) \/ CancelWrite(h)
        BY <1>2, <2>1, <2>2 DEF Begin, Finish, ClaimRead, ClaimAgain, ReleaseRead,
           CancelRead, StatusRead, PatchRead, GoOnline, SetPresence, ClaimReread,
           ClaimGrant, Count, Reread, Settle, PatchWrite, Assign, LocalOk
    <2>4. CASE ClaimWrite(h)
        <3>1. rows' = [rows EXCEPT ![req[h].order].rider = user[h]]
            BY <1>2, <2>4 DEF ClaimWrite
        <3> QED  BY <2>2, <3>1 DEF Row
    <2>5. CASE ReleaseWrite(h)
        BY <2>2, <2>5 DEF ReleaseWrite, Row
    <2>6. CASE CancelWrite(h)
        BY <2>2, <2>6 DEF CancelWrite, Row
    <2>7. CASE StatusWrite(h)
        <3>1. /\ rows' = [rows EXCEPT ![req[h].order].status = req[h].next]
              /\ \/ rows[req[h].order].status = "cancelled"
                 \/ req[h].next \in allowed[rows[req[h].order].status]
            BY <2>2, <2>7 DEF StatusWrite, MoveOk
        <3> QED  BY <2>2, <3>1 DEF Row
    <2> QED  BY <2>3, <2>4, <2>5, <2>6, <2>7
<1> QED  BY <1>1, <1>2

\* The status a rider writes over one that is not cancelled is one the table
\* allows from there, not only from the status he was shown; the customer's
\* cancellation may overwrite any, and be overwritten by any.
THEOREM StatusesFollowTable == Spec => StatusFollowsTable
<1>1. LocalInv /\ HolderInv /\ DutyInv /\ [Next]_vars =>
        [Quiet => \A o \in Orders :
           \/ rows'[o].status \in {rows[o].status, "cancelled"}
           \/ rows[o].status = "cancelled"
           \/ rows'[o].status \in allowed[rows[o].status]]_vars
    BY StatusStep
<1> QED  BY <1>1, QuietInvariants, PTL DEF Spec, StatusFollowsTable
=============================================================================
