--------------------------- MODULE RiderDispatch ---------------------------
(***************************************************************************)
(* The handlers that move a delivery between riders and through its        *)
(* statuses: claim, release, status and presence of routes/rider.ts,       *)
(* PATCH /admin/orders/:id of routes/admin.ts, DELETE /orders/:id of       *)
(* routes/orders.ts.  None uses a transaction: a handler is a sequence of  *)
(* single statements with an await before each, and checks what it read    *)
(* first.  Each statement that reads or writes shared data is one action.  *)
(*                                                                         *)
(* A request in progress is a slot; user says who sends requests through   *)
(* it, so a user with two slots may have two requests in progress.         *)
(***************************************************************************)
CONSTANTS
    Orders,    \* rows of the orders table, already inserted
    Riders,    \* users with the role "rider"
    Slots,     \* requests in progress
    Users,     \* input: the ways in which the slots belong to users
    Admin, Customer, NoRider, NoOrder,
    ForcedStatuses,  \* input: the statuses the admin forces
    Patched    \* input: the orders the admin works on

ACTIVE_STATUSES == {"pending", "confirmed", "preparing", "out_for_delivery"}
Status == ACTIVE_STATUSES \union {"delivered", "cancelled", "failed"}

ASSUME DispatchAssumption ==
    /\ Users \subseteq [Slots -> Riders \union {Admin, Customer, NoRider}]
    /\ Admin \notin Riders /\ Customer \notin Riders /\ Admin # Customer
    /\ NoRider \notin Riders \union {Admin, Customer} /\ "keep" \notin Riders \union {NoRider}
    /\ NoOrder \notin Orders
    /\ ForcedStatuses \subseteq Status /\ Patched \subseteq Orders

\* The transitions PATCH /rider/deliveries/:id/status accepts.
allowed ==
    [s \in Status |->
       CASE s = "pending" -> {"confirmed", "preparing", "out_for_delivery", "cancelled"}
         [] s = "confirmed" -> {"preparing", "out_for_delivery", "cancelled"}
         [] s = "preparing" -> {"out_for_delivery", "cancelled"}
         [] s = "out_for_delivery" -> {"delivered", "cancelled"}
         [] OTHER -> {}]

VARIABLES
    rows,      \* status and riderId of each order
    presence,  \* users.riderPresence
    req,       \* the requests in progress
    told,      \* history: the riders who were told that they have a delivery
               \* and have not asked to release it
    user,      \* who sends the requests of a slot, NoRider if nobody does
    crashed    \* history: whether a restart has cut requests short

vars == <<rows, presence, req, told, user, crashed>>

Row == [status: Status, rider: Riders \union {NoRider}]
Presence == {"offline", "online", "busy"}
\* next, to: the status and the rider to write, "keep" when the body has none;
\* who: the rider whose presence is refreshed; jobs: whether he has active jobs.
Request ==
    [pc: {"idle", "claiming", "claimed", "granted", "releasing", "moving",
          "patching", "assigning", "cancelling", "count", "reread", "settle"},
     order: Orders \union {NoOrder}, next: Status \union {"keep"},
     to: Riders \union {NoRider, "keep"}, who: Riders \union {NoRider},
     jobs: BOOLEAN]

Idle == [pc |-> "idle", order |-> NoOrder, next |-> "keep", to |-> "keep",
         who |-> NoRider, jobs |-> FALSE]

TypeOK ==
    /\ rows \in [Orders -> Row]
    /\ presence \in [Riders -> Presence]
    /\ req \in [Slots -> Request]
    /\ told \in [Orders -> SUBSET Riders]
    /\ user \in Users
    /\ crashed \in BOOLEAN

\* placeOrder inserts a row as "confirmed", or as "pending" when it is deferred.
Init ==
    /\ rows \in [Orders -> [status: {"pending", "confirmed"}, rider: {NoRider}]]
    /\ presence = [r \in Riders |-> "offline"]
    /\ req = [h \in Slots |-> Idle]
    /\ told = [o \in Orders |-> {}]
    /\ user \in Users
    /\ crashed = FALSE

Active(o) == rows[o].status \in ACTIVE_STATUSES
HasJobs(r) == \E o \in Orders : Active(o) /\ rows[o].rider = r
IsRider(h) == user[h] \in Riders
Done(h) == req' = [req EXCEPT ![h] = Idle]
-----------------------------------------------------------------------------
(* POST /rider/deliveries/:id/claim                                        *)

ClaimRead(h, o) ==
    /\ req[h].pc = "idle" /\ IsRider(h)
    /\ Active(o) /\ rows[o].rider = NoRider
    /\ req' = [req EXCEPT ![h].pc = "claiming", ![h].order = o]
    /\ UNCHANGED <<rows, presence, told>>

\* The rider already has the delivery: success without a write.
ClaimAgain(h, o) ==
    /\ req[h].pc = "idle" /\ IsRider(h)
    /\ Active(o) /\ rows[o].rider = user[h]
    /\ told' = [told EXCEPT ![o] = @ \union {user[h]}]
    /\ UNCHANGED <<rows, presence, req>>

\* Mutant: the update does not ask that the delivery is still free.
ClaimWrite_Blind(h) ==
    /\ req[h].pc = "claiming"
    /\ rows' = [rows EXCEPT ![req[h].order].rider = user[h]]
    /\ req' = [req EXCEPT ![h].pc = "claimed"]
    /\ UNCHANGED <<presence, told>>

\* UPDATE ... WHERE riderId IS NULL: one statement, and it may match no row.
ClaimWrite(h) ==
    /\ req[h].pc = "claiming"
    /\ rows' = IF rows[req[h].order].rider = NoRider
               THEN [rows EXCEPT ![req[h].order].rider = user[h]] ELSE rows
    /\ req' = [req EXCEPT ![h].pc = "claimed"]
    /\ UNCHANGED <<presence, told>>

\* The row is read back to see who won.
ClaimReread(h) ==
    /\ req[h].pc = "claimed"
    /\ IF rows[req[h].order].rider = user[h]
       THEN req' = [req EXCEPT ![h].pc = "granted"]
       ELSE Done(h)
    /\ UNCHANGED <<rows, presence, told>>

\* Mutant: the winner's presence is left as it was.
ClaimGrant_NoPresence(h) ==
    /\ req[h].pc = "granted"
    /\ told' = [told EXCEPT ![req[h].order] = @ \union {user[h]}]
    /\ Done(h)
    /\ UNCHANGED <<rows, presence>>

ClaimGrant(h) ==
    /\ req[h].pc = "granted"
    /\ presence' = [presence EXCEPT ![user[h]] = "busy"]
    /\ told' = [told EXCEPT ![req[h].order] = @ \union {user[h]}]
    /\ Done(h)
    /\ UNCHANGED rows

-----------------------------------------------------------------------------
(* POST /rider/deliveries/:id/release                                      *)

ReleaseRead(h, o) ==
    /\ req[h].pc = "idle" /\ IsRider(h)
    /\ rows[o].rider = user[h] /\ rows[o].status # "delivered"
    /\ req' = [req EXCEPT ![h].pc = "releasing", ![h].order = o]
    /\ told' = [told EXCEPT ![o] = @ \ {user[h]}]
    /\ UNCHANGED <<rows, presence>>

\* The update names the order only, not the rider who was checked.
ReleaseWrite(h) ==
    /\ req[h].pc = "releasing"
    /\ rows' = [rows EXCEPT ![req[h].order].rider = NoRider]
    /\ req' = [req EXCEPT ![h].pc = "count", ![h].who = user[h]]
    /\ UNCHANGED <<presence, told>>

-----------------------------------------------------------------------------
(* PATCH /rider/deliveries/:id/status                                      *)

\* Mutant: any rider may move any delivery.
StatusRead_AnyRider(h, o, s) ==
    /\ req[h].pc = "idle" /\ IsRider(h)
    /\ s \in allowed[rows[o].status]
    /\ req' = [req EXCEPT ![h].pc = "moving", ![h].order = o, ![h].next = s]
    /\ UNCHANGED <<rows, presence, told>>

StatusRead(h, o, s) ==
    /\ req[h].pc = "idle" /\ IsRider(h)
    /\ rows[o].rider = user[h]
    /\ s \in allowed[rows[o].status]
    /\ req' = [req EXCEPT ![h].pc = "moving", ![h].order = o, ![h].next = s]
    /\ UNCHANGED <<rows, presence, told>>

StatusWrite(h) ==
    /\ req[h].pc = "moving"
    /\ rows' = [rows EXCEPT ![req[h].order].status = req[h].next]
    /\ req' = [req EXCEPT ![h].pc = "count", ![h].who = user[h]]
    /\ UNCHANGED <<presence, told>>

-----------------------------------------------------------------------------
(* Presence                                                                *)

\* PATCH /rider/presence with "online" counts the rider's jobs first ...
GoOnline(h) ==
    /\ req[h].pc = "idle" /\ IsRider(h)
    /\ req' = [req EXCEPT ![h].pc = "settle", ![h].who = user[h],
                          ![h].jobs = HasJobs(user[h])]
    /\ UNCHANGED <<rows, presence, told>>

\* ... and with any other value just writes it.
SetPresence(h, p) ==
    /\ req[h].pc = "idle" /\ IsRider(h)
    /\ presence' = [presence EXCEPT ![user[h]] = p]
    /\ UNCHANGED <<rows, req, told>>

\* refreshPresenceFromJobs, and its copy in the admin handler: count the jobs,
\* read the presence, write it, three statements.
Count(h) ==
    /\ req[h].pc = "count"
    /\ req' = [req EXCEPT ![h].pc = "reread", ![h].jobs = HasJobs(req[h].who)]
    /\ UNCHANGED <<rows, presence, told>>

\* Mutant: a rider without jobs is given a presence the schema does not have.
Refreshed_Free(h) == IF req[h].jobs THEN "busy" ELSE "free"

Refreshed(h) == IF req[h].jobs THEN "busy" ELSE "online"

\* An offline rider stays offline; only the admin handler writes a value that
\* is already there.
Reread(h) ==
    /\ req[h].pc = "reread"
    /\ LET now == presence[req[h].who] IN
         IF now = "offline" \/ (IsRider(h) /\ now = Refreshed(h))
         THEN Done(h)
         ELSE req' = [req EXCEPT ![h].pc = "settle"]
    /\ UNCHANGED <<rows, presence, told>>

Settle(h) ==
    /\ req[h].pc = "settle"
    /\ presence' = [presence EXCEPT ![req[h].who] = Refreshed(h)]
    /\ Done(h)
    /\ UNCHANGED <<rows, told>>

-----------------------------------------------------------------------------
(* PATCH /admin/orders/:id: force a status, assign or clear the rider       *)

\* The handler keeps the rider it read: he is refreshed if the job leaves him.
PatchRead(h, o, next, to) ==
    /\ req[h].pc = "idle" /\ user[h] = Admin /\ o \in Patched
    /\ ~(next = "keep" /\ to = "keep")
    /\ req' = [req EXCEPT ![h] = [pc |-> "patching", order |-> o, next |-> next,
                                  to |-> to, who |-> rows[o].rider, jobs |-> FALSE]]
    /\ UNCHANGED <<rows, presence, told>>

\* Where the handler goes once the new rider, if any, has been made busy.
AfterAssign(h) ==
    IF req[h].to # "keep" /\ req[h].who \notin {NoRider, req[h].to}
    THEN req' = [req EXCEPT ![h].pc = "count"]
    ELSE Done(h)

PatchWrite(h) ==
    /\ req[h].pc = "patching"
    /\ LET row == rows[req[h].order] IN
         rows' = [rows EXCEPT ![req[h].order] =
           [status |-> IF req[h].next = "keep" THEN row.status ELSE req[h].next,
            rider |-> IF req[h].to = "keep" THEN row.rider ELSE req[h].to]]
    /\ IF req[h].to \in Riders
       THEN req' = [req EXCEPT ![h].pc = "assigning"]
       ELSE AfterAssign(h)
    /\ UNCHANGED <<presence, told>>

Assign(h) ==
    /\ req[h].pc = "assigning"
    /\ presence' = [presence EXCEPT ![req[h].to] = "busy"]
    /\ AfterAssign(h)
    /\ UNCHANGED <<rows, told>>

-----------------------------------------------------------------------------
(* DELETE /orders/:id                                                      *)

CancelRead(h, o) ==
    /\ req[h].pc = "idle" /\ user[h] = Customer
    /\ rows[o].status \in {"pending", "confirmed"}
    /\ req' = [req EXCEPT ![h].pc = "cancelling", ![h].order = o]
    /\ UNCHANGED <<rows, presence, told>>

CancelWrite(h) ==
    /\ req[h].pc = "cancelling"
    /\ rows' = [rows EXCEPT ![req[h].order].status = "cancelled"]
    /\ Done(h)
    /\ UNCHANGED <<presence, told>>

-----------------------------------------------------------------------------
\* The process dies: the requests in progress end where they are.
Crash ==
    /\ crashed' = TRUE
    /\ req' = [h \in Slots |-> Idle]
    /\ UNCHANGED <<rows, presence, told, user>>

Finish(h) ==
    \/ ClaimWrite(h) \/ ClaimReread(h) \/ ClaimGrant(h)
    \/ ReleaseWrite(h) \/ StatusWrite(h)
    \/ Count(h) \/ Reread(h) \/ Settle(h)
    \/ PatchWrite(h) \/ Assign(h) \/ CancelWrite(h)

Begin(h) ==
    \/ \E o \in Orders :
         \/ ClaimRead(h, o) \/ ClaimAgain(h, o) \/ ReleaseRead(h, o) \/ CancelRead(h, o)
         \/ \E s \in Status : StatusRead(h, o, s)
         \/ \E next \in ForcedStatuses \union {"keep"}, to \in Riders \union {NoRider, "keep"} :
              PatchRead(h, o, next, to)
    \/ GoOnline(h)
    \/ \E p \in {"offline", "busy"} : SetPresence(h, p)

Handle == UNCHANGED <<user, crashed>> /\ \E h \in Slots : Begin(h) \/ Finish(h)

Next == Handle \/ Crash

Spec == Init /\ [][Next]_vars
-----------------------------------------------------------------------------
(* Properties                                                              *)

\* The admin keeps out and no rider sends two requests at a time.
Quiet ==
    /\ \A h \in Slots : user[h] # Admin
    /\ \A h, k \in Slots : (user[h] \in Riders /\ user[h] = user[k]) => h = k

\* The portal as its riders see it, while it is quiet.
Board == INSTANCE JobBoard WITH
    owner <- [o \in Orders |-> IF Quiet THEN rows[o].rider ELSE NoRider],
    told <- [o \in Orders |-> IF Quiet THEN told[o] ELSE {}]

\* If no rider sends two requests at a time and the admin keeps out, the
\* portal is a job board: a delivery passes to another rider only after its
\* holder has given it up, however claims, releases and crashes interleave.
ImplementsJobBoard == Board!Spec

\* Under the same conditions a delivery that is not cancelled moves along the
\* table that was consulted when its row was read, or to cancelled.  (A cancelled
\* one may be moved anywhere: the customer's cancellation asks nothing of the row
\* it writes, and a status checked before it is written after it.)
StatusFollowsTable ==
    [][Quiet => \A o \in Orders :
         \/ rows'[o].status \in {rows[o].status, "cancelled"}
         \/ rows[o].status = "cancelled"
         \/ rows'[o].status \in allowed[rows[o].status]]_vars

\* A claim never takes a delivery from the rider it was claimed by or assigned
\* to in the meantime, whatever claims, releases and assignments race: only the
\* admin moves it from one rider to another.
ClaimNeverSteals ==
    [][\A o \in Orders :
         (rows[o].rider # NoRider /\ rows'[o].rider \notin {NoRider, rows[o].rider})
         => \E h \in Slots : req[h].pc = "patching" /\ req[h].to = rows'[o].rider]_vars

\* A rider none of whose requests is in progress is not offered as free while
\* he has an active delivery, as long as the admin keeps out and no restart has
\* cut a claim off before the presence was written.
FreeHasNoJobs ==
    (Quiet /\ ~crashed) =>
      \A r \in Riders :
        (presence[r] = "online" /\ \A h \in Slots : user[h] = r => req[h].pc = "idle")
        => ~HasJobs(r)
=============================================================================
