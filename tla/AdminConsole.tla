----------------------------- MODULE AdminConsole -----------------------------
(***************************************************************************)
(* The administrator's console in the browser (AdminDashboard.tsx) over the *)
(* admin routes: eight lists asked together at a filter, the 20 s poll, and *)
(* assignments, cancellations, role changes and revocations, each followed  *)
(* by a refresh with the filter of the moment it was pressed.               *)
(***************************************************************************)
EXTENDS Naturals, Sequences, SequencesExt

CONSTANTS
    AdminOrders,
    Staff,            \* users, the administrator among them
    Boss,             \* the administrator of this console
    NoRider, NoTimer,
    OrderFilters,     \* filters of the orders tab, "all" among them
    MaxFeeds,         \* bound: refreshes in flight
    MaxPresses,       \* bound: what the administrator presses
    AdminModes        \* input: circumstances, records of AdminMode

AdminMode ==
    [pressed: SUBSET {"assign", "cancel", "role", "revoke", "tick"},  \* what is pressed
     moves: 0..1,      \* bound: changes by others
     faults: 0..1]     \* bound: requests that fail

ASSUME AdminAssumption ==
    /\ Boss \in Staff /\ NoRider \notin Staff
    /\ "all" \in OrderFilters /\ NoTimer \notin OrderFilters
    /\ {MaxFeeds, MaxPresses} \subseteq Nat
    /\ AdminModes \subseteq AdminMode

VARIABLES
    row,        \* orders: status and rider
    account,    \* users: role, and whether a session token is stored
    filter,     \* orderFilter
    timer,      \* the filter of the refresh the interval calls
    seen,       \* orders shown
    team,       \* roles shown
    adminLoading,   \* loading of the page
    busy,       \* the control whose request is under way
    feeds,      \* refresh() in flight
    requests,   \* PATCH requests (and the placer tick) in flight
    presses,    \* what the administrator pressed so far
    moves, adminFaults,   \* what others may still do, what may still fail
    adminMode

adminVars == <<row, account, filter, timer, seen, team, adminLoading, busy, feeds,
               requests, presses, moves, adminFaults, adminMode>>

serverVars == <<row, account>>
pageVars == <<filter, timer, seen, team>>
boundVars == <<presses, moves, adminFaults, adminMode>>

Status == {"pending", "delivered", "cancelled"}
Roles == {"user", "rider", "admin"}
Row == [status: Status, rider: Staff \union {NoRider}]
Listing == SUBSET (AdminOrders \X Row)
Wanted == {[kind |-> "tick", on |-> Boss, to |-> NoRider]}
          \union [kind: {"assign"}, on: AdminOrders, to: Staff \union {NoRider}]
          \union [kind: {"cancel"}, on: AdminOrders, to: {NoRider}]
          \union [kind: {"role"}, on: Staff, to: Roles]
          \union [kind: {"revoke"}, on: Staff, to: {NoRider}]

AdminTypes ==
    /\ row \in [AdminOrders -> Row]
    /\ account \in [Staff -> [role: Roles, session: BOOLEAN]]
    /\ filter \in OrderFilters /\ timer \in OrderFilters \union {NoTimer}
    /\ seen \in Listing /\ team \in [Staff -> Roles]
    /\ adminLoading \in BOOLEAN
    /\ busy \in AdminOrders \union Staff \union {"tick", "none"}
    /\ Len(feeds) <= MaxFeeds
    /\ feeds \in Seq([filter: OrderFilters, quiet: BOOLEAN, frees: BOOLEAN,
                      got: SUBSET {"orders", "users"}, seen: Listing, team: [Staff -> Roles]])
    /\ requests \in Seq([want: Wanted, filter: OrderFilters, done: BOOLEAN])
    /\ presses \in 0..MaxPresses /\ {moves, adminFaults} \subseteq 0..1
    /\ adminMode \in AdminModes

\* GET /admin/orders?status= and GET /admin/users.
OrdersList(f) == {<<o, row[o]>> : o \in {p \in AdminOrders : f \in {"all", row[p].status}}}
UsersList == [u \in Staff |-> account[u].role]

\* refresh: all lists are asked together.
Refresh(f, quiet, frees) ==
    /\ Len(feeds) < MaxFeeds
    /\ feeds' = Append(feeds, [filter |-> f, quiet |-> quiet, frees |-> frees,
                               got |-> {}, seen |-> {}, team |-> team])
    /\ adminLoading' = (adminLoading \/ ~quiet)

AdminInit ==
    /\ row \in [AdminOrders -> [status: {"pending"}, rider: {NoRider}]]
    /\ account = [u \in Staff |-> [role |-> IF u = Boss THEN "admin" ELSE "rider",
                                   session |-> TRUE]]
    /\ filter = "all" /\ timer = NoTimer
    /\ seen = {} /\ team = [u \in Staff |-> "user"]
    /\ adminLoading = TRUE /\ busy = "none"
    /\ feeds = <<>>
    /\ requests = <<>>
    /\ adminMode \in AdminModes
    /\ presses = 0 /\ moves = adminMode.moves /\ adminFaults = adminMode.faults

\* The page is mounted: both effects run.
OpenConsole ==
    /\ timer = NoTimer
    /\ timer' = filter
    /\ Refresh(filter, FALSE, FALSE)
    /\ UNCHANGED <<serverVars, filter, seen, team, busy, requests, boundVars>>

\* Mutant: the interval keeps the refresh of the first render.
SetFilterKeepsTimer(f) ==
    /\ timer # NoTimer /\ f # filter
    /\ presses < MaxPresses
    /\ presses' = presses + 1
    /\ filter' = f
    /\ timer' = timer
    /\ Refresh(f, FALSE, FALSE)
    /\ UNCHANGED <<serverVars, seen, team, busy, requests, moves, adminFaults, adminMode>>

\* A filter button: refresh is a new function, so both effects run again, the one
\* that refreshes and the one that sets the interval.
SetFilter(f) ==
    /\ timer # NoTimer /\ f # filter
    /\ presses < MaxPresses
    /\ presses' = presses + 1
    /\ filter' = f
    /\ timer' = f
    /\ Refresh(f, FALSE, FALSE)
    /\ UNCHANGED <<serverVars, seen, team, busy, requests, moves, adminFaults, adminMode>>

\* The refresh button, off while loading.
PressRefresh ==
    /\ ~adminLoading
    /\ Refresh(filter, FALSE, FALSE)
    /\ UNCHANGED <<serverVars, pageVars, busy, requests, boundVars>>

PollFeed ==
    /\ timer # NoTimer
    /\ Refresh(timer, TRUE, FALSE)
    /\ UNCHANGED <<serverVars, pageVars, busy, requests, boundVars>>

\* A list is answered by the admin middleware only while the session lasts.
FeedServed(i, part) ==
    /\ account[Boss].session /\ account[Boss].role = "admin"
    /\ part \notin feeds[i].got
    /\ feeds' = [feeds EXCEPT ![i].got = @ \union {part},
                              ![i].seen = IF part = "orders" THEN OrdersList(feeds[i].filter) ELSE @,
                              ![i].team = IF part = "users" THEN UsersList ELSE @]
    /\ UNCHANGED <<serverVars, pageVars, adminLoading, busy, requests, boundVars>>

FeedEnds(i) ==
    /\ feeds' = RemoveAt(feeds, i)
    /\ adminLoading' = (adminLoading /\ feeds[i].quiet)
    /\ busy' = IF feeds[i].frees THEN "none" ELSE busy
    /\ UNCHANGED <<serverVars, filter, timer, requests, presses, moves, adminMode>>

\* All lists are there: they are shown, whatever the filter is by now.
FeedShown(i) ==
    /\ feeds[i].got = {"orders", "users"}
    /\ seen' = feeds[i].seen /\ team' = feeds[i].team
    /\ FeedEnds(i)
    /\ UNCHANGED adminFaults

\* One list fails, and with it the refresh; the old lists stay.
FeedFails(i) ==
    /\ \/ ~account[Boss].session /\ UNCHANGED adminFaults
       \/ adminFaults > 0 /\ adminFaults' = adminFaults - 1
    /\ FeedEnds(i)
    /\ UNCHANGED <<seen, team>>

\* The controls of the page: a select or a button per row shown.
Offered(want) ==
    CASE want.kind = "assign" ->
           \E s \in seen : s[1] = want.on /\ s[2].rider # want.to
                           /\ want.to \in {NoRider} \union {u \in Staff : team[u] = "rider"}
      [] want.kind = "cancel" ->
           \E s \in seen : s[1] = want.on /\ s[2].status \notin {"cancelled", "delivered"}
      [] want.kind = "role" -> want.on # Boss /\ team[want.on] # want.to
      [] OTHER -> TRUE

\* onAssign, onCancelOrder, onRole, onRevoke and the tick button.  What is busy is
\* one name for the page: only the control that has it is off.
Press(want) ==
    LET name == IF want.kind = "tick" THEN "tick" ELSE want.on
    IN  /\ timer # NoTimer /\ want.kind \in adminMode.pressed /\ Offered(want) /\ busy # name
        /\ presses < MaxPresses
        /\ presses' = presses + 1
        /\ busy' = name
        /\ requests' = Append(requests, [want |-> want, filter |-> filter, done |-> FALSE])
        /\ UNCHANGED <<serverVars, pageVars, adminLoading, feeds, moves, adminFaults, adminMode>>

\* The server's checks.
Accepted(want) ==
    /\ account[Boss].session
    /\ want.kind = "assign" =>
          want.to \in {NoRider} \union {u \in Staff : account[u].role = "rider"}

\* PATCH /admin/orders/:id and /admin/users/:id.  A cancelled or delivered order
\* can be assigned; the placer's tick changes no order that is shown here.
EditServed(i) ==
    LET want == requests[i].want
    IN  /\ ~requests[i].done /\ Accepted(want)
        /\ row' = CASE want.kind = "assign" -> [row EXCEPT ![want.on].rider = want.to]
                    [] want.kind = "cancel" -> [row EXCEPT ![want.on].status = "cancelled"]
                    [] OTHER -> row
        /\ account' = CASE want.kind = "role" -> [account EXCEPT ![want.on].role = want.to]
                        [] want.kind = "revoke" -> [account EXCEPT ![want.on].session = FALSE]
                        [] OTHER -> account
        /\ requests' = [requests EXCEPT ![i].done = TRUE]
        /\ UNCHANGED <<pageVars, adminLoading, busy, feeds, boundVars>>

\* Answered: a quiet refresh with the filter of the render that was pressed.
EditAnswered(i) ==
    /\ requests[i].done
    /\ Refresh(requests[i].filter, TRUE, TRUE)
    /\ requests' = RemoveAt(requests, i)
    /\ UNCHANGED <<serverVars, pageVars, busy, boundVars>>

\* Refused or lost: a message, and the page is free again.
EditFails(i) ==
    /\ \/ ~requests[i].done /\ ~Accepted(requests[i].want) /\ UNCHANGED adminFaults
       \/ adminFaults > 0 /\ adminFaults' = adminFaults - 1
    /\ requests' = RemoveAt(requests, i)
    /\ busy' = "none"
    /\ UNCHANGED <<serverVars, pageVars, adminLoading, feeds, presses, moves, adminMode>>

\* Riders and other administrators.
OthersMove ==
    /\ moves > 0
    /\ moves' = moves - 1
    /\ \/ /\ \E o \in AdminOrders :
                /\ row[o].status = "pending"
                /\ row' = [row EXCEPT ![o].status = "delivered"]
          /\ UNCHANGED account
       \/ /\ \E u \in Staff \ {Boss} :
                /\ account[u].role = "rider"
                /\ account' = [account EXCEPT ![u].role = "user"]
          /\ UNCHANGED row
    /\ UNCHANGED <<pageVars, adminLoading, busy, feeds, requests, presses, adminFaults, adminMode>>

AdminNext ==
    \/ OpenConsole \/ PressRefresh \/ PollFeed \/ OthersMove
    \/ \E f \in OrderFilters : SetFilter(f)
    \/ \E want \in Wanted : Press(want)
    \/ \E i \in DOMAIN feeds :
          \/ \E part \in {"orders", "users"} : FeedServed(i, part)
          \/ FeedShown(i) \/ FeedFails(i)
    \/ \E i \in DOMAIN requests : EditServed(i) \/ EditAnswered(i) \/ EditFails(i)

\* The interval fires again and again; every request is served and every answer
\* handled.  Nothing that a person does is promised.
AdminFairness ==
    /\ WF_adminVars(PollFeed)
    /\ WF_adminVars(feeds # <<>> /\ \E part \in {"orders", "users"} : FeedServed(1, part))
    /\ WF_adminVars(feeds # <<>> /\ (FeedShown(1) \/ FeedFails(1)))
    /\ WF_adminVars(requests # <<>> /\ (EditServed(1) \/ EditAnswered(1) \/ EditFails(1)))

-----------------------------------------------------------------------------
\* The console comes to show the orders of the filter that is set and the users
\* as they are, and goes on showing them, unless the administrator revoked his
\* own session: lists for an earlier filter (a late refresh, or the one after an
\* assignment pressed before the filter was changed) do not stay under the new one.
AdminCatchesUp ==
    <>[](timer # NoTimer /\ account[Boss].session =>
            seen = OrdersList(filter) /\ team = UsersList)
=============================================================================
