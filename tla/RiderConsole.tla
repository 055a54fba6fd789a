----------------------------- MODULE RiderConsole -----------------------------
(***************************************************************************)
(* The rider's console in the browser: RiderDashboard with its lists, the  *)
(* selected job and the detail of a job, its poll and its GPS pings, over  *)
(* the handlers of routes/rider.ts, each of which is one step here (their  *)
(* statements interleave in RiderDispatch).                                *)
(*                                                                         *)
(* The buttons act on the selected job; what they say, and which of them   *)
(* are there, comes from the detail, which is of the job some answer was   *)
(* about.  Effects that follow a change run before the next event.         *)
(***************************************************************************)
EXTENDS Naturals, Sequences, SequencesExt

CONSTANTS
    Jobs, NoJob,
    MaxCalls,        \* bound: requests in flight when the page makes another
    ConsoleModes     \* input: circumstances, records of ConsoleMode

ConsoleMode ==
    [pool: SUBSET Jobs,   \* the jobs there are
     near: SUBSET Jobs,   \* those within 80 km of the rider
     calm: BOOLEAN,       \* the rider waits for the answers, which come, in order
     others: BOOLEAN]     \* another rider and the admin work on the jobs

\* Ids of orders are numbers, none of the words that stand where an id may.
ASSUME ConsoleAssumption ==
    /\ NoJob \notin Jobs /\ Jobs \intersect {"nothing", "idle", "clear"} = {}
    /\ ConsoleModes \subseteq ConsoleMode

Holder == {"nobody", "me", "other"}
\* pending, confirmed and preparing are "waiting"; delivered, cancelled and
\* failed are "over".
Stage == {"waiting", "out", "over"}
Parts == {"stats", "lists"}

VARIABLES
    job,        \* orders: who has each job, and how far it is
    duty,       \* users.riderPresence of the rider is not "offline"
    tab,        \* of the page's address
    lists,      \* available, mine and history, as last answered
    selected,   \* selectedId
    detail,     \* the job detail shown, NoDetail if none
    online,     \* presence, as shown, is not "offline"
    busy,       \* what the last button is busy with
    calls,      \* requests in flight
    consoleMode

consoleVars == <<job, duty, tab, lists, selected, detail, online, busy, calls, consoleMode>>

NoDetail == [job |-> NoJob, stage |-> "waiting", assignedToMe |-> FALSE]
Unread == [duty |-> FALSE, available |-> {}, mine |-> {}, history |-> {}]
\* stage: what PATCH status asks for; then: what refresh is followed by.
Call ==
    [kind: {"refresh", "detail", "ping", "presence", "claim", "release", "status"},
     job: Jobs \union {NoJob}, stage: Stage, on: BOOLEAN,
     then: Jobs \union {"nothing", "idle", "clear"},
     left: SUBSET Parts, read: [duty: BOOLEAN, available: SUBSET Jobs, mine: SUBSET Jobs,
                                history: SUBSET Jobs],
     shown: [job: Jobs \union {NoJob}, stage: Stage, assignedToMe: BOOLEAN],
     pc: {"sent", "done", "refused"}]
NewCall ==
    [kind |-> "refresh", job |-> NoJob, stage |-> "waiting", on |-> FALSE, then |-> "nothing",
     left |-> {}, read |-> Unread, shown |-> NoDetail, pc |-> "sent"]
RefreshCall(then) == [NewCall EXCEPT !.left = Parts, !.then = then]
GetDetail(j) == [NewCall EXCEPT !.kind = "detail", !.job = j]

ConsoleTypes ==
    /\ job \in [Jobs -> [holder: Holder, stage: Stage]]
    /\ {duty, online} \subseteq BOOLEAN
    /\ tab \in {"active", "available", "history"}
    /\ lists \in [available: SUBSET Jobs, mine: SUBSET Jobs, history: SUBSET Jobs]
    /\ selected \in Jobs \union {NoJob}
    /\ detail \in [job: Jobs \union {NoJob}, stage: Stage, assignedToMe: BOOLEAN]
    /\ busy \in Jobs \union {NoJob, "presence"}
    /\ \A i \in DOMAIN calls : calls[i] \in Call
    /\ consoleMode \in ConsoleModes

\* The page is mounted and asks for everything.
ConsoleInit ==
    /\ consoleMode \in ConsoleModes
    /\ job \in [Jobs -> [holder: {"nobody", "me"}, stage: {"waiting"}]
                        \union [holder: {"nobody"}, stage: {"over"}]]
    /\ \A j \in Jobs : job[j].stage = "over" <=> j \notin consoleMode.pool
    /\ duty \in BOOLEAN
    /\ tab = "active"
    /\ lists = [available |-> {}, mine |-> {}, history |-> {}]
    /\ selected = NoJob /\ detail = NoDetail
    /\ online = FALSE /\ busy = NoJob
    /\ calls = <<RefreshCall("nothing")>>

MayAsk == Len(calls) < MaxCalls
MayAct == MayAsk /\ (consoleMode.calm => calls = <<>>)

\* pickPreferredJobId: the current job if it is the rider's, else the nearest
\* of his, which may be any.
Preferred(mine, current) ==
    IF current \in mine THEN {current} ELSE IF mine = {} THEN {NoJob} ELSE mine

\* The effect of a position, or of other lists while there is one: unless the
\* selected job is his and near, the nearest of his jobs is taken.
Nearest(mine) == IF mine \intersect consoleMode.near = {} THEN mine
                 ELSE mine \intersect consoleMode.near
Nearer(mine, current) ==
    IF mine = {} \/ current \in mine \intersect consoleMode.near THEN {current}
    ELSE Nearest(mine)

\* The effect of the console tab: only the rider's jobs are selected there.
OnTab(t, mine, current) ==
    IF t = "active" /\ current \notin mine \union {NoJob} THEN Preferred(mine, NoJob)
    ELSE {current}

\* Mutant: a detail is only asked for while none is shown.
SelectLoadsOnce(j, pending) ==
    /\ selected' = j
    /\ detail' = IF j = NoJob THEN NoDetail ELSE detail
    /\ calls' = IF j \in {selected, NoJob} \/ detail # NoDetail THEN pending
                ELSE Append(pending, GetDetail(j))

\* The effect of a selection: the detail of the job is asked for, and goes when
\* there is none.
Select(j, pending) ==
    /\ selected' = j
    /\ detail' = IF j = NoJob THEN NoDetail ELSE detail
    /\ calls' = IF j \in {selected, NoJob} THEN pending ELSE Append(pending, GetDetail(j))

-----------------------------------------------------------------------------
\* The rider.
ShowTab(t) ==
    /\ MayAct /\ tab # t
    /\ tab' = t
    /\ \E j \in OnTab(t, lists.mine, selected) : Select(j, calls)
    /\ UNCHANGED <<job, duty, lists, online, busy, consoleMode>>

Cards == CASE tab = "active" -> lists.mine
           [] tab = "available" -> lists.available
           [] OTHER -> lists.history

PickCard(j) ==
    /\ MayAct /\ j \in Cards
    /\ Select(j, calls)
    /\ UNCHANGED <<job, duty, tab, lists, online, busy, consoleMode>>

Press(call, what) ==
    /\ MayAct
    /\ calls' = Append(calls, call)
    /\ busy' = what
    /\ UNCHANGED <<job, duty, tab, lists, selected, detail, online, consoleMode>>

TogglePresence ==
    /\ busy # "presence"
    /\ Press([NewCall EXCEPT !.kind = "presence", !.on = ~online], "presence")

Claim(j) ==
    /\ tab = "available" /\ j \in lists.available /\ busy # j
    /\ Press([NewCall EXCEPT !.kind = "claim", !.job = j], j)

\* The controls of the console, there when the detail says it is his job: they
\* act on the selected one.
Controls == tab = "active" /\ detail.assignedToMe /\ selected # NoJob /\ busy # selected

Release ==
    /\ Controls /\ detail.stage # "over"
    /\ Press([NewCall EXCEPT !.kind = "release", !.job = selected], selected)

Advance(s) ==
    /\ Controls
    /\ \/ s \in {"waiting", "out"} /\ detail.stage = "waiting"
       \/ s = "over" /\ detail.stage # "over"
    /\ Press([NewCall EXCEPT !.kind = "status", !.job = selected, !.stage = s], selected)

ReloadLists ==
    /\ Press(RefreshCall("nothing"), busy)

\* The poll, while the console shows the rider on duty.
PollRefresh ==
    /\ online /\ MayAsk
    /\ calls' = Append(calls, RefreshCall("nothing"))
    /\ UNCHANGED <<job, duty, tab, lists, selected, detail, online, busy, consoleMode>>

\* A GPS position, watched while on duty: a nearer job may be selected, and now
\* and then it is sent to the fleet.
GpsFix ==
    /\ online /\ MayAsk
    /\ \E j \in Nearer(lists.mine, selected),
          pending \in {calls, Append(calls, [NewCall EXCEPT !.kind = "ping"])} : Select(j, pending)
    /\ UNCHANGED <<job, duty, tab, lists, online, busy, consoleMode>>

-----------------------------------------------------------------------------
\* The server.
Mine == {j \in Jobs : job[j].holder = "me"}
Open == {j \in Jobs : job[j].holder = "nobody" /\ job[j].stage # "over"}
Over == {j \in Jobs : job[j].stage = "over"}

\* refresh reads with four requests of its own; those of the lists, whose answers
\* nothing compares, are served together.
Read(r, part) ==
    IF part = "stats" THEN [r EXCEPT !.duty = duty]
    ELSE [r EXCEPT !.available = Open, !.mine = Mine \ Over, !.history = Mine \intersect Over]

ReadServed(i) ==
    /\ calls[i].pc = "sent"
    /\ \/ /\ calls[i].kind = "refresh"
          /\ \E part \in calls[i].left :
                calls' = [calls EXCEPT ![i].left = @ \ {part}, ![i].read = Read(@, part),
                                       ![i].pc = IF calls[i].left = {part} THEN "done" ELSE "sent"]
       \/ /\ calls[i].kind = "detail"
          /\ LET j == calls[i].job
             IN  calls' = [calls EXCEPT ![i].pc = "done", ![i].shown =
                    [job |-> j, stage |-> job[j].stage, assignedToMe |-> j \in Mine]]
       \/ /\ calls[i].kind = "ping"
          /\ calls' = [calls EXCEPT ![i].pc = "done"]
    /\ UNCHANGED <<job, duty, tab, lists, selected, detail, online, busy, consoleMode>>

\* A claim makes the rider busy, on duty or not; a release or a status leaves
\* him on duty if he was.  A stage stands for several statuses: a job that is
\* over is released if it was cancelled, and not if it was delivered; one that
\* waits may be cancelled but not delivered, and goes from one waiting status to
\* a later one.
WriteServed(i) ==
    LET c == calls[i]
        j == c.job
    IN  /\ c.pc = "sent"
        /\ \/ /\ c.kind = "presence"
              /\ duty' = c.on /\ UNCHANGED job
              /\ calls' = [calls EXCEPT ![i].pc = "done"]
           \/ /\ c.kind = "claim" /\ j \in Open \union (Mine \ Over)
              /\ job' = [job EXCEPT ![j].holder = "me"]
              /\ duty' = (duty \/ j \in Open)
              /\ calls' = [calls EXCEPT ![i].pc = "done"]
           \/ /\ c.kind = "release" /\ j \in Mine
              /\ job' = [job EXCEPT ![j].holder = "nobody"]
              /\ UNCHANGED duty
              /\ calls' = [calls EXCEPT ![i].pc = "done"]
           \/ /\ c.kind = "status" /\ j \in Mine
              /\ job[j].stage = "waiting" \/ <<job[j].stage, c.stage>> = <<"out", "over">>
              /\ job' = [job EXCEPT ![j].stage = c.stage]
              /\ UNCHANGED duty
              /\ calls' = [calls EXCEPT ![i].pc = "done"]
           \/ /\ \/ c.kind = "claim" /\ j \notin Open \union Mine
                 \/ c.kind \in {"release", "status"} /\ j \notin Mine
                 \/ c.kind \in {"claim", "release"} /\ job[j].stage = "over"
                 \/ c.kind = "status"
                       /\ <<job[j].stage, c.stage>> \notin {<<"waiting", "out">>, <<"out", "over">>}
              /\ calls' = [calls EXCEPT ![i].pc = "refused"]
              /\ UNCHANGED <<job, duty>>
        /\ UNCHANGED <<tab, lists, selected, detail, online, busy, consoleMode>>

\* Another rider claims a job; the admin gives one away or ends it.
Interfere(j) ==
    /\ consoleMode.others
    /\ \/ j \in Open /\ job' = [job EXCEPT ![j].holder = "other"]
       \/ j \in Mine \ Over /\ job' = [job EXCEPT ![j].holder = "other"]
       \/ j \notin Over /\ job' = [job EXCEPT ![j].stage = "over"]
    /\ UNCHANGED <<duty, tab, lists, selected, detail, online, busy, calls, consoleMode>>

-----------------------------------------------------------------------------
\* The answers.  In calm they come in the order of the requests.
Due(i) == consoleMode.calm => i = 1

\* refresh replaces every list, the presence shown, and with them the selection.
Refreshed(i) ==
    LET c == calls[i]
        rest == RemoveAt(calls, i)
        after == CASE c.then \in Jobs -> Append(rest, GetDetail(c.then))
                   [] OTHER -> rest
        mine == c.read.mine
    IN  /\ c.kind = "refresh" /\ c.pc = "done" /\ Due(i)
        /\ lists' = [available |-> c.read.available, mine |-> mine, history |-> c.read.history]
        /\ online' = c.read.duty
        /\ \E best \in Preferred(mine, selected) :
             \E near \in {best} \union Nearer(mine, best) :
               \E j \in OnTab(tab, mine, near) :
                 /\ selected' = j
                 /\ detail' = IF j = NoJob \/ c.then = "clear" THEN NoDetail ELSE detail
                 /\ calls' = IF j \in {selected, NoJob} THEN after ELSE Append(after, GetDetail(j))
        /\ busy' = IF c.then = "nothing" THEN busy ELSE NoJob
        /\ UNCHANGED <<job, duty, tab, consoleMode>>

\* A failed refresh is told of; what follows it, follows.
RefreshFailed(i) ==
    LET c == calls[i]
        rest == RemoveAt(calls, i)
    IN  /\ c.kind = "refresh" /\ c.pc = "refused" /\ Due(i)
        /\ detail' = IF c.then = "clear" THEN NoDetail ELSE detail
        /\ calls' = IF c.then \in Jobs THEN Append(rest, GetDetail(c.then)) ELSE rest
        /\ busy' = IF c.then = "nothing" THEN busy ELSE NoJob
        /\ UNCHANGED <<job, duty, tab, lists, selected, online, consoleMode>>

\* The detail shown is of whatever job was asked about.
DetailAnswered(i) ==
    /\ calls[i].kind = "detail" /\ calls[i].pc = "done" /\ Due(i)
    /\ detail' = calls[i].shown
    /\ calls' = RemoveAt(calls, i)
    /\ UNCHANGED <<job, duty, tab, lists, selected, online, busy, consoleMode>>

\* onGps: the detail of the job that is selected by then.
PingAnswered(i) ==
    /\ calls[i].kind = "ping" /\ calls[i].pc = "done" /\ Due(i)
    /\ calls' = IF selected = NoJob THEN RemoveAt(calls, i)
                ELSE Append(RemoveAt(calls, i), GetDetail(selected))
    /\ UNCHANGED <<job, duty, tab, lists, selected, detail, online, busy, consoleMode>>

PresenceAnswered(i) ==
    /\ calls[i].kind = "presence" /\ calls[i].pc = "done" /\ Due(i)
    /\ online' = calls[i].on
    /\ calls' = Append(RemoveAt(calls, i), RefreshCall("idle"))
    /\ UNCHANGED <<job, duty, tab, lists, selected, detail, busy, consoleMode>>

\* Mutant: a claim moves to the console without asking for the lists anew.
ClaimAnsweredQuietly(i) ==
    /\ calls[i].kind = "claim" /\ calls[i].pc = "done" /\ Due(i)
    /\ tab' = "active"
    /\ \E j \in OnTab("active", lists.mine, calls[i].job) : Select(j, RemoveAt(calls, i))
    /\ busy' = NoJob
    /\ UNCHANGED <<job, duty, lists, online, consoleMode>>

\* The claimed job is selected on the console, where the tab's effect takes
\* another at once, because the lists do not have it yet.
ClaimAnswered(i) ==
    /\ calls[i].kind = "claim" /\ calls[i].pc = "done" /\ Due(i)
    /\ tab' = "active"
    /\ \E j \in OnTab("active", lists.mine, calls[i].job) :
          Select(j, Append(RemoveAt(calls, i), RefreshCall("idle")))
    /\ UNCHANGED <<job, duty, lists, online, busy, consoleMode>>

ReleaseAnswered(i) ==
    /\ calls[i].kind = "release" /\ calls[i].pc = "done" /\ Due(i)
    /\ calls' = Append(RemoveAt(calls, i), RefreshCall("idle"))
    /\ UNCHANGED <<job, duty, tab, lists, selected, detail, online, busy, consoleMode>>

\* Then the detail of that job, or none when it is over.
StatusAnswered(i) ==
    LET c == calls[i]
    IN  /\ c.kind = "status" /\ c.pc = "done" /\ Due(i)
        /\ calls' = Append(RemoveAt(calls, i), RefreshCall(IF c.stage = "over" THEN "clear" ELSE c.job))
        /\ UNCHANGED <<job, duty, tab, lists, selected, detail, online, busy, consoleMode>>

\* Any other request that failed leaves the page as it is.
CallFailed(i) ==
    /\ calls[i].kind # "refresh" /\ calls[i].pc = "refused" /\ Due(i)
    /\ calls' = RemoveAt(calls, i)
    /\ busy' = IF calls[i].kind \in {"detail", "ping"} THEN busy ELSE NoJob
    /\ UNCHANGED <<job, duty, tab, lists, selected, detail, online, consoleMode>>

\* The API is not reached.
Unreached(i) ==
    /\ ~consoleMode.calm /\ calls[i].pc = "sent"
    /\ calls' = [calls EXCEPT ![i].pc = "refused"]
    /\ UNCHANGED <<job, duty, tab, lists, selected, detail, online, busy, consoleMode>>

Answered(i) ==
    \/ Refreshed(i) \/ RefreshFailed(i) \/ DetailAnswered(i) \/ PingAnswered(i)
    \/ PresenceAnswered(i) \/ ClaimAnswered(i) \/ ReleaseAnswered(i) \/ StatusAnswered(i)
    \/ CallFailed(i)

ConsoleNext ==
    \/ \E t \in {"active", "available", "history"} : ShowTab(t)
    \/ \E j \in Jobs : PickCard(j) \/ Claim(j)
    \/ \E s \in Stage : Advance(s)
    \/ TogglePresence \/ Release \/ ReloadLists \/ PollRefresh \/ GpsFix
    \/ \E i \in DOMAIN calls :
          (Due(i) /\ (ReadServed(i) \/ WriteServed(i))) \/ Unreached(i) \/ Answered(i)
    \/ \E j \in consoleMode.pool : Interfere(j)

ConsoleSpec == ConsoleInit /\ [][ConsoleNext]_consoleVars

-----------------------------------------------------------------------------
\* The controls act on the job they describe: once a rider who waits for the
\* answers has them, the detail next to the selected job is that job's.  (A late
\* or failed detail leaves that of another job under the buttons, which then
\* move, release or cancel the selected one; so does a selection that changes,
\* by a position or by what others do, while a status is on its way.)
ControlsActOnShown ==
    (/\ consoleMode.calm /\ ~consoleMode.others /\ consoleMode.pool \subseteq consoleMode.near
     /\ calls = <<>> /\ selected # NoJob /\ detail # NoDetail)
        => detail.job = selected

\* The rider's position is shared exactly while the server has him on duty, as
\* far as he has its answers: a claim, which puts him on duty, is followed by a
\* refresh of the presence shown.
SharesOnDuty ==
    consoleMode.calm /\ calls = <<>> => online = duty
=============================================================================
