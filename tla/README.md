# RouteBite: TLA+ models, checks and proofs

RouteBite lets a traveller order Swiggy Food or Instamart to points on a
journey. This directory models the API (`src/apps/api/src`) and the pages over
it (`src/apps/web/src`) where things go wrong between steps: orders that are
placed now or later, the client that talks to Swiggy, the poller that follows an
order, the handlers that hand a delivery from rider to rider, the sessions, the
pages of customer, rider and administrator whose answers come late or never,
and the services around an order: limiter, caches, search and planning.

The API is one Bun process. JavaScript runs one callback at a time, so code
between two `await`s is atomic and every `await` is a point at which any other
handler, timer or tick may run. No handler uses a database transaction. This
gives the rule for all modules: *one action is the code between two awaits that
read or write shared state*, and what a handler read before an await is kept in
its local record and used, possibly stale, after it. The same holds for a browser
tab, whose requests are answered by events of their own, in any order unless a
module says otherwise.

## 1. Inventory

| Component | State | Operations | Talks to | What is hard |
|---|---|---|---|---|
| Order intake (`services/order/placement.ts`, `guard.ts`, `routes/orders.ts`, `routes/swiggy-commerce.ts`) | `orders` rows; the account's Food cart and order list at Swiggy | POST /orders, POST /orders/multi-hop, POST /orders/:id/re-intercept, checkout preview | Swiggy client, placer (through `pending` rows), poller | one shared cart, a check long before the act, row inserted after the place call |
| Deferred placer (`services/fusion/deferred-placer.ts`) | `pending` rows: `autoPlaceAt`, `placeAttempts`, `swiggyOrderId` | interval tick every 20 s, POST /admin/fusion/tick | Swiggy client, `orders`, poller | ticks overlap, write-back by id, retries, crash between Swiggy's answer and the write |
| Swiggy client (`services/swiggy/client.ts`) | attempt counter, 429 sleeps | `callTool`, the orders probe | Swiggy | a lost reply says nothing about execution |
| Tracking poller (`services/tracking/poller.ts`) | `activePollers` registry, timers | `startPolling`, timer callback, error timer | Swiggy, `orders.status` | timers, callbacks that cannot be cleared, late answers |
| Rider dispatch (`routes/rider.ts`, `routes/admin.ts`) | `orders.riderId`, `orders.status`, `users.riderPresence` | claim, release, status, presence, admin patch | `orders`, `users` | read / check / write in separate statements |
| Cancellation (`routes/orders.ts` DELETE) | `orders.status` | DELETE /orders/:id | everybody who writes status | checked and written in two statements |
| Auth and sessions (`routes/auth.ts`, `middleware/auth.ts`) | pending PKCE flows in memory, one session hash and one Swiggy token per user | login, logout, OAuth start and callback | `users` | timer against callback, one session per user, token used later by the placer |
| Rate limiting (`lib/rate-limit`) | token buckets; Redis counters | `consume` | middleware | boundary of one token, INCR without EXPIRE |
| Caches (`lib/ttl-lru-cache.ts`, `services/maps/google-auth.ts`, `services/railways`) | entries with expiry, a shared access token | get, set, refresh | external APIs | stale entries, concurrent refresh |
| Journeys and telemetry (`routes/routes.ts`, `routes/intercepts.ts`) | `journeys`, `intercepts`, a JSON column | analyze, telemetry | `journeys` | lost update, several inserts without a transaction |
| Handoff planning (`services/tracking/alignment.ts`, `order/timing.ts`, `fusion/halt-gate.ts`, `hop-packing.ts`, `re-intercept.ts`, `meal-priming.ts`, ...) | none | functions | order intake, tracking | boundaries, absent inputs, services that fail |
| Intercept search (`services/intercept`, `packages/shared`) | one analysis | `computeInterceptPoints` | maps | a chain of failing services, ranking and spacing |
| Route optimisation (`services/route-optimization`) | one request | `optimizeMultiStopRoute` | Routes API, Cloud, matrix | three solvers, pairs without a route |
| Railways (`services/railways`) | train runs, a warm session | journey by train | NTES, maps | times past midnight, stations twice |
| Stop catalog (`routes/intercepts.ts`, `routes/swiggy-commerce.ts`) | stored reachability, the cart at Swiggy | lists, coverage, previews | Swiggy, maps | each call may fail; overlapping requests share the cart and the row |
| Gateway clients (`services/maps`, `weather`, `environment`) | caches, access token | one function per question | external APIs | fallbacks, retries, what is cached of a failure |
| Sessions in the browser (`stores/auth.ts`, `lib/api.ts`, `Login`, `AuthCallback`, gates) | two copies of the token in localStorage, one store per tab | login, callback, logout, redirect | auth routes | several tabs, late answers, gates that refer to each other |
| Menu, cart and checkout (`Menu.tsx`, `Order.tsx`, `stores/cart.ts`, `stores/order.ts`) | persisted cart, previews, hop plan | search, add, preview, confirm, place | commerce and order routes | previews and menus answered out of order, double submit |
| Rider console (`RiderDashboard.tsx`) | lists, selected job, detail, presence shown | claim, move, release, poll, positions | rider routes | buttons act on one thing and describe another |
| Tracking page (`stores/tracking.ts`, `TrackOrder.tsx`, live location hooks) | one snapshot and one timer for all orders | poll, share location | track and telemetry routes | late answers about another order |
| Journey planner (`QuickRouteForm.tsx`, `stores/journey.ts`, `Intercepts.tsx`) | form, places, journey, stops, selection | resolve, submit, load, select | routes, places | answers for older text or an older journey |
| Administrator's page (`AdminDashboard.tsx`) | lists by filter, timer | poll, assign, cancel, roles, revoke | admin routes | refreshes with different filters overlap |
| Mock server, scripts, visual components | - | - | - | - |

The complete list, with what is modelled of each, is `components` in
`PROJECT.json`; the hazards, each at its line, are `hazards` there.

What makes each component correct:

* **Intake**: an order Swiggy has acknowledged has its row; no second immediate
  order inside the guard's window; an order contains what was asked for and goes
  where its row says.
* **Placer**: an acknowledged placement is never forgotten; a row is placed
  twice only by an overlap or after a lost answer; a settled row stays settled;
  a queued row ends.
* **Client**: at most one execution per call; the answer is about this call;
  every call ends within its budget.
* **Poller**: one timer per order, known to the registry; the row follows
  Swiggy; tracking ends; a final status stays.
* **Dispatch**: one holder per delivery; statuses follow the table; presence
  agrees with jobs.
* **Sessions**: a sign-in flow is used once; a tab shows the user whose token it
  sends; the gates send nobody back and forth.
* **Checkout**: what is ordered is what was shown, and once.
* **Rider console**: the buttons act on the job they describe; positions are sent
  exactly while on duty.
* **Tracking page**: it comes to show its order; sharing switched off stays off.
* **Planner**: the journey is the one typed; the suggestions of a field are for its
  text and the other place; the stops are that journey's.
* **Administrator's page**: it comes to show the filter that is set.
* **Limiter**: at most twice the limit in any window; waiting as long as told is
  enough.
* **Caches**: a hit is never too old; what was used last is held; a token is good
  when it is used.
* **Search, trains, tours**: chosen places are good, apart and in order, whatever
  the services failed to say.
* **Handoff plan, catalog**: what is offered is reachable, and what is answered
  is about the stop and the account of the request.

## 2. Modules

| Module | Models | Role |
|---|---|---|
| `DeferredPlacer` | ticks, the row protocol, DELETE, restarts | core |
| `DeferredPlacer_proofs` | - | theorems about it |
| `SwiggyClient` | `callTool` for `place_food_order` and `checkout`, the probe | component |
| `PlaceCall` | what a place call is to its caller | abstract specification; `SwiggyClient` implements it, `DeferredPlacer` uses its outcomes |
| `OrderIntake` | `placeOrder`, guard, multi-hop, preview, re-intercept, with the placer as second user of the account | composition over one Swiggy account |
| `RiderDispatch` | claim, release, status, presence, admin patch, DELETE | component |
| `RiderDispatch_proofs` | - | theorems about it |
| `JobBoard` | one holder per delivery | abstract specification of `RiderDispatch` |
| `TrackingPoller` | registry, timer chains, write-back, DELETE, restarts | component |
| `OrderIntake_proofs` | - | theorems about `OrderIntake` |
| `AuthSessions` | PKCE flows with timers, sign-ins, middleware check, logout, revocation, expiry, restarts | component |
| `WebClient_proofs` | - | theorems about `AuthSessions`, `WebSession`, `Checkout`, `RiderConsole` and their composition `MCWebClient` |
| `Pages_proofs` | - | theorems about `LiveTracking`, `JourneyPlanner`, `AddressField`, `AdminConsole` and their composition `MCPages` |
| `Gateway_proofs` | - | theorems about `RateLimit`, `MapsGateway` and `TrackingPoller` |
| `Handoff_proofs` | - | theorems about `StopCatalog`, `HandoffPlan` and `SwiggyClient` |
| `Places_proofs` | - | theorems about `InterceptSearch`, `TrainJourney`, `StopOrder`, `Places` and the composition `MCGateway` |
| `WebSession` | the auth store of each tab, localStorage, gates | component over `AuthSessions` |
| `Checkout` | menu, cart, previews, hop plan, placing | component |
| `RiderConsole` | the rider's page over its handlers | component |
| `LiveTracking` | the tracking page and the telemetry handler | component |
| `JourneyPlanner` | the form, the store, the stops and the handlers that insert them | component |
| `AddressField` | the two address fields of the form: script, suggestions, picks | component, extends `JourneyPlanner` |
| `AdminConsole` | the administrator's page over its handlers | component |
| `RateLimit` | both stores of the limiter | component |
| `MapsGateway` | cached clients: cache, token, fallbacks, retries | component |
| `InterceptSearch` | the handoff points of a route | algorithm, one await per action |
| `TrainJourney` | the stations of a train | extends `InterceptSearch` |
| `StopOrder` | the order of several stops | algorithm |
| `Places` | points, stations and orders of stops together | composition; they share no state |
| `HandoffPlan` | timing, halt gate, alignment, hops, clocks, meals, weather | functions |
| `StopCatalog` | the handlers of a stop, one call per action | component |
| `MC*` | - | instances for TLC; `MCWebClient`, `MCPages` and `MCGateway` put components together |

### DeferredPlacer

`rows` is the orders table (`status`, `swiggyOrderId` as `sid`,
`placeAttempts`, and `due` for `autoPlaceAt <= now`); `tick` holds the local
variables of each running tick: the rows it selected (`todo`), the one it works
on, the `placeAttempts` it read (`seen`) and Swiggy's answer (`got`).
`issued` and `upstream` are what Swiggy has accepted, with two ghost fields: the
tick that placed it, and `unacked`, set when the placer never received, or lost,
the answer. Times are abstracted to `due`: the back-off of 15 s or 60 s per
attempt makes it false and `BecomeDue` makes it true again. `NoToken` stands for
the two early exits (payload, token); `HoldForGate` and `PassGate` for the
halt gate, whose numbers are an input. A tick is started by the interval or by
the admin whenever there is a slot: nothing in the code waits for the previous
one. `todo` is a set; the database's row order is not relied on.

The five outcomes of a place call (`Accepted`, `LoseReply`, `Recovered`,
`Rejected`, `Throw`) are those of `PlaceCall`, and `ImplementsPlaceCall` shows
that the client has no others, and that each call comes to one (`CallsEnd`).

### SwiggyClient and PlaceCall

`call[c]` is where a call is in the attempt loop. An attempt succeeds, is
refused (HTTP 200 with a failure, or 4xx), is rate limited, fails with 5xx,
answers something that is not JSON, or raises. Only the last goes through
`probeRecentOrderId`. `placed` is the account's list of orders by the call they
are from, `blind` a ghost: how often a call was repeated although its last
attempt may have been executed and nobody had looked. That Swiggy may have executed an attempt whose answer was lost is a
choice in `MaybeExecuted`. A lost request that is executed after the client has
moved on is not modelled. The list is newest first, as the mock server in this
repository keeps it; hence the probe's answer is the newest order both when one
is younger than three minutes and when none is.

### OrderIntake

`cart` and `account` are Swiggy's side, after `apps/mock-swiggy/src/food.ts`:
a cart holds one restaurant's items, an update for the same restaurant adds,
placing takes whatever is there and empties it. `req` holds the POST handlers
(`hop` is the loop index of multi-hop), `placer` the tick at work on each row,
`move` the re-intercept handlers, `mode` the circumstances. A hop is a wanted delivery; `Kitchen`, `Dish`,
`Stop` and `Timing` say what it asks for. Prices, isochrone, timing and halt
gate are an input: a hop may be refused at each of these checks (`Refuse`) or
pass. The placer's retries, budget and overlap are `DeferredPlacer`'s. Of the
attempts of a place call, `SwiggyClient`'s subject, those that Swiggy executes are
steps: `RepeatPlace` and `RepeatQueued` for an attempt that the client repeats
(the reply was a 5xx, or lost with the probe failing too), `Place` and
`PlaceQueued` for the last one, whose reply may be a success without an orderId.
The id that the probe may take from another call is not in this module. `last`,
`own` and `seen` are ghosts: for which hop the cart was last filled, whether it was
for the hop that is placed, and how many orders there were when the request's guard
passed. The Instamart cart, coupons and address texts are left out.

### RiderDispatch and JobBoard

A request in progress is a slot of `Slots`, used by `user[h]`, which stays what
the initial state chose; the `pc` is the next statement. `claim` is four
statements (read, conditional update, read-back, presence), `release` and
`status` are read, write and `refreshPresenceFromJobs`, which is itself count,
read and write. The admin's copy of that code differs: it writes also when
nothing changed. Two ghosts: `told` says who was answered that he has the
delivery and has not asked to release it, `crashed` that a restart has cut
requests short. `Quiet` says that the admin keeps out and that no rider sends
two requests at a time. Under the refinement mapping the `JobBoard`'s `owner` is
`riderId` and its `told` is `told` as long as it is quiet; a portal that is not
quiet maps to an empty board, which says nothing of it.

### TrackingPoller

A chain is a timer, the callback it starts and the timer that follows.
`registry[o]` is `activePollers`. `Schedule` clears the registered handle, which
stops a timer but not a callback that runs. `normalizeTracking` keeps a status
only if it is an active one. Locations, ETA and the alignment score are left
out. `stopPolling` has no caller and `bootstrapPolling` resumes nothing, so
after a restart (`Crash`) tracking begins with the next `Track`.

### AuthSessions and WebSession

`signIn` holds the login and callback handlers, `flow` the map of pending PKCE
flows with its timer, `session` the one token of each user and `owner` a ghost:
whose token it is. Tokens are numbered in the order they are issued. A callback
takes its flow out of the map before it exchanges the code, so `exchanged`
counts what a second callback, the timer or a restart may do.

`WebSession` puts tabs (`Clients`) over it: `store` is the auth store of each,
`rbToken` and `persisted` the two copies in localStorage that all tabs share,
`asking` the requests GET /auth/me in flight with the token they were sent with,
`leaving` a logout under way. Each `set()` of a tab's store persists that tab's token,
also one that brings none: `HintsAnswered` is the login page's list of accounts
(`loadPortalHints`). The gates are operators: where `RequireRole` and
the login page send a store. `faults` says which hazards a behaviour has:
restart, revocation, expiry, answers out of order, an unreachable API, a link
that brings a token.

### Checkout

`cart` is the persisted store, `menu` and `checkout` the state of the two pages,
`menuAsked`, `previewAsked` and `planAsked` the requests in flight with what they
were asked about, `posts` the POSTs under way, each with what was `shown` when its
address was confirmed, what was `sent` (a hop-by-hop order goes `to` the best
stops, not to the confirmed one), and whether the page that sent it is still
`here`. Nothing but `CanPlace` keeps a second POST away: `placing` is the page's and
gone with it, `orderLoading` is the store's, raised by single orders and by the
lists of orders (`fetching`), and reset by the answer to either. `bought` and
`again` are ghosts: the cart, as it is, has been ordered, and was when a POST was
sent. A line is an item in one variant; prices and texts are left out. `habits`
says what the customer does while he waits: edit, leave the page (for the orders
list too: look), reload, lose an answer. Swiggy's cart is `OrderIntake`'s and
`StopCatalog`'s.

### RiderConsole

`job` and `duty` are the server's; its handlers are one step each, since their
statements interleave in `RiderDispatch`. `lists`, `selected`, `detail`, `online`
and `busy` are the page's, `calls` its requests. An answer and the effects it
triggers are one step. `calm` says that the rider waits for answers, `others`
that other riders and the customer act on the same jobs.

### LiveTracking, JourneyPlanner, AddressField, AdminConsole

`LiveTracking`: `timers` are the intervals that run, `poll` the one the store
knows; `snapshot` and `tracks` carry the order they are about; `patches` are
telemetry handlers, which read, merge and write `trip`. `choice` is a ghost: what
the customer last chose.

`JourneyPlanner`: a text and a place are words; two words may resolve too near
each other. `submits` are the form's submissions with the requests they make,
`journeys` the rows, inserted before their stops. `shown` is a ghost: what stood
in the form. `tidy` says that the customer waits for a submission, `patient` that
he does not go back to the stops while they load.

`AddressField` details the form's fields: each of its steps on the text and the
places is one of `JourneyPlanner`'s, together with the effects that React runs
after it. `kind` is what a field has become once the Maps script is there or not,
`due` its timer, `fetches` its requests (`live` until they are cancelled), and
`offers` its suggestions with the text and the anchor they were asked with.

`AdminConsole`: `feeds` are the eight lists asked together (orders and users are
kept, the six others change nothing else), each with the filter it was asked
with; `requests` are the edits, each followed by a refresh with the filter of
the moment it was pressed.

### RateLimit, MapsGateway

`RateLimit` counts in units (a token is `Window` units, a tick refills `Limit`),
so that fractions are exact; Redis is a counter and its time to live, in three
commands any of which may fail. `told` and `granted` are ghosts for the two
promises. `MapsGateway` describes each function of a client by a *plan*: whether
it reads the cache, which services it asks, how often and after which errors,
what becomes of a failure. One behaviour serves the plans that share one cache.
`recent` is a reference list of what was stored and used, the cache (`held`) is
the code's map in insertion order.

### InterceptSearch, TrainJourney, StopOrder, HandoffPlan, StopCatalog

`InterceptSearch` and `TrainJourney` run one analysis, await by await, on a grid
of 100 m; what services say is an input per point, including nothing. The score
is computed exactly and rounded as the code does. The heap holds the places of
the items in their list, and `bubbleUp`, `bubbleDown`, `selectTopK` and the other
loops are recursive functions over the turns of the loop, so that they can be
reasoned about (section 5). `StopOrder` runs the chain of solvers; its reference is
the best of all orders. `HandoffPlan` is one question and its answer, checked against a definition of what the answer has to be.
`StopCatalog` writes each handler as the list of its calls with the statuses it
answers with when one fails, so that the actions are few and the handlers many.

### Scenes and modes

Components that share no state are put into one run: an initial state is about
one of them (`scene`), and the others stand still. What a behaviour may do (which
faults, how a person behaves, how many of them) is a `mode` record, chosen in
the initial state and never changed. A property that needs circumstances names
them; the instances include modes in which each premise holds and modes in
which it does not.

## 3. Runs

All runs are exhaustive within their bounds. `CHECK_DEADLOCK FALSE` is set for
`DeferredPlacer`, `SwiggyClient`, `OrderIntake`, `MCPages` and `MCGateway`: there
the system may stop, when every row is settled, every call has ended, every
request or question is answered, or a bound on what people do is reached.

| Run | Instance | What it shows |
|---|---|---|
| `deferred_faults` | one row, two overlapping ticks, DELETE, all faults | no acknowledged placement is forgotten; duplicates come only from an overlap or a lost answer; a stale selection never reopens a settled row |
| `deferred_serial` | two rows, one tick at a time, all faults, fair ticks | the table agrees with what Swiggy answered; once faults end, every queued row ends |
| `deferred_overlap_dup` | one row, two ticks, no fault | violation: a row is ordered twice (FR-6.4) |
| `client` | two calls, five attempts each, an account with or without an older order, all faults | callers see only the outcomes of `PlaceCall` and each call comes to one; each surplus execution follows a blind repetition |
| `intake` | a two-hop and a one-hop request, the placer, previews, re-intercepts; four sets of circumstances | acknowledged orders are recorded; a second immediate order in the guard's window comes from a repeated place call or an overlap; other items than the hop's own come from another user of the cart |
| `intake_multi_hop` | the same requests, all "now", no fault | violation: hop 2 is refused as a duplicate of hop 1 |
| `dispatch` | two deliveries, two requests in progress, restarts; two riders, rider and customer, rider and admin | implements `JobBoard`; statuses follow the table; no rider with jobs is shown free |
| `poller` | two orders, three chains, failing calls, raised callbacks, restarts, fair chains | one chain per order, registered; once faults end rows catch up and tracking ends |
| `poller_delivered` | one order, no fault | violation: "delivered" is never written and polling never ends |
| `web_client` | scenes: two tabs or one tab with two sign-ins and each fault; seven ways to buy; two jobs, one or none, with and without others | sessions: one exchange per flow, a settled tab shows its token's user, no redirect loop; checkout: what was shown is ordered, and the button keeps a second POST of the cart away; console: buttons act on what they describe, positions are sent exactly on duty |
| `pages` | scenes: two orders with their journeys; three words, two edits, two journeys; the fields of the form with each kind of customer; one order and two accounts, two refreshes and two presses | sharing switched off stays off; journeys are as typed and stops theirs; suggestions are for the text and the other place (`FormMeansWhatItShows`); the tracking page and the administrator's lists come to show what they are about |
| `gateway` | scenes: limiter, caches, search, train, tour, handoff, catalog | the limiter's two promises; caches hold what they say; chosen places are good; plans and catalog answers are sound whatever fails |

The four large runs visit about 3,220,000 (`web_client`), 3,290,000 (`intake`), 606,000
(`pages`) and 672,000 (`gateway`) states.

A run that ends in a violation checks one statement of a document or comment
against the code; `findings` in `PROJECT.json` quotes it.

Where a property needs circumstances that another does not, the circumstances
are part of the state (`mode` in `OrderIntake`, `user` in `RiderDispatch`),
chosen in the initial state and never changed, and the property names the ones
it is about. The instances include circumstances in which each premise holds.

**Bounds.** `MaxSid` bounds the orders an account receives: 3 for one row with
two ticks, 2 for two rows with one, 3 for three hops; 11 in `client`, which no
behaviour of two calls with five attempts exceeds. `AttemptCap` saturates the
attempts at the value above which the code no longer tells them apart;
`MAX_ATTEMPTS` is 2 for the placer (a first and a last attempt exist) and 5, its
real value, for the client. Two ticks, two calls, two requests and two slots
are enough for every race of two handlers. `Chains` is three for two orders, so
that a surplus chain could exist. `Patched` and `ForcedStatuses` restrict what
the admin does to one delivery and to cancelling, assigning and clearing it.
In `web_client` two tabs, two sign-in slots, two tokens and two questions in
flight make every overtaking possible that two answers can have; two jobs, two
pieces of an item and two hops make the lists and plans that differ. The rider who
does not wait has no job in the run: both properties of the console are about one who
does, and the types are proved for every rider. In `pages`
two orders, three words and two of everything a person does are what a late
answer needs to be about something else; one position (`MaxFix`) is enough to
race with one switch. In `gateway` the limit is 2 requests in 9 ticks, three ticks
to a second, so that fractions of a token and of a second occur; the cache holds
two keys of three; the route has a bend, so that spacing is measured around it;
tours have 0, 2 or 3 stops with `LocalLimit` 2, so that both local solvers run.
Symmetry is used in `deferred_faults` (rows and ticks) and `gateway` (callers and
arguments of the clients), which no definition tells apart.

**Fairness.** `DeferredPlacer`: weak fairness of `BecomeDue` (time passes), of
`StartTick` (the interval is never cleared) and of a tick's own steps (every
await resumes, since `fetch` and the database answer or raise).
`TrackingPoller`: weak fairness of each chain (a timer fires, a call returns).
`SwiggyClient`: weak fairness of each call (an attempt is answered or fails,
a sleep ends). `LiveTracking`: the interval fires again and again (weak), an asked
request is answered or fails (weak), and of requests sent again and again some
reach the server and some answers arrive (strong: without it the network may be
down for ever). `AdminConsole`: the interval fires, requests are served, answers
are handled (weak). Nothing is assumed of users or of Swiggy's progress. The
liveness properties of the placer and the poller are conditional: they speak of
behaviours in which faults come to an end, because under a token that is missing
for ever, or a call that raises for ever, the code does loop for ever. The
client's needs no such condition. `TrackingEnds` is for an order that is over
for both sides, because the poller alone never ends a chain
(`poller_delivered`).

## 4. Known deviations

Reading the code against its documents and comments shows more disagreements
than the three that are runs. The modules contain each of them as a behaviour,
and the properties are stated with the conditions under which they hold because
of them.

* `deferred-placer.ts:185`: a successful place is written back by id, so an order
  cancelled meanwhile becomes confirmed again (`PlacedRowLooksPlaced` allows
  both). `poller.ts:151` does the same with a late answer.
* `deferred-placer.ts:173`: only a refused place call compares the attempts with
  `MAX_ATTEMPTS`; raised calls and missing tokens are retried without end
  (`QueuedRowSettles` assumes that faults end).
* `client.ts:126`: a 5xx answer to a place call is repeated without the probe;
  `client.ts:159`: the probe answers with the newest order of the account,
  whoever placed it and however old it is when none is recent, so the id may be
  foreign and two calls may share one (`blind`, `Recovered` of `PlaceCall`).
* `client.ts:70`: the sleeps of repeated 429s add up; the constant
  `RATE_LIMIT_BUDGET_S` is not used.
* `placement.ts:64`: two overlapping POSTs of one order both pass the guard, and one
  place call may be executed twice (`OneImmediateOrder` says that there is no
  third way). `placement.ts:250`: a reply without an orderId is inserted as
  confirmed, with no id to track it by.
* `placement.ts:90`: the cart is not flushed, and the result of updating it is not
  looked at: a queued hop's items end up in the next order at the same
  restaurant, and after a refused update, or after the placer, a preview or a
  re-intercept of the same account came in between, another cart is ordered. A
  place call that is repeated after its execution orders the empty cart
  (`OrderHasItsItems` names these ways).
* `orders.ts:350`: re-intercept moves a queued order's row, not the queued address.
* `rider.ts:489`: the release names the delivery but not the rider who was
  checked, so a repeated release clears the next rider's claim (`Quiet`).
* `rider.ts:609`: of two statuses that one rider sends at a time the second is
  written over the first without a look at the table; `rider.ts:229`: his presence
  is counted before and written after what another of his requests does (`Quiet`).
* `orders.ts:418`: DELETE cancels an order that has left "pending" and "confirmed"
  after it was checked (`StatusFollowsTable` allows every status to become cancelled, and a cancelled
  one to become any, as a status checked before the cancellation does).
* `admin.ts:297`: an assignment, a forced status and a rider's going online
  interleave so that he is online with an active job (`FreeHasNoJobs` is about
  a quiet portal).

Sessions and pages:

* `stores/auth.ts:115`: an answer to GET /auth/me is not compared with the token
  the store holds by then; answers that overtake each other, a link that brings
  a token, or an unreachable API after a callback leave the earlier user
  (`SettledUserOwnsToken` excepts them).
* `RequireRole.tsx:36` and `Login.tsx`: with the API unreachable right after a
  portal login the two gates refer a tab to each other for ever
  (`NoRedirectLoop` excepts it). Two tabs share `rb_token` and `rb_auth`; a
  logout request may be lost, the token then stays valid at the server.
* `auth.ts:161`: each sign-in through Swiggy hashes a fresh access token, so the
  same person gets a new row each time.
* `Menu.tsx`: a menu or dish search answered late is shown under the kitchen
  selected meanwhile; food stays in the cart on the Instamart page.
  `Order.tsx`: the `finally` of an older preview ends the loading of a newer one,
  a hop plan of an older cart is placed, hops lose variants and add-ons; a
  multi-hop order does not raise `orderLoading`, and fetching the orders resets
  it: leaving the page during a multi-hop order, or for the list of orders, lets
  the cart be ordered again, as a reload or a lost answer do (`ButtonHolds`). The
  hops go to the journey's best stops, whichever stop the page is for and its
  address was confirmed. The documents promise a cart that is
  cleared or revalidated when the stop changes, and one cart for each server
  (`user-stories.md:82,113,195`); the store does neither.
* `RiderDashboard.tsx:211`: a late or failed detail leaves another job's under the
  buttons (`calm`, `others`).
* `stores/tracking.ts`: one snapshot for all orders; an error hides the data. A
  position under way when sharing is switched off brings it back
  (`SwitchedOffStaysOff` is about a customer who waits), and two telemetry
  updates of one journey lose one of them.
* `QuickRouteForm.tsx:121`: typing while a text is resolved attaches the older
  text's place; a second submission is possible while the first resolves
  (`tidy`). Who goes to the stops and back while they load has several loads under
  way; the first answer ends `loading` for all, and a late one puts an earlier
  journey's stops under the one submitted since (`stores/journey.ts:148`;
  `patient`). The selected stop survives a new journey, and `placement.ts:40` checks
  the stop and the journey separately. An unanswered telemetry update puts an
  older journey back into the store. `PlaceAutocompleteInput.tsx:263`: an answer opens
  the list also of a field nobody is in, on mount and after each pick; a Maps
  script that failed is not loaded again until the page is (`google-maps-loader.ts`);
  what is typed in Google's own element never reaches the form. A failed second insert of analyze leaves a
  journey without stops.
* `AdminDashboard.tsx`: rows of an earlier filter may be shown until the next poll;
  one `busy` is freed by another action; an assignment is offered for a finished
  order; an administrator can revoke his own session.

Services:

* `redis-store.ts:22`: a failed EXPIRE leaves a counter that never ends; with
  overlapping calls TTL may be read as -1, and the client is told to wait one
  second (`RetryAfterIsEnough` excepts both). Redis rounds the TTL to the nearest
  second (`redis-store.ts:27`), so a client may be told up to half a second too
  little; `RetryAfterIsEnough` allows for that half second.
* Maps: routes with a departure time are stored but never read back; a heuristic
  count of restaurants is cached like a real one; `getSpeedLimits` sorts its
  caller's array. NTES: a session once warmed is never warmed again.
* Search: cells of the grid are sized in degrees of latitude
  (`geohash-grid.ts:38`), so from east to west a cell is only 0.88 of an interval
  wide (28 degrees north): of two points 0.88 to 1 interval apart one may be two
  columns from the other, and `hasWithin` misses it. With the constants of
  `packages/shared/src/constants.ts` the chosen points are never compared by the
  grid (a pool of 50, a threshold of 100), only the fallback points of a route with
  more than 100 marked candidates are; `GridAssumption` and `StationsAssumption` say so,
  and `GridIsExact` shows that on the model's resolution up to 8 units the grid
  misses nothing. The second score is not followed by a second ranking; snapping to a
  road may undo the spacing; `isochroneOk` is true when only the walk worked; a
  halt below about 34 minutes clamps the rider's budget to 480 s.
* Tours: the greedy solver leaves stops out that the matrix has no route to; the
  legs reported are navigation steps.
* Trains: a time without a date is one of the start day, so stations past midnight
  count as passed, and an earlier station may have a later time than the last, after
  which the journey is said to end (`TrainPlanIsSound` excepts such runs); the platform bonus is lost at the second score; a train that
  runs the other way is accepted with the ends exchanged; of two stations with
  one code the later wins.
* Catalog: a stored area without a polygon is recomputed on each request and never
  replaced; two requests at a time may overwrite a full area with a walk only;
  deepened areas are not stored; a preview ignores a refused cart update, and
  overlapping previews share one Swiggy cart. Thunder without precipitation
  gives no advisory.

## 5. Theorems

`tlapm` checks them for every value of the constants, under the named
assumptions of the modules: `PlacerAssumption`, `DispatchAssumption` (the special
values are different from each other and from the riders),
`ClientAssumption`, `PollerAssumption`, `AuthAssumption`, and `IntakeAssumption`,
which says among others that each hop is wanted once: a hop stands for one
delivery asked for, and two requests for the same food are two hops. Those of
the pages (`SessionAssumption`, `CheckoutAssumption`, `ConsoleAssumption`,
`TrackAssumption`, `PlanAssumption`, `FieldAssumption`, `AdminAssumption`) give the
constants their types: finitely many lines of a cart, bounds that are numbers,
"no job" that is not a job, modes that are modes. Of those of the services
`RateLimitAssumption` gives the limit, the window and the resolution of time their
types, `HandoffAssumption` the arguments of a question theirs, `TourAssumption` says that the matrix covers
every pair of waypoints and that times are not negative, `SearchAssumption`,
`AnalysesAssumption`, `AnswersAssumption` and `RunsAssumption` give routes, answers and
train runs their types, `GridAssumption` and `StationsAssumption` say that the grid is
not used for the points chosen or compares all that are too close (with the
code's constants it is not used), `GatewayAssumption`
says that a token lives longer than the longest call waits for one, and
`KitchensAssumption`, `ErrandsAssumption` and `ZonesAssumption` type the kitchens,
the requests and the stored areas and say two things about data from outside: the
maps service knows no ride of over four hours to a kitchen at the stop, and the
analysis stores areas of the whole halt. The bounds of the runs are constants too, so what is proved holds for
each of them.

**DeferredPlacer_proofs.**
* `TypeCorrect`: `TypeOK`, through `TypeInv`, which adds that a tick in the
  middle of a row knows which row and that every issued order has a real origin.
* `AckedLocated`, `DuplicatesAccounted`: through `Ledger`. Neither property is
  inductive: that no tick acknowledges a second order for a row it placed needs
  to know that, while a tick is between its read and its write, no
  acknowledged order of its own for that row exists unless the row says so. The
  invariant says where each acknowledged order is.
* `SettledFinal`: an action property; by cases on the step, a tick that is not
  working on a row can only select or skip it, and it takes the row only if it
  is still pending.
* `SerialPlacedLooksPlaced`, `SerialRecorded`: under `Serial` (there is one tick
  slot) the row a tick works on has no orderId, so its write-back never hides
  another order.

**RiderDispatch_proofs.**
* `DispatchTypes`: through `LocalInv`, which adds to `TypeOK` what the statements
  of one request hand to each other: who sends it and which order, status or
  rider it is about.
* `ClaimsNeverSteal`: an action property. Three statements write a rider: the
  claim only where there is none, the release only none, and the admin's update
  the one it names.
* `PortalIsJobBoard`: the refinement. Every initial state is an empty board, and
  every step is one of the board's or a stutter, by `HolderInv`: while it is
  quiet, a claim that has won and a release that has been checked still find
  their rider in the row when they go on, and who was told that he has the
  delivery is who has it. The two conditions of `Quiet` are used in two places:
  that another request in progress is another rider's (`OneSlot`), and that the
  admin's statements are not enabled.
* `StatusesFollowTable` (an action property) and `FreeRidersHaveNoJobs`: through
  `DutyInv`. A status is read in one statement and written in a later one, so
  the invariant says that in between the rider still holds the delivery and the
  table still allows the status, or it was cancelled, which is why a cancelled
  delivery may be moved anywhere. Presence is counted, read
  and written in three: whoever has counted no jobs has none until he has
  written, and a rider shown free has none but what his own claim has just won.

**OrderIntake_proofs.**
* `TypeCorrect`: for any requests, plans, kitchens and circumstances.
* `OneNow`: the guard decides long before the order exists, and the client may
  execute one place call several times, so the property needs five facts: a request
  that is being served is at a hop of its plan (`OnPlan`), the placer works on queued
  hops only (`OnlyQueued`), the customer who waits has one request in progress
  (`OneAtATime`), what a guard has seen is there (`SeenSoFar`), and a request that
  has passed the guard and not been answered finds in the window only orders that
  came after it did, which for the customer who waits are unanswered executions
  of its own place call (`WindowIsClear`).
* `AckedRecorded`: through `Book`: of each hop, no row exists before its handler
  has come to it (`Ahead`), and an acknowledged order of the hop is with the
  handler that will insert it, in its row, or with the tick that will write it
  (`Held`).
* `ItemsAsWanted`, under `KitchensApart` (no two hops are from one kitchen with
  different dishes): through `CartInv` and `OwnItems`. What is in the shared cart is
  of the hop whose kitchen it names, whoever left it there, and the hop it was last
  filled for finds all it wants. When nobody else uses the cart (`QuietInv`) that is
  the hop being placed, until an attempt of its place call was executed.

**WebClient_proofs.** The sign-ins, and the three parts of `MCWebClient`, each against its own
specification, and `PartsAreThemselves`: in the composition each part behaves as
it does alone, so every result holds there (`WebIsTyped` is put together this
way).
* Sign-ins: `SessionsAreTyped`, and `ExchangedOnce` through `FlowInv`: a flow in the
  map is in nobody's hands, and one in a handler's hands is in one handler's and
  has not been exchanged.
* Console: `ConsoleIsTyped`. `SharesWhileOnDuty` through `ConsoleInv`: only the
  request in front of a calm rider's list is served (`InOrder`), and as long as
  the presence shown is not the server's, an answer or a refresh that brings it
  is under way (`DutyTold`). `ControlsAreOfSelected` through `ShownInv`: of the
  details under way the last is the selected job's (`Showing`), and a job that an
  answer will select again is still selected and still the rider's by then
  (`SelectedStays`).
* Checkout: `CheckoutIsTyped`. `CartOrderedOnce` through `OnceInv`: a cart
  counts as ordered only because of the one POST under way (`OneUnderWay`), and as
  long as there is one, the button is off, by `placing` on a page that is never left
  and by `orderLoading` wherever else there is a button; nothing lowers either
  before the answer, because no list of orders is being fetched. `OrderIsAsShown`
  through five parts: requests do not outlive their page (`AwayInv`), dishes on
  show are of the cart's kitchen (`MenuInv`), the preview and the hop plan are of
  the cart as it is, or such a one is waited for (`PreviewInv`, `PlanInv`), and the
  cart holds what its kitchen sells (`FoodInv`). Pieces are counted as the
  cardinality of a set, not by a sum, so that they can be reasoned about.
* Session: `SessionIsTyped`; `SettledTabOwnsToken` and `GatesAgree` through
  `ServerInv` (a stored or answered token was issued to its account, and keeps
  its owner), `TabsInv` (an answer in flight names the owner of the token it was
  asked with; while answers keep their order the last question is about the
  token of the store; only a session that was denied is in error) and
  `BrowserInv` (localStorage holds issued tokens).

**Pages_proofs.** Over the specification of `MCPages`, by one invariant per page
(`PagesInv`): a step of one scene leaves the pages of the others alone.
* `PagesAreTyped`: the conjunction of the types.
* `SharingStaysOff` through `OffStays`: everything under way is of the order on the
  page and served in the order it was sent (`CalmInv`), what the page will be told
  last is what the server has (`FreshInv`), and from what is shown over the answers
  under way to the server sharing only ever goes off (`OffInv`).
* `FormIsMeant` through `PlanKnown` and `TypedInv` (a submission's places are those
  of the text it was made with), `FieldInv` (offers and questions belong to the
  text and the anchor they were asked with) and `FitInv` (two places picked from
  such offers can be joined).
* `StopsBelong` through `StopsInv`: who waits has one load of stops under way at
  most, for the journey of the store, and none while he plans another.

**Gateway_proofs, Handoff_proofs, Places_proofs.** Each result is about a
component's own specification (`LimitSpec`, `GatewaySpec`, the poller's `Spec`;
`CatalogSpec`, `HandoffSpec`, the client's `Spec`; `SearchSpec`, `TrainSpec`, `TourSpec`
and `PlacesSpec`, which puts these three together). `ScenesAreThemselves`: a scene of
`MCGateway` takes the steps of one of them and leaves the variables of the others
alone, so each of these results, but those on the poller and the client, which have
runs of their own, holds there, as `PlacesStayChosenWell` shows for the places.
* Poller: `TypeCorrect`, and `OneChainPerOrder`: through `Linked`, which says that the
  registry and the chains point at each other: a timer that waits is the one
  registered for its order.
* Limiter: `LimiterIsTyped`. `TheLimiterKeepsItsWord` through `LimitInv`. That no
  window has more than twice the limit is not inductive. In memory, `MemoryBook`
  bounds the grants of the last k ticks, for every k, by a full bucket and k
  ticks' refill less what the bucket holds. In Redis, `RedisBook` says which
  counter the grants of a window were counted by: the present one or at most one
  before it. `CalmInv` relates the wait a client was told to what its bucket or
  counter lacks (`WaitHolds`); for Redis it needs that requests do not overlap and
  no command fails, which the property says. Grants are counted as the cardinality of a set of
  pairs, not by a sum.
* Caches: `GatewayIsTyped`. `TheCachesKeepTheirWord` through `CacheBook` and `Lru`:
  whatever stands behind a key in the map was used after it, so the key that a
  full cache gives up is none of the `Capacity` used last. `GoodCall` is the
  invariant of a call: only a service with another to fall back to asks for a
  token, and the token it gets outlives the call.
* Client: `TypeCorrect` (the client's `TypeOK`), and `ExecutedOnce`: for each call, `Fits`
  relates its place in the attempt loop, the executions seen and the blind
  repetitions: one execution more than blind repetitions is possible only when
  the last attempt may have been executed, or has ended well.
  `ClientIsPlaceCall`: the safety part of the refinement of `PlaceCall`. With
  `OpenInv` (a call that has not ended has no result) each step of an attempt is
  an order the caller does not hear of, hidden from him, or one of the four ways in
  which a call ends. That each call does end is left to the run.
* Catalog: `TheCatalogKeepsItsWord`. `Serve` says that a request is new, refused, or
  at a place of its handler, and `Knows` what it has learnt by that place: the
  area that will be stored is that of the whole halt if none was (`Keeps`), who
  ranks has an area (`Lists`), a cart that a preview filled holds a preview of its
  account (`Shows`), and nothing is found where nothing was asked (`Covers`).
  `RankIsHelpful` needs that the handler's order of the kitchens exists:
  `CanBeListed`, for any finite set and strict total order, by counting the
  elements below each.
* Plans: `PlansAreTold`, one lemma per question (`CartsAreSplit`,
  `KitchensAreListed`, `RichestIsSuggested`, `FurtherLooksWorse`, ...). A sum, a
  selection and the packing of hops are recursive functions over the places of a
  list. `LoopIs` shows that such a function has the values of a loop (`Loops`),
  `LoopsAgree` that two loops over lists with a common beginning agree on it, both
  from `StepByStep` (a least counterexample) where an induction theorem would take
  an operator. So a line more adds its total (`SubtotalGrows`), the joined hops grow
  by one line (`FlatLengthens`), and `PackedKeeps` is the step of the invariant
  `GoodHops`: no hop is empty, above the cap, or could have taken the next line.
* Tours: `ToursAreOrdered`, that the orders of `StopOrder` are sound
  (`ToursAreSound`), through `TourInv`. The solver compares orders by a sum, the
  property by how long they take, as the cardinality of a set; `SecondsAdd`
  relates them, and it needs that no leg comes twice. The nearest-first search
  stays among `Walks`, orders from the origin that come to no stop twice
  (`VisitIs`); a walk that is as long as there are stops is at all of them
  (`LongWalk`), and a shorter one has ended where no stop left can be reached.
* Choice: `HeapSorts`, that for every list and every k the k points selected through
  the heap are worth what the first k of the sorted list are. `SortIs` counts who
  stands before whom (`RanksAre`). A heap in which only the item at `index` may be
  less than its parent (`Rising`), or more than its children (`Sinking`), is one
  after a turn too, with the index halved or doubled, or it is in order (`RiseIs`,
  `SinkIs`); so a loop that takes as many turns as there are items leaves it in order.
  The root is then the worst (`RootIs`), and offering one item more keeps the k best
  of those seen (`OfferIs`). Two lists of k of the best are worth the same, because
  k + 1 items are not among k (`NoSqueeze`, `TopIsSame`). `ChoiceIs` adds the
  spacing: whoever is not taken crowds a better point (`SpacedIs`, over `GridIsExact`).
* Search: `PointsAreWellChosen` through `SearchInv`: the candidates of each stage are
  `Cands`, on the route (`CandidatesAre`: a way along a route grows leg by leg, and
  a projection stays on its leg), with scores from 0 to 100 once they are rated
  (`ScoresAre`, from the bound of each share), and `EmptyIsWorse`: an area without a
  restaurant does not raise a score.
* Trains: `StationsAreWellChosen` through `TrainInv`: the window is a stretch of the
  run (`WindowIs`), the points offered are stations of it to be handed over at, each
  with its number and time (`Offers`), reached before the ride ends (`InTime`), and
  the index by code finds the same station unless the train comes there twice
  (`FoundByName`). Choosing among them is `ChoiceIs` again. `PlacesAreChosenWell`
  puts points, stations and tours together.

**What the proofs found.** An invariant that is not inductive was a question to the
model each time. `StopsAreOfJourney` held in its run only because the bounds
ended a behaviour before two loads of stops and a second submission could meet;
with larger ones TLC shows the late load, and the property now names the
customer it is about (`patient`; section 4). In `RiderConsole` a status for a job
that is over was accepted, by a misplaced implication: the guard now is the
table's. The invariants of `Pages_proofs` were also checked by TLC with three
questions, journeys and edits (8.9 million states) before they were proved.
`RetryAfterIsEnough` held in its run only because there were two ticks to a
second; the proof failed at Redis' rounded TTL, three ticks show the half second
that is missing (section 4), and the run now has three. The token of a maps call
is good when it is used only because tokens outlive the longest wait for one
(`GatewayAssumption`: a token call is given up after 0.8 s or 2 s). A list of kitchens
without a polygon is in order only because the 15,000 points that separate
inside from outside (`order/restaurant-rank.ts`) exceed every ride time, which
`KitchensAssumption` bounds: the code does not. `TrainPlanIsSound` said at first that
the stations offered are reached before the journey ends; the proof failed where a
station's time is after that of the traveller's last one, which times without a
date bring about, and the property now excepts such runs (section 4).

**Only model-checked**: liveness and `ENABLED`, and with them that each place
call ends (`ImplementsPlaceCall`), `QueuedRowSettles`, `StatusCatchesUp`,
`TrackingEnds`, `PageShowsItsOrder` and `AdminCatchesUp`. Every safety property of
the runs that pass is stated by a theorem. A theorem holds for the model's grid and whole
seconds, not for the real numbers of the code.

## 6. Not modelled

* `buildJourneyCorridor` and `optimizeRiderPickups` (the latter has no caller): they
  assemble answers of services that are modelled where they are called.
* GET /swiggy/status, GET /swiggy/addresses, GET /routes, the order history and the
  tracking history of pings: reads and writes nothing decides by.
* The Orders page (a list answered before a cancel may bring the cancelled order
  back until the next refresh) is left for later; the coverage probe of Intercepts.tsx, the map and
  all visual components have no state beyond one request each.
* Eviction of limiter buckets beyond 10,000 clients: the cache is in `MapsGateway`;
  an evicted client starts with a full bucket.
* An order's Instamart cart in `OrderIntake`; back-off delays and the JSON-RPC
  envelope of the client; the encryption of NTES requests and the parsing of texts.
* Distances, prices and times as real numbers: exact on a grid, whole seconds, or
  an input where only the outcome of a check matters.
* Middleware for headers and logging, migrations, the other tools of the mock
  server, deployment scripts: no protocol.

The status of every component is in `PROJECT.json`.

## 7. Plan

1. Done: the placer, its client, intake, dispatch, the poller, the sessions, the
   pages over them, and the services around an order.
2. Done: the safety properties of the runs over the orders, the sessions and the
   pages, and of the limiter, the caches, the catalog of a stop, the plans of a
   handoff and the places offered for it, proved for every instance.
3. Next to model: one `orders` row with placer, poller, riders and DELETE together,
   against an abstract lifecycle; the Orders page; the Instamart cart in
  `OrderIntake`.
