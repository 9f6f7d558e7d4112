# Mesyaf Market, specified and checked

This directory holds TLA+ specifications of the market's backend (NestJS, Prisma
on PostgreSQL, BullMQ and a cache on Redis, Socket.IO). They are three systems of
modules, which share no variable:

- **fulfilment**: how an order becomes ready, is batched, assigned to a deliverer,
  delivered, and recovered when something is lost;
- **realtime**: what the event log records of that, and what a customer, vendor or
  deliverer learns of it over connections that break and come back;
- **storefront**: the rate limiter every request passes, and the cached product
  catalogue behind it.

All are checked with TLC on small instances; their safety properties are also proved with
TLAPS for every size. The first two describe the same changes of an order, once with
the concurrency of the changes and once with what is recorded and sent of them. The first
is shown to implement an abstract `OrderLifecycle` wherever no acceptance or rejection is
under way; with one, the code does not.

File references such as `order.service.ts:248` are to `src/src/`.

## The system and its parts

| Component | State it keeps | Operations | Interacts with |
|---|---|---|---|
| Order batching (`order/`) | `Order.status`, `deliveryBatchId`; `DeliveryBatch.status`, `createdAt`; delayed jobs | create, mark ready, close by size / timer / sweep / test endpoint | assignment queue |
| Vendor decisions (`vendor/vendor.service.ts`) | `Order.status` | accept, reject | the same rows as batching |
| Deliverer assignment (`deliverer/deliverer-assignment.*`) | `DeliveryJob`, `DeliveryDropOff`, `DeliveryBatch.delivererId`, `DelivererProfile.availability`, `activeJobId` | `assignDelivererToBatch`, called by the queue's worker and by the recovery sweep | presence, jobs |
| Delivery job (`deliverer/deliverer-job.service.ts`) | job, drop-offs, orders, batch, deliverer | start, complete drop-off, finish, requeue | assignment queue |
| Recovery (`common/decorators/recovery/`) | none of its own, a snapshot while it runs | recover unstarted job, escalate started job, requeue stuck batches | calls assignment directly |
| Presence and profile (`websocket/session.service.ts`, `deliverer.gateway.ts`, `deliverer.service.ts`, `admin.service.ts`) | `isOnline`, `lastSeenAt`, `availability`, the profile row | connect, disconnect, heartbeat, switch availability, remove | decides who can be assigned and who is stale |
| Event log, timelines (`common/events/`, `common/timeline/`) | `EventLog`, `OrderTimeline`, `JobTimeline` | record inside or outside a transaction, project | every request that changes an order or a job |
| Gateways, replay, context (`*.gateway.ts`, `websocket/`) | rooms and `client.data` of a socket, `isOnline`, `lastSeenAt` | handshake, disconnect, heartbeat, subscribe, send | event log, presence |
| Product catalogue and cache (`product/`) | `Product`, images, tags; Redis keys with a TTL | create, update, delete, decorate, cached reads | rate limiter before, shops beside |
| Shops (`vendor/`, `admin/`) | `VendorProfile.isActive`, `isVerified` | approve, suspend, toggle, reactivate, delete | what the catalogue may show |
| Rate limiting (`common/throttler/`, `redis.service.ts`) | Redis counters and blocks | increment | every HTTP request |
| Live positions | Redis keys with TTL, profile columns | update, read, flush | assignment |
| Accounts, infrastructure | single rows, or none | CRUD, start-up, logging | |

What is hard in it: requests, a queue worker, three cron jobs and sockets all
write the same five tables; a transaction and a queue cannot commit together; a
transaction may use data read before it began; cron runs can overlap; and most
recovery is by sweeps that act on what they read earlier. A handshake awaits the
database between its steps, while messages are sent to rooms it has or has not yet
joined. A cached read is three awaits long, and a write invalidates in several calls
after it has committed. There is no automated test suite in the repository.

What makes each part correct:

- **Batching**: an order is in one batch for good, batches are never duplicated,
  never exceed their size, hold one vendor, and are always closed.
- **Assignment, job, recovery**: job, batch and deliverer rows agree on who holds
  what; a started job is not taken away; a job finishes exactly when its last
  drop-off is done; an order's status follows its job; a closed batch finds a
  deliverer whatever was lost.
- **Presence**: only its effects on assignment and recovery matter here.
- **Event log**: the rows can be told from the log, whatever fails, up to decisions and
  recoveries, which are recorded after their change; the timelines follow the log.
- **Gateways**: a client that has its context misses nothing that is sent to its own room; a
  deliverer who comes back gets every event since he was last seen, unless another socket of
  his has meanwhile been seen.
- **Catalogue**: a cached answer goes stale in five ways only, and not for ever; what is
  withdrawn disappears.
- **Rate limiting**: a burst is counted exactly, and no client is limited for ever.

## Modules

| Module | Models |
|---|---|
| `MarketTables` | The shared state: tables `order`, `batch`, `job` (with its drop-offs), `deliverer`, `session`, the assignment `queue`, the `post`-commit steps a process still has to do, the `escalated` jobs, and `faults`, the count of crashes and lost calls |
| `OrderBatching` | `OrderService`, the timeout processor, and the vendor's accept and reject |
| `DelivererAssignment` | `assignDelivererToBatch` for the worker and the sweep: load, pick, claim, and every error |
| `DelivererJob` | `startJob`, `completeDropOff`, `finishJob`, `afterJobCompleted` |
| `DelivererRecovery` | the recovery sweep; extends `DelivererAssignment`, which it calls |
| `DelivererPresence` | sockets, heartbeats, the availability switch, removal of a profile |
| `Fulfilment` | the composition of the five, with PostgreSQL's row locks, fairness and all cross-component properties |
| `CourierClaim` | the abstract promise of dispatch: exclusive claims that are started and finished once |
| `OrderLifecycle` | the abstract life of an order, as its customer sees it: no stage is skipped once it is ready, none is taken back |
| `RateLimiter` | `RedisThrottlerStorage.increment`, command by command, and the expiry of its keys |
| `ProductCatalogue` | `ProductService` and its cache, and what changes a shop; extends `RateLimiter`, since a read belongs to an admitted request |
| `Storefront` | the composition: arrival, counting, reading, writing, expiry, crash; fairness and the properties |
| `EventLog` | `recordEvent` and the projections, and every request that records an event of an order or its job |
| `Gateways` | the three gateways with replay, session and reconnect services; extends `EventLog` |
| `Realtime` | the composition: requests, connections, failures; fairness and the properties |
| `MCOrderBatching`, `MCFulfilment`, `MCRealtime`, `MCStorefront` | instances for TLC |
| `OrderBatchingProofs`, `FulfilmentProofs`, `DeliveryProofs`, `LifecycleProofs`, `RealtimeProofs`, `StorefrontProofs` | theorems and proofs |

### How state and actions correspond to the code

- *Transactions.* A transaction whose interleaving matters is two steps: what it
  reads and locks (`ReadyBegin`, `BeginDropOff`), and its commit or abort
  (`ReadyCommit`/`ReadyAbort`, `CommitDropOff`/`AbortDropOff`). In `Fulfilment`,
  `ReadyLocks` and `StopLocks` forbid every other component to write a row that
  an open transaction has locked. Transactions whose condition is a single
  conditional update (`startJob`, the claim, the release of a job) are one step.
- *Reads outside transactions* are kept in the state of the process that made
  them: `decision` (status check of accept/reject), `asg[p]` (batch, orders and
  deliverer of a call of `assignDelivererToBatch`), `sweep[s].todo` (snapshot of the
  recovery sweep).
- *After the commit.* `post` holds what a request still has to do: `schedule` a
  timer, `close` a full batch, `enqueue` the assignment, `requeue` a stuck batch. A
  crash or a Redis error loses such a task (`LoseTask`), a timer (`LoseTimer`) or a
  queued job (`LoseTicket`).
- *Keys.* A batch is named by its rank of creation (the tables are ordered by
  `createdAt`); `DeliveryJob.batchId` is unique, so a job is named by its batch. The
  unique `activeJobId` and the foreign key to a deleted profile are part of
  `CanClaim`; `ON DELETE SET NULL` is part of `RemoveDeliverer`.
- *Time.* A batch has an age in four classes, those the code compares with:
  the minimum age of a stuck batch, `WINDOW_MIN`, `WINDOW_MIN + 1`. The presence window
  and the grace period are both two minutes, hence one Boolean `session[d].fresh`.
- *Queue.* A ticket is a batch with the attempts left; two equal tickets are
  merged. The worker (concurrency 1) takes a ticket and loads its batch in one step,
  since no one else looks at the queue.
- *Distance.* `Detour[o]` gives the batches whose orders would delay `o` too long. Which
  deliverer is closest is a free choice among the candidates.
- *Escalation.* `escalated` are the jobs with an `ESCALATED` event newer than their
  deliverer's `lastSeenAt`, so that a sign of life of the deliverer removes the job.
- *Redis commands.* Each `await` of `increment` and of a cached read is a step: EXISTS,
  INCR, EXPIRE, the decision; GET, the query, SET. `InvalidationFails` and `Crash` cut
  between them. `KeyExpires` and `HitsExpire` are Redis dropping a key; a counter
  without TTL (`hitsTtl` FALSE) never goes.
- *One of each.* `RateLimiter` has one tracker, route and named throttler: every such
  triple has its own keys. A list of products is one key per set of filters; the filters
  of a pattern do not interact, so that one key stands for all. `SCAN` finds the keys
  there are at that moment, each `DEL` is a step.
- *Requests that record.* In `EventLog` a transaction is one step (its concurrency is that of
  `OrderBatching` and `DelivererJob`). Accept and reject have none: `CheckDecision` is their
  query, `WriteDecision` the update by id, and anything may come between. What a request does after the change is visible
  is a sequence in `work`: `record`, `project`, `send`. A request whose event is in
  the transaction has only `send` left; accept, reject, recovery and escalation record
  afterwards.
- *Handshake.* `socket[s].at` is the next await of `handleConnection`, in the order of each
  gateway (`Handshake(role)`). A closed socket whose `client.data` is not set goes on
  (`open` FALSE), as in the code.
- *Ghosts.* `lacks`, `unread`, `outrun` and `cut` are read by no guard. They remember
  what a client has not been told, what replay still owes, whether another socket of the
  client set `lastSeenAt` before the replay was read, and what a failure swallowed.

## Runs

| Run | What it shows | Instance |
|---|---|---|
| `ordering` | batch size, one vendor per batch, no duplicate batch (the advisory lock), a full batch is being closed, the batch of an order is final | 5 orders of 2 shops, one with food, groceries that may not join it alone; 3 batches |
| `ordering_live` | an open batch is closed, whatever is lost | 3 orders, 2 batches, 2 faults |
| `dispatch` | the claims agree, a stuck batch can be claimed, a started job always has an open drop-off, is never reassigned, orders are completed by their own drop-off and stay so; the job table implements `CourierClaim` | 3 orders in 2 closed batches, 2 deliverers |
| `fulfilment` | the whole path: types, the inductive invariant, order status follows the job, and, with no decision under way, `Fulfilment` implements `OrderLifecycle` | 2 orders, 1 batch, 1 deliverer, 2 attempts, 1 fault |
| `progress` | a closed batch and a present, idle deliverer meet; a silent started job is escalated | 2 batches of 2 shops, 1 deliverer, 2 faults |
| `realtime` | the log tells the rows, late decisions included; a client that has its context misses nothing sent to its own room, and is told in the end; a deliverer's handshake replays what he had not seen | one order, one job, which may return to the pool once; a customer or a vendor with one socket and 1 fault, or a deliverer with two sockets; two requests under way with the vendor |
| `storefront` | hits are counted exactly, counters and limits lapse, a cached answer goes stale in the five named ways only, withdrawn products disappear, the cache catches up | 2 requests of one client, a limit of 1, one of the two a reader; 1 product of 1 shop, 1 vendor request, 1 change; 1 fault |

Runs that TLC must find violated, each a disagreement between the code and what it
or its documentation says:

| Run | The code |
|---|---|
| `late_join` | `closeBatch` does not take the advisory lock. An order can be committed into a batch that has already been closed and loaded for assignment; when the job completes, the order is left in `READY_FOR_DELIVERY` for ever (the README: nothing can strand an order). |
| `removal` | An administrator removes a deliverer who has started his job. The batch then looks stuck, and the job starts again with another deliverer (the README: never reassigned automatically). |
| `starvation` | A batch whose vendor has no coordinates can never be assigned, stays the earliest stuck one, and takes the slots of the requeue sweep; a later batch whose queue job was lost is never requeued. |
| `decision_race` | Accept and reject write the status by id after an earlier check. The write can come after the order was marked ready, which makes the order ready for a second click and a second batch. |
| `missed_start` | The customer's handshake reads the context, and joins the room of the job it names only afterwards (`customer.gateway.ts:55`, `:59`). A `delivery:started` sent in between reaches nobody, the context shows the job as not started, and the replay returns events of orders only. |

Divergences seen while modelling that need no run of their own:

- README, "Every state change records an event, and both are written in one Prisma
  transaction": accept, reject, recovery and escalation record after their change, and when
  the record fails the change stays. `LogTellsTheState` says what can be told all the same.
- README, "Presence comes from a heartbeat": the heartbeat writes `lastSeenAt`, not
  `isOnline`, and `markOffline` does not look for a newer socket. A deliverer whose older
  socket is closed late stays offline, for the assignment too, until he connects again. So no
  property here says that a connected client is online.
- The end of a deliverer's older socket, noticed after he has come back and before his replay
  is read, sets `lastSeenAt` to now, and what he missed is not replayed. A heartbeat of a second
  device does the same. `DelivererReplayIsComplete` names this exception (`outrun`).
- Two runs of the recovery sweep can overlap, as nothing keeps the cron job from starting while the
  last run is still awaiting a query. The second acts on its snapshot: it frees the old deliverer
  and releases, by id, the job that the first has meanwhile given to another, whose `activeJobId`
  then blocks every other claim of the batch. With a second element in `Sweeps`, TLC shows
  `StuckBatchIsClaimable` violated; the theorems assume `OneSweep`.
- README, "Replay is computed before the presence update": so it is for deliverers. For
  customers and vendors `markOnline` comes first, so their replay only repeats what the
  handshake itself lets in. What happened before reaches them through the context,
  which has no rejected orders: a customer who was away is not told of a rejection.
- `products/me` cannot be reached: `products/:id` is declared first and its pipe refuses
  the word `me`.

### Bounds, and why they are enough

- Two batches are needed for a deliverer to be wanted by two, and for one batch to
  wait behind another; two deliverers for a batch to be wanted by two; two orders in a
  batch for two drop-offs to race. `dispatch` has all three. `ordering` needs a third
  batch for the choice among open ones, four orders of one shop to overfill one, and a fifth of another shop.
- `FoodMax` and `GroceryMax` are 2 and 3 instead of 3 and 5: the code only compares
  them with a count.
- `Attempts` is 1 or 2 instead of 3; a second attempt already meets what has changed
  since the first.
- `MaxFaults` bounds crashes and lost calls, not their place: each can hit any step.
  The liveness runs allow two, so that a timer and a close, or a task and a ticket, are
  both lost.
- `Horizon` bounds the age of a batch: 3 covers all classes; the composite runs, where
  only the sweep's minimum age matters, use 1.
- `Sweeps` has one element: the sweep is assumed not to overlap itself (see above).
- `fulfilment` has one deliverer and one batch: what two of each can do to one another is
  checked in `dispatch`, and the inductive invariant is proved for any number.
- `dispatch` and `removal` use the symmetry of deliverers, who are
  interchangeable in every definition, and `ordering` that of the groceries of one shop;
  the runs with liveness properties use none.
- `storefront`: the route, and with it the kind of key the client reads, is chosen in the
  initial state, so that one run covers product, vendor and full lists. One reader is
  enough for a late store, since the race is between a read and a write; both requests
  race in the limiter. A limit of 1 has all cases of "first", "last allowed" and "beyond".
  The run has one writer: that several, and any number of products and shops, add no other way
  for an answer to go stale is the theorem `StalenessIsCaused`.
- `realtime`: whose client is followed is chosen in the initial state (`Followed`), and the
  bounds on sockets, requests and faults depend on it. The deliverer needs two sockets, for an
  old one to be closed after a new one has connected. Two requests under way (`MaxWork`) are needed for a
  decision to be written after the order was marked ready; that concerns the log alone, so the
  vendor's instance has them. A fault matters to the log and to the messages of customer and vendor; a
  deliverer's replay does not look at what failed. One return of the job to the pool gives a second assignment and
  start. The order is followed in its first batch (`MarkReady`), and the deliverer is missing
  once in a round (`EscalateJob`).
- `MaxFaults` is at most 1 in both: after a fault the properties say what is excused, and a second
  one would add nothing to the excuse.
- Only the three runs of `OrderBatching` switch the deadlock check off: when every
  order is ready, every batch closed and time at its horizon, nothing is left to do.
  In `Fulfilment` deliverers can always connect.

### Fairness

- `OrderingFairSpec`: time passes and `closeExpiredBatches`, a one-minute cron job, runs.
  Nothing is assumed of timers, tasks or requests, so that the property rests on the
  sweep alone.
- `FairDispatchSpec`: the worker keeps processing its queue, each run of the recovery
  cron job goes on (every minute another one starts), and an open drop-off transaction
  commits or fails. Weak fairness suffices: these processes are always enabled once
  there is something for them. Nothing is assumed of deliverers, vendors or Redis.
- `Storefront!Fairness`: a request under way makes its next step, and Redis drops keys whose
  time has come (a TTL is a promise of Redis). Nothing is assumed of vendors,
  administrators or clients. `LimitLapses` needs nothing of `BlockExpires`: a blocked
  client is not counted, so that its counter expires meanwhile.
- `Realtime!FairSpec`: requests that have changed something go on with what follows.
  Nothing is assumed of clients, deliverers or sockets.

`StuckBatchMeetsDeliverer` says that no batch and deliverer can wait for each other for
ever; that the batch is assigned at all depends on deliverers who may come and go.

## Proofs

### Batching (`OrderBatchingProofs`)

For any number of orders, shops and batches, any relation `Detour` and any limits, under
`OrderingSpec`:

| Theorem | Statement | Assumes, beyond the constants' assumptions |
|---|---|---|
| `OrderingTypeCorrect` | `[]OrderBatchingTypeOK` | |
| `OrderingIInvCorrect` | `[]OrderingIInv` | |
| `SizesBounded` | `[]BatchSizeBounded` | |
| `BatchesHaveOneVendor` | `[]OneVendorPerBatch` | |
| `FullBatchesClose` | `[]FullBatchIsClosing` | `FoodMax > 1` |
| `NoDuplicateBatch` | `NewBatchOnlyWhenNoneFits` | |
| `BatchesAreFinal` | `BatchOfReadyOrderIsFinal` | `Reviewed = {}` |

None of the properties is inductive, because a commit (`ReadyCommit`) trusts a choice made
earlier. `OrderingIInv` says what makes the choice good: one transaction at a time
(`OneAtATime`), and as long as it is open, its batch still fits, no open batch would have
fitted if it creates one, and it has seen whether it fills the batch (`ChoiceHolds`). All
other steps are `Quiet`: they change no membership and open no batch. `FoodMax > 1` is
needed because a new batch is not asked whether it is full; the code's limits are
3 for food and 5 for groceries. `Reviewed = {}` says that no acceptance or rejection
races: `decision_race` shows that it cannot be dropped.

### Claims (`FulfilmentProofs`)

For any number of orders, shops, deliverers, batches and
sweeps, and for both initial states (`Spec` and `DispatchSpec`):

| Theorem | Statement | Assumes |
|---|---|---|
| `TypeCorrect` | `[]TypeOK` | the named assumptions on the constants |
| `IInvCorrect` | `[]IInv` | `OneSweep`, `KeepsBusy` |
| `ClaimsCorrect` | `[]Claims` | the same |
| `StuckBatchesAreClaimable` | `[]StuckBatchIsClaimable` | the same |
| `StartedStays` | `StartedNeverReassigned` | the same |
| `DispatchImplementsCourierClaim` | `ClaimsAreExclusive`: `CourierClaim!Spec` under the mapping `claim` | the same |

`OneSweep` says that a run of the recovery sweep ends before the next starts,
`KeepsBusy` that an administrator does not remove a deliverer who holds a job. Neither can be
dropped: for the second see the run `removal`, for the first the divergences above.

`Claims` is not inductive. A release of a job (`Recover`) trusts the snapshot, hence
`SnapshotsHold`: a snapshot that says `ASSIGNED` is of a job that is still with that
deliverer, or was started. The commit of a drop-off trusts what was read under the row
lock, hence `DropOffsHoldTheirJob`. A committed new batch must not overwrite one that has
a job, hence `BatchingIsSerial`: the advisory lock leaves one transaction at a time, and
its row does not exist before the commit. `IInv` is their conjunction with `TypeOK`; it is
checked by TLC in `fulfilment` and proved step by step, one lemma per component. The run has
one deliverer and one batch; `dispatch`, which has two of each, checks `Claims`.

The last two theorems rest on `JobWriters`, which lists the only steps that write the
job table, and one lemma for what each of them writes: a claim takes a job that is
neither held nor done for a deliverer who holds none, a start, a commit and a release
move the job they name, and the removal of an idle deliverer touches no held job. Each of
these is a step of `CourierClaim` or a stutter.

### Deliveries (`DeliveryProofs`)

Under the same two assumptions and `Reviewed = {}`:

| Theorem | Statement | Of |
|---|---|---|
| `DeliveryIInvCorrect` | `[]DeliveryIInv` | `Spec`, `DispatchSpec` |
| `StartedJobsCanFinish` | `[]StartedJobHasOpenDropOff` | `Spec`, `DispatchSpec` |
| `OrdersFollowJobs` | `[]OrderFollowsJob` | `Spec`, `DispatchSpec` |
| `DeliveredIsFinal` | `DeliveredStaysDelivered` | `Spec`, `DispatchSpec` |
| `DispatchDeliversEach` | `[]DeliveredByDropOff` | `DispatchSpec` |

`DeliveryIInv` stands on `IInv`. It follows the orders of a batch through the steps that
remember them: a call holds orders of its batch (`CallsHoldOrders`), so the job it claims has
drop-offs (`JobsHaveDropOffs`), and an open `completeDropOff` knows whether its own is the last
one (`DropOffsAreOpen`). A delivered order belongs to a job that was started
(`DeliveredUnderWay`), which is why no claim or recovery can reach it. `Settled` is taken from
batching: without decisions under way, only unbatched orders can be marked ready.
`DeliveredByDropOff` holds only where no order joins a batch late (`DispatchSpec`, where
`DispatchIInv` adds that calls and jobs have *all* orders of the batch); in `Spec`, a late order
is completed in passing, or stranded as in the run `late_join`.

### The life of an order (`LifecycleProofs`)

Under `OneSweep`, `KeepsBusy` and `Reviewed = {}`:

| Theorem | Statement | Of |
|---|---|---|
| `CourseIInvCorrect` | `[]CourseIInv` | `Spec`, `DispatchSpec` |
| `FulfilmentImplementsLifecycle` | `OrdersKeepTheirCourse`: `OrderLifecycle!Spec` under the mapping `orderStatus` | `Spec` |
| `DispatchStrandsNobody` | `[]NoOrderStranded` | `DispatchSpec` |

Most writes of `Order.status` do not look at it: the claim updates the orders of the batch, the
start and the release those linked to the job, the commit of a drop-off an order by its id, and
the commit of `vendorMarkReady` what it has read before. `CourseIInv` says why each finds
the orders at the right stage. An order in a batch that is not linked to a job is ready or
waits (`UnlinkedOrdersWait`); only claimed jobs have linked orders (`LinkedJobsAreClaimed`), so that
the batch of a claim has none; the drop-offs of a held job are linked to it
(`DropOffsAreLinked`), so that `OrderFollowsJob` applies to the order of a drop-off; and the order
of an open `vendorMarkReady` is still readyable (`ReadyOrdersAreNew`). Every step then is one
move of `OrderLifecycle`, of one order or of the orders of one job, or a stutter, the release of a
job among them. `Reviewed = {}` cannot be dropped: the late write of an acceptance takes a ready order
back, as in `decision_race`. So these theorems say nothing of accept and reject.

`NoOrderStranded` fails in `Spec` (run `late_join`). `DispatchStrandsNobody` proves it under
conditions, of which the late order is one: the batches are closed before the behaviour begins, so that none
joins late; no decision is written late, which would take an order back after its
batch was completed; sweeps do not overlap, and no busy deliverer is removed. Then a claimed job is linked to all
orders of its batch until it is completed (`ClaimedBatchIsLinked`).

### Realtime (`RealtimeProofs`)

For any number of sockets, of returns of the job to the pool, of requests under way and of
failures, without further assumptions, under `Spec`:

| Theorem | Statement |
|---|---|
| `RealtimeIInvCorrect` | `[]RealtimeIInv` |
| `RealtimeTypeCorrect` | `[]RealtimeTypeOK` |
| `ConnectedClientsMissNothing` | `[]NothingIsMissed` |
| `TheLogTellsTheState` | `[]LogTellsTheState` |
| `DelivererReplaysAll` | `[]DelivererReplayIsComplete` |

`RealtimeIInv` has a part for the requests and one for the sockets.

- *Requests* (`EventsInv`). A request projects and sends only what is in the log or what it
  records before, projects whatever it records, and records only the late kinds of events
  (`RequestsAreOrdered`); hence a timeline lacks only what is still to be projected or was cut off
  (`TimelineFollowsLog`). The other kinds are in the log together with their change. So the row of
  the job matches them (`RowsMatchLog`), the rounds of assignments and recoveries match `round`
  (`RoundsMatchLog`), they come in the order their guards ask for (`EventsInOrder`), and the status
  of the order is what they tell, or a decision written over it, whose event has happened
  (`StatusIsTold`). `LogTellsTheState` follows, with the exceptions it names: a recovery that is
  not recorded, a decision.
- *Sockets* (`SessionsInv`). What a socket lacks of its own room's messages is still to be sent or
  was cut off, and reaches the socket when it is sent (`LackedIsSent`): a message concerns a
  socket that has its context, and by then it has joined its room (`JoinedInOrder`), which
  the order join, context of `handleConnection` makes true. For the room of the job the order is the
  other one, and the property fails (`missed_start`). `UnreadIsRecent` says that what a deliverer's
  socket has yet to replay is newer than `lastSeenAt` until the replay is read, since the same
  handshake moves `lastSeenAt` only afterwards, or that another socket has moved it.

Each step of a request keeps the messages of the others, and each step of a socket the other
sockets; `Noted`, which gives new events to the sockets they concern, is the only place
where both parts meet.

### Storefront (`StorefrontProofs`)

For any number of requests, products, shops and writers, without further assumptions, under `Spec`:

| Theorem | Statement |
|---|---|
| `StoreIInvCorrect` | `[]StoreIInv` |
| `StorefrontTypeCorrect` | `[]StorefrontTypeOK` |
| `CountersExpire` | `[]CounterExpires` |
| `BurstsAreCounted` | `[]BurstIsCountedExactly` |
| `StalenessIsCaused` | `StalenessHasACause` |

The limiter's part (`LimiterInv`) is inductive by itself, since `INCR` alone writes the count. For the
catalogue, `FetchesAreAdmitted`, `WritesAreWellFormed` and `RowsMatchKeys` say that a read
belongs to an admitted request, that an invalidation names a product and keys of its pattern, and
that the rows under a key are its own and were there (`Found`): no product is cached as not found.
A key is `Fresh` if what is stored under it is what the query would return now, with images and
tags, missing rows and closed shops, and covered if it is fresh or some write is about to invalidate it.
Every step keeps a key covered but the five kinds that `StalenessHasACause` names: a change of
images or tags, an update or deletion (for the list of all products), a change of a shop, the
store of an overtaken read, and a fault. That is one lemma per step: a write covers the keys it makes
stale, an invalidation uncovers only keys it has deleted.

### What is only model-checked

Liveness (`OpenBatchCloses`, `StuckBatchMeetsDeliverer`, `SilentJobIsEscalated`, `LimitLapses`,
`WithdrawnDisappears`, `CacheCatchesUp`, `EventuallyTold`): fairness is out of the prover's reach.
No module uses recursion.

## What is left out

- Multi-vendor batching (a flag, off by default), `completeJob` (no caller), and the
  skew between `createdAt` and the order of insertion.
- BullMQ's second delivery of a stalled job; two equal tickets; a second server process.
- The order in which rows are locked: a deadlock that PostgreSQL resolves is one of the
  failures any call may have.
- Live positions: which deliverer is closest is a free choice in the models, so that no property
  depends on a position. Their own hazards (a late flush, a TTL shorter than the flush interval)
  are listed in `PROJECT.json`.
- Accounts and authentication: sequential reads and writes of one row and third-party
  cryptography. A request is counted before its token is looked at; `Refuse` stands for every refusal.
- Infrastructure: start-up, logging, response wrapping and error formatting keep no state.
- Of shops: the user's role, reasons and dates, `createProfile` and the descriptive fields of
  `updateProfile`.
- Of products: `createProduct` and the other writes check the owner by the caller's id, which is a
  sequential look-up; a page or filter is one key of its pattern.
- In `Realtime`: location messages, the content of a customer's and a vendor's replay (see above),
  and a second order of the same batch.
- Rebuilding timelines from the log, which the README speaks of, is not in the code.

## Plan

1. Done: the delivery flow, the event log with its gateways, and the storefront, each with its
   runs; theorems for every invariant and action property of the passing runs, and the
   refinements of `CourierClaim` and `OrderLifecycle`.
2. Next: multi-vendor batching once pickup stops exist; live positions, should a property come to
   depend on them; a second server process, which the README plans for the gateways.
3. Next proofs: `SnapshotsHold` and the claims with overlapping sweeps, once the sweep is
   guarded against itself in the code; the abstract limiter and cache as modules of their own.
4. Hazards without a property are listed with their reason in `PROJECT.json`.
