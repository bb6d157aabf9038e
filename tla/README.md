# A TLA+ model of the async long-request proxy

The proxy accepts long-running tasks over HTTP, hands them to executors, takes
their results back and tells the clients.  This directory models what makes
that hard: two Node processes and several replicas share one Postgres and one
Redis, no transaction spans the two, jobs are delivered at least once, and
every `await` is a place where another actor may step in.

Paths below are relative to the repository: `src/...`, `libs/...`, `docs/...`.

## 1. The system

| Component | State | Operations | Modelled in |
|---|---|---|---|
| tables `tasks`, `task_events` | rows; per-task event log with `seq` | insert, delete, guarded update, unguarded progress update, event insert under an advisory lock | `TaskTable` |
| job queues (BullMQ) and Pub/Sub | jobs with attempts and locks; channels | enqueue, take, settle, stalled-job check, retry, publish | `Broker` |
| task creation (`TasksService.create`) | request in flight | INSERT, enqueue, rollback | `TaskCreation` |
| dispatch worker (`DispatchProcessor`) | runs of the handler | claim, POST, record error | `Dispatch` |
| executor callbacks and cancel (`CallbackAuthGuard`, `ExecutorService`, `TasksService.cancel`) | requests in flight | authorize, update, log, publish, enqueue | `ApiCalls` |
| webhook and cancel workers | jobs in flight | fetch the row, POST, swallow errors | `Notices` |
| timeout sweeper (`TimeoutSweeperProcessor`, `MaintenanceRepository`) | sweep in flight | expire a batch, publish | `Sweeper` |
| idempotency (`IdempotencyService` around `TasksService.create`) | Redis slot per key; requests in flight | occupy, commit, release, expiry | `Idempotency` |
| SSE stream (`StreamController`, `SseService`) | subscription, history, live buffer, highest seq sent | open, subscribe, query, replay, drain, forward, ping, close | `Sse` over `EventFeed` |
| task status (`TasksController.getStatus`) | none | read the row | `Polling` |
| HTTP client (`HttpRetryService`) | loop variable, last status | attempt, sleep, give up | `HttpRetry` |
| data retention (`DataRetentionProcessor`, `MaintenanceRepository`) | batch in flight | select, delete | `Retention` |
| processes (`main.ts`, `worker.ts`, configuration, connections, shutdown hooks) | phase of life, open connections | boot, fail, stop, be killed, be replaced | `NodeProcess`, `WorkerProcess`, `Deployment` |
| request pipeline (middleware, guards, parsing, exception filter, request log, readiness check) | requests in flight: statement, reply, connection, log lines | arrive, run a statement, throw, reply, leave | `ApiProcess` |
| metrics, container build, benchmarks | none | | not modelled |

Interaction.  `POST /tasks` inserts a row and enqueues a dispatch job.  A worker
claims the row (PENDING to PROCESSING) and POSTs it, with the row's callback
token, to the executor.  The executor calls back with progress and a result;
the client may cancel.  Each of these updates the row under a condition on its
status, writes an event, publishes it, and enqueues a webhook or a cancel
notice.  A cron job fails rows whose deadline has passed.  The actors meet only
in the two tables and the queues.  A stream replays a task's log and then
follows its Pub/Sub channel; a client that lost its connection comes back with
the id of the last event it has.  Another cron job deletes what is old.

What is hard.  The guard of a callback reads the status in an earlier statement
than the update it protects.  Update and event of a result are separate
transactions.  The enqueue of a creation may take effect and still throw.  A
stalled job is run again while its first run may only be hanging.  Sweeps of
two replicas overlap.  The sweeper numbers its events without the lock that
everybody else takes.  A worker may die between any two statements.  An
idempotency slot may expire, or be deleted, under the request that holds it.  A
stream joins a log and a channel that are written by different steps of the
same handlers.  Retention deletes what it selected in an earlier statement.
A process that is told to stop closes Redis and its queues while the server
still listens, and its pool as soon as no client is connected.
`PROJECT.json` lists these hazards line by line with the properties that watch
them.

What makes it correct.  A task has one life (`TaskLifecycle`), one end, and
everything said about its end (log, stream, webhook, cancel notice) agrees with
it; it is dispatched at most once; one key makes one task; a stream repeats
and reorders nothing and loses an event only in ways that can be named; and, as
long as processes keep running, every task ends, every event is published and
every result is notified.

## 2. Modules

`TaskTable` and `Broker` hold the shared state.  `TaskCreation`, `Dispatch`,
`ApiCalls`, `Notices` and `Sweeper` hold one component each, its variables and
one action per statement that can interleave.  `Proxy` composes them (each
component's step leaves the others' variables alone), states fairness and all
properties, and instantiates `TaskLifecycle`, the abstract specification.
`EventFeed` is what a stream may assume of a task's log and publishes; `Proxy`
is shown to provide it for every task, and `Sse` is built on it rather than on
the whole proxy.  `Idempotency` puts the slot around the actions of
`TaskCreation`.  `Retention` runs beside all of `Proxy`, and `Polling` adds to
that a client that asks.  `HttpRetry` stands alone: `Dispatch` and `Notices` use
only how a call of it ends.

`NodeProcess` is the life of a process: boot, SIGTERM, hooks, exit.
`ApiProcess` puts requests into it, `WorkerProcess` a consumer and its job, and
`Deployment` composes the two over a table and a queue that are cut down to what
a `POST /tasks` leaves in them.  It looks at the same handlers from the other
side: `Proxy` has every statement's effect and lets any of them fail,
`Deployment` also has connections that close in a certain order under them.
`MCProxy` adds symmetry for TLC.  `Claims` states what the docs say of the
sweeper and the code does not do.  `ProxyProofs`, `OutcomeProofs`,
`IdempotencyProofs`, `StreamProofs`, `RetentionProofs`, `HttpRetryProofs` and
`DeploymentProofs` hold the theorems.

Abstractions.

* A row keeps its status, which timestamps are set, whether `expires_at` is
  ahead or passed, and who wrote result, error and progress.  A call's body is
  the call's name, so "whose result is this" can be asked.
* Time is one bit per row (`Elapse`), so no clock bounds the model.
* A failing statement and a dying process are one action where nothing tells
  them apart: `HandlerDies`, `CreatorDies`.  A statement that took effect and
  then threw is either an explicit alternative (`EnqueueThrows`, `ClaimThrows`,
  `RecordErrorThrows`) or a death one statement later.
* `Faults` says which faults a run injects: `"db"`, `"redis"`, `"crash"`, and
  `"stall"` (a worker loses its lock and goes on).  `MaxCrashes` bounds worker
  deaths.
* `DispatchProcessor` reverts a task to PENDING when `httpRetry.post` throws
  something other than its two errors (lines 103-115).  `HttpRetryService.post`
  wraps everything it catches in one of the two, so the branch is never taken
  and no action stands for it; section 4 says what that means for the
  comment above the class.
* The sweeper's transaction is one step.  Its conflicts with concurrent
  transactions appear as the rows it may skip (`Locked`), as `SweepAborts` and as
  `InsertEventConflicts`.
* A task id is created by one request and never reused (`randomUUID`).
  `task_events` has no foreign key, so events outlive a deleted row.

* `Idempotency` has one key: slots and index entries of different keys never
  meet.  A request is named by the task id its INSERT would get.  The slot may
  expire at any moment, since nothing relates its TTL to how long a request
  hangs, and no theorem needs it to last.
* `Sse` has one client of one task: each connection has its own Redis client and
  closure.  The iterations of the replay and drain loops are steps, because
  other processes write and publish meanwhile, but no message is handled
  between them.  `Glitches` says what the environment may do: let SUBSCRIBE take
  effect after the query, publish in another order than logged, publish twice.
  Opening a stream of an unknown task (404) changes nothing and is left out.
* The ids of a stream.  `SseService` gives an event its `seq` for an id, and the
  ping and an error none.  NestJS's `SseStream.writeMessage` (external) numbers a
  message that has none from a counter of the connection and stores the number in
  the message; `HEARTBEAT_EVENT` is one object for the whole process, so it keeps
  the first id it was given, 1.  The client cannot tell such an id from an event's
  and sends it as `Last-Event-ID`.  The model therefore has the position the
  browser keeps (`lastSeen`) apart from the events it was sent (`seen`); the error
  message that ends a stream has id 1, or 2 after the process's first ping.  A ping
  and its receipt are one step, taken when everything sent before has been read;
  one read earlier leaves the position to the events that follow it.
* `Polling`: the read is the whole handler.  A poll counts everything said before
  the read, also what is still on its way, so request and reply need no steps.
* `HttpRetry`: one call of `post`.  A status or an error code stands for itself.
  A request that outlasts `requestTimeoutMs` fails with rxjs's error, which has
  no code.
* `Retention`: age is one bit per task, which may be set in any status, because
  a claim renews the deadline and nothing bounds the wait in the queue.  The
  transaction is one step; an event inserted between its two DELETEs is the same
  as one inserted after.

* `ApiProcess`: a request is its kind and one flaw at most, which decides where it
  is refused; a body that is no JSON or too large is refused by the body parser,
  which the framework runs before the middleware, so that nothing logs it.  A
  handler is the connections that the statements of its longest path need (with a
  webhook or a cancel URL, without an idempotency key, which is `Idempotency`).  A
  statement throws when its connection is closed, and otherwise when it meets an
  error (`Fault`), done or not: a connection that breaks, the unique index of the
  keys, an event whose `seq` the sweep took.  So does the rollback's DELETE.
  `faulty` remembers for whom.  Whether a closed queue still adds a job is BullMQ's
  affair and left open.  A kept-alive connection is closed with its reply.
* `WorkerProcess`: a statement of the dispatch handler that throws fails its job
  (`attempts: 1`).  The stalled-job check is made by living consumers; it hands the
  job out again `MaxStalled` times and then fails it, as in `Broker`.
* `NodeProcess`: the framework's order of hooks (all `onModuleDestroy`, with the
  global modules last; the server; all `onApplicationShutdown`) is external.
  `Mishaps` says whether boots fail, processes are killed and statements meet
  errors; workers are
  replaced `MaxRestarts` times.  An API process is not replaced: its successor
  shares nothing with it.

Actions and code.

| Action | Code |
|---|---|
| `Insert`, `InsertThrows`, `Enqueue`, `EnqueueThrows`, `Rollback`, `CreatorDies` | `TasksService.create`, lines 67-119 |
| `Take`, `Claim`, `ClaimThrows`, `PostReturns`, `PostThrows`, `RecordError`, `RecordErrorThrows`, `Acknowledge` | `DispatchProcessor.process` |
| `JobStalls`, `WorkerDies`, `NoticeStalls` | BullMQ's stalled-job check, process death |
| `Authorize` | `CallbackAuthGuard.canActivate` |
| `SubmitResult`, `ReportProgress`, `InsertEvent`, `Publish`, `EnqueueJob` | `ExecutorService` |
| `Cancel`, `CancelRefused`, `Publish`, `EnqueueJob` | `TasksService.cancel`, `TasksRepository.cancelTask` |
| `Fetch`, `FetchThrows`, `Finish`, `Receive` | `WebhookProcessor.process`, `CancelProcessor.process` |
| `occupySlot`, `commitResult`, `releaseSlot`, and their failures | `IdempotencyService`, called from `TasksService.create` |
| `Open`, `Subscribe`, `Query`, `Replay`, `ReplayRow`, `ReplayDone`, `DrainOne`, `DrainDone` | `SseService.stream`: observable, `subscribe`, history callback |
| `BufferMessage`, `BufferOverflows`, `LiveMessage`, `Teardown`, `ConnectionBreaks` | `SseService.stream`: `message` and `error` callbacks, teardown |
| `Returns`, `FailsFast`, `Transient`, `sleep` | `HttpRetryService.post` |
| `Ping`, `ErrorMessage`, `ClientReceives` | `SseService.stream`: timer, `subscriber.error`; `SseStream`, `EventSource` |
| `Poll` | `TasksController.getStatus`, `TasksService.getStatus` |
| `LoadConfig`, `Connect`, `Probe`, `BootFails`, `Listen`, `Ready`, `onModuleInit` | `appConfig`, `DrizzleService.connect`, `BullMqAdapter.onModuleInit`, `bootstrap`, `DispatchProcessor.onModuleInit` |
| `Sigterm`, `CloseBegins`, `CloseConnection`, `CloseServer`, `onApplicationShutdown`, `Exit` | shutdown hooks of the processors, `RedisService`, `BullMqAdapter`, the server, `DrizzleService` |
| `Arrive`, `Statement`, `StatementThrows`, `Rollback`, `CheckTimesOut`, `StreamEnds` | middleware, guards, pipes and handlers; `ZodExceptionFilter`; health indicators |
| `Finish`, `ClientLeaves` | `HttpLoggerMiddleware`: `finish` and `close` |
| `TakeJob`, `Claim`, `Post`, `RecordError`, `JobFails`, `Acknowledge`, `JobStalls` (of `WorkerProcess`) | `DispatchProcessor.process`, BullMQ |
| `RetentionTick`, `Select`, `Delete`, `RetentionFails` | `DataRetentionProcessor`, `deleteOldData` |
| `Tick`, `SweepBatch`, `SweepAborts`, `SweepEnds`, `SweepPublishes`, `SweeperDies` | `TimeoutSweeperProcessor.process`, `expireTimedOutTasksBatch` |

## 3. Runs that pass

Which request each call makes is part of the initial state, so one run covers
every combination of results, failures, progress and cancels.

| Run | Instance | Shows |
|---|---|---|
| `faulty` | 1 task, 2 calls, 2 sweepers, faults db, redis, crash | `TypeOK`, `ValidStateData`, `OneTerminalEvent`, `LogAgreesWithRow`, `AckedCancelIsComplete`, `NoDoubleSweep`, and the refinements `Lifecycle` and `EveryTaskIsAFeed` |
| `redelivery` | 1 task, 2 calls, 2 deliveries, 1 death, stalls | `AtMostOneDispatch`, `NoLostDispatch`, `WebhookTellsOutcome`, `OneNotifier`, `CancelNoticeIsTrue` |
| `live` | 1 task, 2 calls, 2 deliveries, 1 death, fair | `EveryTaskSettles`, `EveryEventPublished`, `WebhookRuns` |
| `keyed` | 3 requests of one key, faults db, redis, crash, expiry at any time | `IdempotencyType`, `OneTaskPerKey`, `AnsweredTaskRuns` |
| `stream` | 3 events, buffer of 1, late SUBSCRIBE, overtaking and doubled publishes, 1 broken connection, 1 heartbeat, fair | `SseType`, `InOrder`, `EndsWithTheEnd`, `GapsExplained`, `HistoryArrives`, `PublishedArrives` |
| `http_retry` | 2, 3 or 5 attempts, 5 retryable and 2 other statuses, 2 network codes, timeout | `RetriesAsSpecified` |
| `retention` | 1 task, 1 call, 1 sweeper, 2 retention replicas, batch size 1, 1 death, any number of polls, fair | `NoneInFlightPruned`, `LogKeptWithRow`, `Lifecycle`, `OldDataGoes`, `PollFollowsNews`, `PollMatchesWebhook` |
| `deployment` | 1 API process, 1 worker replaced twice, 1 request of any kind and flaw, 1 redelivery of a stalled job, failing boots, kills and errors of any statement, fair | `DeploymentType`, `WorkerDrains`, `NoOrphanRow`, `AnswerIsTrue`, `LoggedAsItEnded`, `SigtermExits`, `AcceptedIsDispatched` |

`EveryEventPublished` is a statement about processes that live: a handler or a
sweep that dies between its commit and its publish leaves the event in the log only,
where a later connection finds it (`HistoryArrives`).  `OldDataGoes` exercises a failed
run of retention; with one task no batch leaves another task over.

What `stream` shows is how far the promise "receive all missed events" goes.
The replay of history and buffer, the comparison with `highestHistorySeq`, repeated
messages, the buffer's limit and reconnects lose nothing.  What is lost is lost
to the two races of `LostInARace` (published before an unawaited SUBSCRIBE, or after
a later event, and in either case logged after the history query) or to an id of the
framework's that the client gives as its position.  Section 4 has a run for two of
the three.

What `deployment` shows has exceptions, all of which are in the code and written
into the properties.  `NoOrphanRow` holds only for clients that wait: when the last
client leaves during a shutdown, `server.close()` returns, the pool is ended with
`timeout: 0` and a handler between INSERT and enqueue can neither enqueue nor roll
back.  `AnswerIsTrue` lets a 500 leave something behind when a statement met an
error: a row alone (the INSERT took effect and threw, or the DELETE of the rollback
failed), a job alone (the enqueue took effect and threw, and the rollback deleted
the row) or both (the enqueue took effect and threw, and the DELETE failed: the task
runs although its client was told 500).  `SigtermExits` excludes API processes with
an open stream: nothing closes it, so they end only with SIGKILL.
`AcceptedIsDispatched` excludes a job that stalled more often than BullMQ allows and
a claim that threw: either fails the job and leaves the task PENDING.

Bounds.  The races are between the actors of one task, so one task suffices
where tasks do not meet; they meet only in the sweeper's batch, for which the
refutation `stuck` has two and the theorems any number.  Two calls give every pair of
racing requests; a third would race with an end that is already decided.  Two
deliveries (`MaxStalled = 1`, BullMQ's default) give a hung run beside a new
one.  `Attempts` is 2 in `faulty`, enough for a retry and an exhausted job.
Three requests give a slow holder, one that takes the slot after it expired, and
one that is answered from the slot.  Three events and a buffer of one
give an overflow, an event in both history and buffer, and events before, during
and after the query; a break and an overflow give a client that comes back twice,
and one ping is enough to misplace it.  The
attempts of `http_retry` are the workers' own; delays are scaled so that the cap
is met on the way.  A batch size of one makes every batch of `retention` full,
so the loop is taken.  In `deployment` the processes meet only in a row and a
job, each of which belongs to one request; a second request would only make an
API process wait for both.  Two replacements give a job that stalls as often as
BullMQ allows and once more.  The theorems hold without any of these bounds.

Fairness.  Weak fairness of: the next statement of a handler that has begun
(every await ends, the HTTP client has a timeout), the queue handing out a
waiting job or a job whose worker is gone, the cron and the sweep's next
statement, and the clock.  Clients and executors owe nothing: no call need
arrive, and the executor need never accept.  No fairness is assumed for
anything that may fail.  In `Sse`: the server's callbacks, the query and
SUBSCRIBE happen, and the client is an interested one, which reads and reconnects;
how often connections break is bounded, and a publisher may die before it
publishes what it logged.  In `Retention`: the cron and a job's next statement, with
failures bounded by `MaxCrashes`.  In `Deployment`: a process goes on booting
and, once told, stopping; a handler and a job go on; the queue hands out jobs and
finds stalled ones as long as a consumer lives.  No client need leave, no stream end and nobody send a
signal.  All of this assumes that a statement ends: a Redis that stays away would
hold every handler that needs it, since its clients wait without limit.

The proxy never stops, as its crons always tick, so deadlock is checked in every
run of `Proxy` and `Retention`.  It is not in `keyed` (all requests are
answered), `http_retry` (the call has ended), `deployment` (all processes have
exited) and the runs of `Sse` (every event has arrived).

## 4. Runs that refute a statement of the repository

| Run | Statement | What happens |
|---|---|---|
| `stuck` | the sweeper fails a PROCESSING task after `expiresAt` | its UPDATE leaves `processing_started_at` as it is; for an expired PENDING task (an orphan, say, whose creator died before its enqueue) `tasks_valid_state_data` rejects FAILED, and the whole batch aborts, every time |
| `missed_event` | history is read after subscribing, so nothing is missed | `subscribe` is not awaited; what is published in between is lost |
| `pinged` | clients reconnecting with `Last-Event-ID` receive all missed events | the framework numbers the heartbeat, which has no id; a client that read it before any event and then lost its connection gives that number as its position and never gets the events up to it |
| `endless` | a stream goes on until a terminal state is reached | a client that comes back with the terminal event's id gets no event and no end |

`stuck` is checked under `FairSpec`, the others under `FairSseSpec`.
`missed_event` has the late SUBSCRIBE and no broken connection or heartbeat;
`pinged` has neither of the two races.  An error that ends a stream (a full buffer,
a failed query) is a message without an id as well and misplaces the client in the
same way.  The race that has no run of its own is `"overtake"`: when the later of two
events is published first, `LiveMessage` drops the earlier one as old, and the
client's `Last-Event-ID` is past it.  That these are all is `PublishedArrives`.  A
message numbered by the framework that is read after later events has the opposite
effect: the client comes back with a position it has passed, and is sent events again
(`InOrder` is about one connection for this reason).

Other statements the models disagree with, not kept as runs because each is one
guard or one short behaviour that can be read off the action named:

* "Cancels a PENDING task. Returns 409 if already processing" (`TasksController`):
  `Cancel` matches PROCESSING too.
* "`204` - result accepted" (`EXECUTOR_INTEGRATION.md`): `SubmitResult` answers 204
  when the task ended between the guard and the update.
* "Every state change (progress, completed, failed, cancelled) is written as an
  immutable row" (ADR-004): `failTask` of `Dispatch` writes none, so a stream on a
  task whose dispatch failed never ends.
* "Resume replay from this event sequence number (inclusive)" (`StreamController`,
  the API's description of `Last-Event-ID`): `Rows` begins after it
  (`seq > afterSeq`), as the protocol has it.
* "Retries on 5xx" and the like (`HttpRetryService`): 501 is not retried.
* Progress on a task that is not PROCESSING is refused (`ExecutorController`):
  `ReportProgress` has no condition on the status, only the guard's stale word.
* "Infrastructure errors: revert task to PENDING" (`DispatchProcessor`, ADR-007):
  `ClaimThrows` and `RecordErrorThrows` are outside the reverting branch.
* "If a client retries after 24 hours with the same key, a new task will be
  created" (ADR-003): after `Expire` the retry gets the slot, and
  `InsertRefused`, the unique index, turns it into a 500.
* "Thrown when a server-side or network error persists after all retry attempts"
  (`DispatchFailedError`): `FailsFast` throws it when the first request times out.
* "Thrown when the destination returns a 4xx" (`NonRetryableError`): `FailsFast`
  throws it for 501 too, and the task fails as EXECUTOR_REJECTED.
* Deleting "events first, then tasks" prevents orphaned rows (`deleteOldData`):
  `Delete` between `SubmitResult` and `InsertEvent` leaves an event without a task.
* "Required for BullMQ and postgres.js to drain connections gracefully on SIGTERM"
  (`main.ts`): with a stream open `CloseServer` never runs, nor what follows it.
* "The pool is drained gracefully on SIGTERM" (`DrizzleService`):
  `onApplicationShutdown` ends it with `timeout: 0` under whatever handler is
  still running.
* A malformed id is a 400 (`ParseUUIDPipe`): in a callback `Unreadable` comes first,
  the guard's query throws, and the answer is a 500.
* Unknown fields are rejected, "`.strict()` by default" (`ARCHITECTURE.md`):
  `LateChecks` has no `extra` for a result, whose schema is a union without
  `strict`.
* "A wrong seq causes extra data, not data loss" (`parseLastEventId`): an id beyond
  the log, or one of the framework's, makes `Open` skip the events up to it.
* "Uses KEEPTTL to preserve expiry" (`commitResult`): on a slot that expired in the
  meantime it makes one that never expires.
* `statusUrl` and `streamUrl` of a 202 lack the `/v1` that `main.ts` puts in front
  of every route (no property is about URLs).

## 5. Theorems

All hold for every set of tasks, calls and sweepers, every subset
of the faults and every bound, from the assumptions in `TaskTable`
(`TableAssumption`: a call's name is not an error code), `Broker`
(`BrokerAssumption`: the bounds are naturals, at least one attempt) and
`Sweeper`, and the like for the constants of `Idempotency`, `Sse`, `Retention`,
`HttpRetry` (`RetryAssumption`: statuses, error codes and a timeout are told apart)
and the processes.

`ProxyProofs`:

* `TypeCorrect`.  `TypeOK` is not inductive: that a delivery number stays within
  its bound needs to know that a job waits only while deliveries are left
  (`DispatchQueueInv`), and the same for attempts (`NoticeQueueInv`).
* `RowsValid` and `ProxyImplementsLifecycle`.  The argument goes through one
  lemma, `RowSteps`: whoever steps, a row is kept, created, claimed, decided,
  cancelled or deleted (`RowStep`).  `RowInv` supplies what the refinement needs
  of a row: none before its insert, CHECK satisfied, no verdict before the end.
* `DispatchedAtMostOnce`, `DispatchNotLost`, from `DispatchInv`: a run past its
  claim has a task past PENDING, and past PENDING there is no way back
  (`Stable`).

`OutcomeProofs` proves the remaining safety properties from one inductive
invariant `Inv`.  Its core is `EndInv`: a call whose guarded update matched is
the only one of its task, the task is over, and the row, if it still exists,
carries that call's verdict.  `Stable` keeps it: a task that is over is left as
it is or deleted.  On it rest `NoticeInv` (bodies are verdicts), `LogInv` (one
announced end, and none while the call that ended the task is still to log it),
`SweepInv` and `CancelInv`.  From these: `EndAnnouncedOnce`, `LogIsTrue`,
`NotifiedByOne`, `WebhookIsTrue`, `CancelIsTrue`, `SweptOnce`, `CancelIsComplete`.

`EveryTaskFeeds` is the refinement `Sse` is built on: whatever the handlers and
the sweeps do, the log and the publishes of each task are an `EventFeed`.  That an
end is logged once is `LogInv`, by `LogSteps`; that nothing unlogged is published
needs `SeqInv`, that whoever is about to publish an event has logged it; and that
a sweep publishes one event of each task at most is `NoDoubleSweep`.

`IdempotencyProofs`: `KeyedTypeCorrect`, `CreatedExactlyOnce`, `AnswerIsBacked`.
The invariant says that a request that has created owns the one row and its job
(`CreatedInv`, `OneRowInv`), and that whatever a slot or an answer names has been
created (`NamedInv`).  It says nothing of who holds the slot: the slot alone
would not be enough, since it can be lost to expiry or to another request's
`releaseSlot`, and the unique index is.

`StreamProofs`: `StreamTypeCorrect`, `StreamInOrder`, `StreamEndsWithTheEnd`,
`StreamGapsExplained`, all for any order of publishes, any moment of SUBSCRIBE, any
number of breaks and heartbeats.  `InOrder` needs that `highestHistorySeq` is an
upper bound of everything sent (`HighestInv`), that the history yet to be replayed
is above it and increasing (`HistoryInv`), and that what is sent or buffered is in
the log (`LoggedInv`), so that a terminal event is recognised.

`GapsExplained` needs to know what becomes of an event that is neither sent nor
lost in a race.  `SpanInv` says that everything up to `highestHistorySeq` was sent,
excused or is below the client's position.  `QueriedInv` says, of the messages
buffered or on the wire, that below each there is nothing that is not excused,
covered by the history or among the messages before it (`Ordered`), and that nothing
published since the query is missing among them otherwise (`Arriving`).  So dropping
what `highestHistorySeq` covers and sending the rest never skips a number that is
not excused.

`RetentionProofs`: `InFlightIsKept` and `RetentionImplementsLifecycle`.  `PruneInv`
says that every task of a batch is over; `Stable`, proved for a step of the
proxy, keeps it between select and delete.  The second theorem is the refinement
again with retention's deletes: each is a `Removed` of the abstract life.

Retention deletes rows, so each invariant of `OutcomeProofs` had to be looked at
again.  `RetentionPrunes` reduces every step of retention to one shape (`Prunes`):
rows and events of some tasks that are over and aged go together.  `EndInv`,
`NoticeInv`, `LogInv`, `DispatchInv` and `SweepInv` survive that
(`GuaranteesSurviveRetention`); `CancelInv` does not, since a cancel's event is
pruned with its task.  `LogIsKeptWithRow` adds `KeptInv`: a handler that has logged
found its row, so that a row deleted since stays deleted and a row that exists
still has all of its log.

`PollsFollowTheNews` and `PollsMatchWebhooks` are about `Polling`.  `HeardInv` says
that the row is where a row with the status last heard may have got to, and that
an end once heard is the row's while it exists and the verdict of the call that
ended the task, also after the row is gone.  `ToldInv` ties deliveries and a 204 to
calls that ended their task, and `AgedInv` says that only retention deletes the row
of a task that is being or has been accepted.

`HttpRetryProofs`: `PostRetriesAsSpecified`.  The invariant describes the loop: the
answers so far are all transient, one per attempt, the status kept is the last that
came, and the sleeps are bounded (`LoopInv`); and how each way out follows from the
last answer (`EndInv`).

`DeploymentProofs`, for any number of processes and requests: `DeploymentInvariant`
and from it `DeploymentTypeCorrect`, `WorkersDrain`, `GracefulLeavesNoOrphan`,
`AnswersAreTrue`, `LoggedOnceAsEnded`.  `DInv` says which
connections a process has in each phase (`OpenInv`), that a worker without all of
them has no job (`WorkInv`), that a job that may still be taken has not stalled too
often (`StallInv`), and for every request how its connection, handler, log line, row
and job fit together (`Connected`, `Lined`, `Handled`, `Made`).  The argument behind
the orphan theorem: while a client waits the server is not closed, and until it is
the pool stays open, so a rollback that is begun can be finished.  Errors of
statements are not excluded: `Made` says of a request whether one was met, and only
a creation that was answered 500 (`Failed`) may then have a row or a job.

Every safety property of the passing runs is stated by a theorem.  Only
model-checked: liveness, for which the prover has no rule (`EveryTaskSettles`,
`EveryEventPublished`, `WebhookRuns`, `HistoryArrives`, `PublishedArrives`, `OldDataGoes`,
`SigtermExits`, `AcceptedIsDispatched`), and the refutations, which are single
behaviours.

## 6. Not modelled, and why

* Data: event payloads, URLs, headers, the wording of issues and log lines,
  `formatIssue`, `AppLogger`'s formats, the comparison of keys and tokens.  No
  property is about them.
* Configuration: Swagger, CORS, versioning, connection options and the cluster
  client; the rate limit is read from the environment and used nowhere.
* `RedisService.scanKeys`, `get`, `set`, `expire`: no caller.
* The liveness probe and the metrics endpoint: they touch nothing.
* An outage of Redis or Postgres as a state of its own: `Proxy` lets single
  statements fail and `Deployment` closes connections, but no model holds a
  handler up for as long as an outage lasts.
* Container build, benchmarks, CI.

## 7. Plan

All components with state of their own are modelled.  Left, in this order:

1. `Retention` beside `Idempotency`: a key is free again once its task is pruned,
   and a slot without a TTL outlives its task.
2. `Keyed` creation inside the whole `Proxy`, so that the theorems about a task's
   life are stated of creations with a key as well.
3. An outage of Redis that ends.
