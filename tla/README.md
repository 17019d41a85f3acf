# A TLA+ verification project for yaoguang-marketing

The repository is a multi-tenant marketing platform in Go: broadcasts, automations
and realtime journeys produce messages; background workers deliver them through
external providers; everything durable is in PostgreSQL (one system database, one
database per workspace). This project models the parts whose correctness depends on
the order in which several processes touch the same rows.

Paths below are relative to the repository root (`internal/...`); a file named without its
directory is under `internal/service` or `internal/repository`. `PROJECT.json` maps
each definition to the lines it models.

## 1. Inventory

| Part | State it keeps | Operations | Talks to | What is hard | Correct when |
|---|---|---|---|---|---|
| Delivery ledger (`internal/repository/delivery_*postgres.go`) | `delivery_intents`, `delivery_attempts`, `delivery_reconciliations` | reserve, start attempt, record outcome, suppress, receipt, resolve | queue worker, receipt API, operators | lost provider answers, late and repeated receipts, overlapping workers | a message is accepted at most once as far as answers are read right, settled intents stay settled and are true |
| E-mail queue and worker (`internal/service/queue/worker.go`, `internal/repository/email_queue_postgres.go`) | `email_queue` rows with token, lease, attempts, retry time | enqueue, claim, complete, fail, pause, resume, delete | ledger, provider, circuit breaker, rate limiter | leases that end under a slow worker, crashes between two transactions | nobody writes with a lost claim, crashed rows are taken again |
| Tasks (`internal/service/task_service.go`, `task_scheduler.go`, `internal/repository/task_postgres.go`) | `tasks` rows with status, lease, retry count, state | create, dispatch, lease, save, end, release, pause, resume, cancel, trigger, reset, delete | processors, broadcast events, HTTP dispatch | doubled dispatch, shutdowns, timeouts, late final writes, read-then-write handlers | one processor at a time, progress not lost, retries used for failures only |
| Broadcasts (`internal/service/broadcast_service.go`, `internal/service/broadcast/`) | `broadcasts` row, recipient cursor and phase in the task state, one intent per effect key | schedule, prepare, send in batches, pause, resume, cancel, select winner | tasks (through the event bus, inside the transaction), queue, ledger | whole-row writes of rows read earlier, status read without a lock, handler errors swallowed, runs that overlap | nobody is skipped, nobody gets two e-mails, cancel is final, queues drain |
| Circuit breaker, rate limiter (`internal/service/queue/`) | per-integration counters in memory | allow, record | worker | shared by goroutines | opens and closes as configured |
| Realtime pipeline (`internal/service/realtime_*`, `pkg/broker`, `internal/repository/realtime_postgres.go`) | `event_outbox`, `consumer_inbox`, `side_effect_executions`, broker queues, dead letters | append, relay, consume, retry, dead-letter, schedule | RabbitMQ, Redis, automations | at least once everywhere, lost confirmations, leases of slow holders | nothing accepted is lost, each effect happens once |
| Automations (`internal/service/automation_*`, `internal/repository/automation_postgres.go`) | `contact_automations` with claim, version and status, `automations` with status and version, trigger bindings | enrol, claim, plan, commit, exit; pause, activate, edit the trigger | realtime pipeline, queue | a step planned on a row that changes meanwhile, a version that changes under a journey | steps one by one, an ended journey stays ended, a journey goes on |
| Webhooks out (`internal/service/webhook_delivery_worker.go`, `webhook_subscription_service.go`) | `webhook_deliveries` with claim time and attempts, the subscription's switch and failure count | queue, sweep, claim, renew, post, settle, retire, edit | customers' servers | slow workers, stale cached subscription, writes without a token | no two requests at once, no delivery stranded |
| Import jobs (`internal/service/import_job_service.go`, `import_job_worker.go`, `internal/repository/import_job_postgres.go`) | `import_jobs` with five counters, `import_job_rows` with claim token and lease, the rows' keys in `customer_idempotency` | upload, claim, complete, cancel, reject | tasks, `UpsertCustomerBatch`, `imports.process` | takeover of a chunk, cancel in the middle, counters kept by several processors | counters are the rows, a line is imported once |
| Audiences, campaigns, segments | job cursors, versioned builds | build in chunks | tasks | restarts in mid-build | readers see whole versions |
| Frequency caps, customers, ingestion, connection manager, caches, web analytics | various | various | various | limits, merges, eviction | see PROJECT.json |
| Provider adapters, templates, blog, authentication, LLM, demo data, console | none relevant here | I/O and CRUD | external services | none for a model checker | not modelled |

The hazards these parts are exposed to, each at its line, are in `PROJECT.json` under
`hazards`; the properties below were chosen from that list.

## 2. Plan

Done: (1) `DeliveryLedger` with its abstract specification `DeliveryEffect`; (2) the
proofs about it; (3) `TaskLease`; (4) `Broadcast`; (5) `Realtime` with its abstract
specification `JourneySteps`; (6) `WebhookDelivery`; (7) `ImportJob`; (8) the proofs of
type correctness, the safety invariants, the action properties and the refinement of
(3) to (7), section 5.

Next, in this order:

1. Proofs of what the present hypotheses leave open: what remains of `DeliveredStays` and
   `ProgressKept` without `Prompt`, and of `OneEmailEach` within one phase of an A/B test.
2. Modules that are missing: the circuit breaker of an integration under concurrent
   workers, send rate limits, campaign snapshots, frequency caps, the pool of workspace
   connections; direct channel messages as an extension of `DeliveryLedger`.

## 3. Modules

| Module | Role |
|---|---|
| `DeliveryLedger` | ledger, queue row, worker goroutines, provider, receipts, operators |
| `DeliveryEffect` | abstract specification: what the ledger promises per effect key |
| `DeliveryLedgerProofs` | type correctness |
| `DeliverySafetyProofs` | the inductive invariant, at-most-once, and completed rows stay |
| `DeliveryRefinementProofs` | no blind resend, and the refinement of `DeliveryEffect` |
| `TaskLeaseProofs`, `BroadcastProofs`, `RealtimeProofs`, `WebhookDeliveryProofs`, `ImportJobProofs` | the theorems about the modules of these names |
| `TaskLease` | one task row, its executions, the requests that change it |
| `Broadcast` | one broadcast, its task, the orchestrator's runs, its queue rows, requests |
| `Realtime` | event, outbox, relay, broker, rule, journey and delivery workers, scheduler |
| `JourneySteps` | abstract specification: what the pipeline promises of one journey |
| `WebhookDelivery` | delivery rows, workers, the subscription and its edits |
| `ImportJob` | upload, job counters, rows, task and callers of `imports.process` |
| `MCDeliveryLedger`, `MCTaskLease`, `MCBroadcast`, `MCRealtime`, `MCWebhookDelivery`, `MCImportJob` | the runs' modules; `MCRealtime` and `MCImportJob` also hold a statement of the repository that the code does not keep |

Operators whose comment starts with "Mutant:" are not part of the specification. Each
is the plausible bug that shows that a property can fail.

### DeliveryLedger

`intent`, `attempts`, `recon` and `row` are the four tables, per e-mail. `claim` holds
one record per execution of `processEntry`: the claim number stands for the claim token
and for the goroutine, `phase` for the point it has reached between two transactions,
`no` for the attempt it opened. `accepted` and `misread` are the provider's own state, which
no code can read: the submissions it took, apart from those whose lost answer the worker takes
for a failure. An operator sees both as evidence.

One action is one database transaction or one provider call:

* producers: `ReserveIntent`, `ReserveAndEnqueue`, `Enqueue`;
* worker: `ClaimPending`, then `IntegrationMissing` / `BreakerOpen` / `PassLimits`,
  then `JourneyEnded` / `AudienceUnavailable` / `AudienceLeft` + `FinishSuppression`,
  or `StartAttempt`, `SubmitEmail`, and `RecordDeliveryFailure`, or `PersistAccepted` and
  `Confirm` (`FinishUnledgered` without a ledger); `Abandon` at any point is a crash, a
  cancelled context or a database error;
* time: `LeaseExpires` (worker alive or not), `RetryDue`;
* `RecordReceipt` for any accepted message at any time, in any order, repeatedly;
* operators and services: `RequestReconciliation`, `ResolveUnknown`, `PauseRow`,
  `ResumeRow`, `DeleteRow`, `DeleteForEmail`.

Abstractions, and why they lose nothing:

* Rows of different e-mails never touch each other, so one e-mail is enough for TLC;
  the proofs are for any set `Entries` and use this independence explicitly (`Frame`).
* `ClaimPending` gives one token to a batch, but every later statement also names the
  row, so a token per row is equivalent.
* Times are reduced to none / in the future / passed.
* Broadcast e-mails get an intent (`queue_message_sender.go`), automation e-mails are
  enqueued without one (`automation_node_executor.go`): the constant `Ledgered`.
* The application always wires the delivery repository, so the fetch path without claims
  is dead code and left out, as are the branches of `processEntry` that the e-mail
  service cannot reach for ledgered rows.
* Broadcast attempts store no provider message id, so a receipt finds the latest
  attempt of the effect key.
* `ProviderAnswers` says which answers the worker may read for a message that was taken or not.
  `isUncertainProviderError` (`queue/worker.go:780`) is a list of substrings and timeouts. A
  message that was taken may therefore end as `accepted`, as `uncertain` (a timeout, a connection
  reset, "unexpected EOF"), or as `failed`: a connection closed after the data (`smtp_service.go:482`)
  is a plain "EOF" or a short response, which the list does not hold. The last kind goes to `misread`:
  the attempt becomes `transient_failed` and the message is sent again. A permanent error
  (`rejected`) is an answer the provider did give.
* `Evidence`: operators follow the runbook (`docs/operations/delivery-reconciliation.md`)
  and order a retry only when the provider did not accept. The code cannot check this,
  and at-most-once depends on it.

### TaskLease

`task` is the row, with `timeout_after` and `next_run_after` reduced to none / ahead /
passed and the processor's state to a cursor. `exec` holds the executions of
`ExecuteTask`: phase, context (live, cancelled by the parent, past its deadline), what
the processor returned, and its position in memory. `owner` and `fails` are history
variables: the row records no owner, and `fails` counts the failures since the last
success or the last request that granted a fresh budget. `request` is a handler between its read and its write; `broadcast` holds
the statuses the broadcast has had, because the services read it without a lock and
update it without a guard.

`Finish` is the end of `ExecuteTask`: its `select` with the three branches (`CutOff`,
`Done`, `ProcessErr`) and the one write each makes on a detached context. Choosing the
branch and writing are one step: a branch that is ready stays ready. `FinishFails` is that
write failing, which is only reported while the processor may still be unwinding; `Crash` is
the death of the process, with all that its memory held.

`kind` says what the task does. A segment build saves its progress on the execution's context,
so `SaveState` needs that context to be live. The broadcast's orchestrator saves on
`context.Background()` (`broadcast/orchestrator.go:518`), and `SaveStateTx` asks only that the row
be running: an orchestrator that was cut off may save into the row as its successor runs it and
move the cursor back. `ProgressKept` is therefore no promise for broadcasts; `Broadcast` has the
same late save, and `NoneSkipped` and `OneEmailEach` say why a replayed recipient does no harm. The
web analytics backfill also saves on its context, but only logs a save that fails and starts over
when its rules change; it is not modelled. `HandleRequest` is the second half of
`handleBroadcastPaused/Resumed/Cancelled`, `TriggerTask` and `ResetTask`. Requests of one
broadcast are kept apart by the lock that the publisher's transaction holds on its row.
`handleBroadcastSent/Failed` are subscribed to events nobody publishes, and the
"existing task" branch of `handleBroadcastScheduled` needs a broadcast that is scheduled
twice, which the service refuses; neither is modelled.

`RequestsFor` gives each kind the requests that reach it: a broadcast's events find the task that
carries its id, `TriggerTask` and `ResetTask` refuse a task without a recurring interval. A
recurring task keeps its progress for its end.

`Prompt = TRUE` assumes that the final write of an execution lands before its lease
ends. The code has no such guarantee (the write has no deadline); `task_exclusive` shows what
holds with it, `task_requests` what holds without it, and section 6 what breaks.

### Broadcast

`bc` is the `broadcasts` row, `task` its task with the recipient cursor, phase and total of
the processor's state, `rows` the effect keys with their intents and queue rows. `run` holds
two executions of `Process`: the point it has reached, the row as it last read it (`bc`),
its cursor, and whether its context is live. `req` is a request between its read of the row
and its write; `event` a `broadcast.paused` event that the recipient feed sent and that the
task handler has not handled. `handled` is a history variable: the recipients a run dealt
with.

A run follows `orchestrator.go`: prepare the audience and return; count the recipients and
return; then choose the phase, load the templates, and loop over refresh, timeout check,
`FetchBatch`, `SendRecipient` for each recipient, `EndBatch`, `SaveProgress`. Between any two
of these points other runs and requests act. `PhaseComplete`, `TestCompleted`,
`EvaluateWinner` are the A/B test; `ReturnError` with `ReadToFinalize` and `FinalizeStatus` is
the deferred function of `Process`. Writes of the row are whole-row writes of the copy in
memory, under the guard of `UpdateBroadcastTx` (`Writable`); `UpdateBroadcastStatusTx`, which
requests use, writes the lifecycle columns without a guard (`StatusWrite`). `CutOff` is a
shutdown or a passed deadline: the task has been written by `ExecuteTask` and `Process` is
still unwinding, so two runs overlap.

Abstractions: recipients are numbered in the order of the keyset cursor, so the cursor and
the offset are one number. The variation of a recipient is a hash; the parity stands for
it. A queue row that a worker has taken belongs to `DeliveryLedger`. A batch that
is cut short after any recipient (`EndBatch` at any `i`) covers timeouts, a failed feed and
a failed enqueue. `Serial` keeps requests apart, as a user interface does; with two requests
between read and write at once the last one wins, which is listed as a hazard.

### Realtime

`outbox`, `inbox`, `journey` (the `contact_automations` row) and `effect`
(`side_effect_executions`) are tables; `queue` is the number of copies of each message in the
broker, `dead` the dead-letter queues; `relay` and `worker` are the goroutines. `calls` is what
really happened outside and is stored nowhere.

`PublishMessage` waits for the broker's confirm and may try twice, so a message may be there
although the relay thinks it is not; `MarkOutboxPublished` and `ReleaseOutbox` are guarded by
the claim. Consumers take a message (`Deliver`), work, and `Settle` it: acknowledge, retry
through a retry queue, or dead-letter. `ProcessRuleEvent` is the one transaction of the rule
worker. `ClaimContactAutomation`, `CommitContactAutomationState` and
`ReleaseContactAutomationClaim` are the journey worker; the delivery worker goes through
`AcquireInbox`, `GetSideEffect`, `Submit`, `ExecuteJourneySideEffect`, `RecordOutcome` and
`CompleteConsumerMessage` or `FailConsumerMessage`, one transaction each. `ScheduleResume`
is the scheduler, `ExitJourney` a reply or a deleted automation.

`automation` is the `automations` row (live, version), whether its trigger binding is there
(`bound`), and what a request still has to do (`todo`). `Pause`, `Activate` and `Update` are two
steps each, as in `automation_service.go`: the row first, then `DropAutomationTrigger` or
`InstallTrigger`, which may fail; `InstallTrigger` then writes the row back unless the process
died. A new binding makes a new version (`Bound`). `journey.of` is the version the customer
entered; claim and commit ask for it (`Current`), the scheduler's query does not.

Abstractions: a token is the process that made it, which holds one claim of a kind. The
lease of a dead holder runs out at any time; a live holder's lease running out counts
against `MaxFaults`, like crashes, errors and lost answers; deferrals by an entry guard and 4xx
answers, which the code retries without a bound, count there too. Messages are a kind and a step;
ordering is not assumed anywhere. Side effects that are not webhooks carry an effect key that
their channel recognises, so a repeated call happens once (`Happens`).

### WebhookDelivery

`row` is `webhook_deliveries`, `sub` the subscription (on, switched off, retired with a
reason, deleted; failure count and start of the failure run), `worker` the poll of each worker
with the batch it claimed, the row it is at and its cached copy of the subscription, `edit` an
update of the subscription between read and write. `accepted` counts what the endpoint
accepted.

A poll is `Poll` (sweep and claim), then for each row `RenewClaim`, `GetByID`,
`ProcessDelivery`, `HandleResponse`, the write that the answer asks for on the subscription
(`ResetFailures`, or `ExpireStaleFailureRun` and `IncrementFailures` and `DisableWithReason`,
or `HandleGoneEndpoint`) and the one on the delivery (`WriteOutcome`), which carries no token.
`Panic` is the recovered panic that releases the row, `Crash` the death of the process.

`claimed_at` is lease and token at once; it is modelled by its writer and by whether the
lease has run out (`stale`). `BudgetSpent` is the end of the time `requestBudgetFor` leaves
within the lease: a request that is open then is cut off and no request begins after it.
`Prompt = TRUE` assumes that an outcome is written before the lease ends; the writes have no
token and no deadline tied to the lease, and without the assumption `DeliveredStays` fails
(section 6).

### ImportJob

`upload` is the request that stages a file, `job` the row with its five counters, `row` the
staged lines with claim and lease, `task` the job's task, `proc` the processors: callers of
`imports.process` and the execution of the task. `kind` says what a line holds: a customer, a
row that cannot be mapped to one, or a line that does not parse. `keys` holds the lines whose
idempotency key is committed in `customer_idempotency`; `applied` counts how often a line changed
the customers and guards nothing.

`StageImportRows`, `RejectImportJob`, `CommitImportJob` and `CreateTask` are the upload,
`ClaimImportRows` the transaction of a claim, `MapRow`, `ClaimCustomerIdempotency` with
`CommitCustomer`, and `CompleteRow` the three loops over a chunk. A transaction that would break a CHECK constraint of `import_jobs` fails
(`Checked`). The upsert of a row is a transaction of two steps: it inserts the row's key and, when
it was the first, writes the customer and commits. While it is open (`at = "commit"`) another
insert of the same key waits (`KeyHeld`); once it has committed, the other finds the key and is
answered with the stored response (`Answer`); if it rolled back, the other inserts the key itself. A
commit whose answer is lost leaves key and customer and reports a failure. A customer
that is refused, a failed statement and a crash count against `MaxFaults`. `Authorized` is the
identity that `UpsertCustomerBatch` asks of its context; an execution of a task has none.

A token is the processor that wrote it: a processor completes only rows of the chunk it
holds and claims again only after giving it up. At most one execution of the task is under
way, which is `TaskLease`'s subject.

## 4. Runs

| Run | Bounds | States | Shows |
|---|---|---|---|
| `ledger` | 1 ledgered e-mail, 2 tries, 3 claims, fairness | 65 thousand | `TypeOK`, `LedgerInv`, `AtMostOnce`, `NoBlindResend`, `EffectSpec`, `CrashRecovery` |
| `automation` | 1 e-mail without ledger, 3 tries, 4 claims | 87 thousand | `CompletedRowStays` |
| `task_exclusive` | 2 executions, 2 units of work, 1 retry, `Prompt`, each kind of task | 120 thousand | `TypeOK`, `Exclusive`, `ProgressKept`, `GivenUpIsEarned` |
| `task_requests` | 2 executions, 2 requests, 1 retry, late writes, no cursor, fairness | 504 thousand | `StaleRunningReaped` |
| `broadcast` | 2 recipients in batches of 2, 1 retry, 2 requests, 1 fault, no test | 1.8 million | `TypeOK`, `NoneSkipped`, `OneEmailEach`, `CancelIsFinal` |
| `broadcast_test` | 2 recipients, A/B test of half of them with automatic winner, 1 request, no fault, fairness | 72 thousand | `NoneSkipped`, `CancelDrains`, `PauseDrains` |
| `realtime` | 1 relay, 2 workers, 2 steps of which one calls a webhook, 1 fault, no edit | 442 thousand | `TypeOK`, `NothingLost`, `SettledHappened`, `JourneyRefined` |
| `realtime_live` | 1 relay, 1 worker, 1 step that may call a webhook, 2 copies, 1 fault, 2 edits, fairness | 251 thousand | `EventuallyConsumed`, `JourneyEnds` |
| `webhook` | 1 delivery, 2 workers, 2 attempts, threshold 2, 1 fault, 2 stalls, 1 edit, fairness | 423 thousand | `TypeOK`, `NoOverlap`, `DuplicatesNeedFaults`, `DeliveredStays`, `EventuallySettled` |
| `import` | 2 lines of 3 kinds in chunks of 1, the task and 2 callers, 2 calls, 1 fault, fairness | 425 thousand | `TypeOK`, `CountersAgree`, `CompletedMeansDone`, `ImportedOnce`, `OutcomeTrue`, `OutcomeStays`, `QueuedRowsEnd` |

Why the bounds are enough. Ledger: two tries make "failed, tried again, used up"
happen; with three claims two overlap in the first try and a third follows, or two overlap in the
second; the safety properties are theorems for any number. Tasks: two executions overlap, take over
from one another and spend the budget; two units of work let a saved cursor go back, since a
late save of the first unit meets the save of the second. Broadcast: with two
recipients a run can stop between them, with one fault a run is cut off or dies and a second
overlaps with it, with two requests it is paused and then resumed or cancelled. The test run
has one request and no fault because `PauseDrains` is a promise for runs that are not
held up: a run that stalls between the two halves of preparing the audience, across a pause
and a resume, writes the paused row it had read. Realtime: two steps let a commit of the
first meet the second; two workers and one fault let one take over from another that is
alive, dead or mistaken about its call; one copy of each message is enough since a second
delivery also comes from retries and crashes, and the journey's steps and side effects are
independent of the number of copies. Edits of the automation are left to `realtime_live`, and for
safety to the theorems, whose proofs cover any number of them. `realtime_live` needs two edits, for a pause and the activation
after it; with them it is checked with one worker, who dies and comes back as its own successor, and
two copies, since two workers and two edits under fairness make too many states for a run. Webhook: two stalls spend a budget and then the lease;
two attempts with a threshold of two reach retirement and the end of the ladder. Import:
`MaxRetries` is at least `MaxFaults + MaxCalls`, so that the task's budget is never spent by
claims that callers took over; with one row per chunk two processors are in the same job at
once, and a takeover, a replay, two transactions with one key and a cancel all happen.

Two runs each find a statement of the repository violated (section 6):

| Run | Statement | What happens |
|---|---|---|
| `journey_exit_lost` | a concurrent exit is never resurrected by a retry | a commit planned before the exit makes the journey active again |
| `import_unauthenticated` | the background task does not depend on a request's identity | it does, and a queued import never ends |

Runs use `CHECK_DEADLOCK FALSE`: an e-mail, delivery, journey or import that is settled, a
task that is over and an exhausted bound legitimately end the behaviour.

### What the properties say

Ledger and queue:

* `LedgerAgrees`, `CompletedRowIsSettled`, `ClaimInv`, `AcceptanceIsLatest` (the parts of
  `LedgerInv`): section 5.
* `AtMostOnce`: at most one submission of a ledgered e-mail is accepted, apart from those whose
  lost answer was taken for a failure.
* `NoBlindResend`: an attempt is opened only when nothing was accepted, with the same exception,
  and every earlier attempt is recorded as failed.
* `EffectSpec`: deliveries happen while the key is open, verdicts are final, confirmed means
  delivered and withheld means not delivered. Only a delivery that was misread and forgotten allows
  a second one, or one after the key was closed: a receipt for the first may close it meanwhile.
* `CompletedRowStays`: only deletion ends a completed row; a worker that lost its claim
  cannot reopen it.
* `CrashRecovery`: nothing stays processing because its worker died (with a disjunct for
  the exhausted bound on claims).

Tasks:

* `Exclusive`: never two processors with a live context on one task.
* `ProgressKept`: the saved cursor of a task that is no broadcast never goes back (scheduler only:
  a trigger writes the state it read earlier and may move it back).
* `GivenUpIsEarned`: a failed task has more than `max_retries` failures in a row behind it.
  A cancel is recorded as a failure and counts as one; that it does is listed in section 6, and no
  run with cancels states this property.
* `StaleRunningReaped`: nothing stays running because its process died (with a disjunct for
  the exhausted bound on executions).

Broadcast:

* `NoneSkipped`: no cursor, saved or in memory, has a recipient behind it that no run dealt
  with, and a broadcast that counts as enqueued reached its whole audience.
* `OneEmailEach`: without an A/B test, retries, replays and overlapping runs give a
  recipient one delivery.
* `CancelIsFinal`: no whole-row write of an old copy undoes a cancel.
* `CancelDrains`, `PauseDrains`: rows a run enqueues while the broadcast is being cancelled
  or paused do not stay ready to be sent.

Realtime:

* `NothingLost`: an accepted message that is not consumed waits somewhere or was given up
  visibly (dead letter, dead outbox row).
* `SettledHappened`: an effect recorded as confirmed, or a command recorded as completed, is
  one that happened.
* `JourneyRefined`: in `JourneySteps`' view the journey takes its steps one by one and
  performs each requested effect at most once. The exception that the mapping makes is a
  webhook whose answer was cut off (section 6).
* `EventuallyConsumed`, `JourneyEnds`: under fairness, every accepted message is consumed or
  given up visibly, and a journey ends while its automation stays live in the version the
  customer entered.

Webhooks:

* `NoOverlap`: two workers never have a request for one delivery open together.
* `DuplicatesNeedFaults`: the endpoint accepts a delivery twice only if a statement,
  an answer or a process was lost.
* `DeliveredStays`: a delivered row is not queued again.
* `EventuallySettled`: a queued delivery is delivered, uses up its attempts, or is deleted.

Imports:

* `CountersAgree`: the counters are the numbers of rows. `CompletedMeansDone`: a completed
  job has an outcome for every line. Both exclude an upload that was overtaken by a cancel or
  an early `imports.process` (`upload.raced`), and the second one that broke off; section 6
  says what happens then.
* `ImportedOnce`: takeovers, replays and transactions that meet do not import a line twice.
* `OutcomeTrue`: succeeded means imported, and failed means not imported unless a statement
  failed.
* `OutcomeStays`: a late processor does not change an outcome.
* `QueuedRowsEnd`: a queued job whose rows need no customer to be written ends, though
  processes die with rows leased. It says nothing of rows that do need one, because of
  `import_unauthenticated`.

### Fairness

Workers and schedulers poll on tickers, clocks advance, and whoever has begun a unit of work
either goes on with it or is cut off. So there is weak fairness on:

* ledger: claiming, working or abandoning, the passing of leases and retry times;
* tasks: dispatching, leasing, finishing, the passing of leases;
* broadcast: the start of a run when its task is due, every step a run takes by itself
  (for a run that is cut off, its failing), the write of a request that has read, the handling
  of the paused event;
* realtime: each relay's steps and its claim of everything that is due, each worker's steps,
  deliveries, the scheduler. One strong fairness: acquiring an inbox row or a journey, which
  is refused as long as somebody else holds it, succeeds if it keeps being possible, since a
  refused message comes back after a delay and leases end;
* webhooks: each worker's poll and steps, leases nobody holds, retry times;
* imports: the start of the task, its loop, each processor's chunk, leases.

Producers, receipts, operators, edits and requests from outside owe nothing.

## 5. Proofs

Every theorem holds for all values of the constants that satisfy the module's assumption:
any set of e-mails, deliveries, workers, relays, callers and runs, any audience, batch,
chunk and journey length, any budget of attempts, retries, requests and faults. The assumptions
(`LedgeredAssumption` and `BoundsAssumption`, `TaskBounds`, `BroadcastAssumption`,
`RealtimeAssumption`, `WebhookAssumption`, `ImportAssumption`) ask only that sizes are natural
numbers, positive where zero would mean no system, that `None` is nobody, and that a run of
webhook failures may get as old as the window that retires the endpoint (`Window < RunMaxAge`).

| Theorem | Statement | Hypotheses |
|---|---|---|
| `TypeCorrect` | `Spec => []TypeOK` | |
| `LedgerConsistent` | `Spec => []LedgerInv` | |
| `EmailAtMostOnce` | `Spec => []AtMostOnce` | |
| `CompletedForGood` | `Spec => CompletedRowStays` | |
| `NeverResentBlindly` | `Spec => NoBlindResend` | |
| `LedgerImplementsEffect` | `Spec => EffectSpec` | |
| `TaskTypeCorrect` | `Spec => []TypeOK` | |
| `GivenUpOnlyEarned` | `Spec => []GivenUpIsEarned` | |
| `OneProcessorAtATime` | `Spec => [](requests = 0 => Exclusive)` | `Prompt` |
| `ProgressNeverLost` | `Spec => ProgressKept` | `Prompt`, `MaxRequests = 0` |
| `ImportTypeCorrect` | `Spec => []TypeOK` | |
| `CountersAlwaysAgree` | `Spec => []CountersAgree` | |
| `CompletedIsDone` | `Spec => []CompletedMeansDone` | |
| `OutcomesStay` | `Spec => OutcomeStays` | |
| `ImportedAtMostOnce` | `Spec => []ImportedOnce` | |
| `OutcomesAreTrue` | `Spec => []OutcomeTrue` | |
| `WebhookTypeCorrect` | `Spec => []TypeOK` | |
| `RequestsNeverOverlap` | `Spec => []NoOverlap` | `Prompt` |
| `DeliveredIsFinal` | `Spec => DeliveredStays` | `Prompt` |
| `DuplicatesAreFaults` | `Spec => []DuplicatesNeedFaults` | `Prompt` |
| `RealtimeTypeCorrect` | `Spec => []TypeOK` | |
| `NothingIsLost` | `Spec => []NothingLost` | |
| `SettledMeansHappened` | `Spec => []SettledHappened` | |
| `RealtimeImplementsJourney` | `Spec => JourneyRefined` | |
| `BroadcastTypeCorrect` | `Spec => []TypeOK` | |
| `NobodySkipped` | `Spec => []NoneSkipped` | |
| `OneEmailPerRecipient` | `Spec => []OneEmailEach` | `~Testing` |
| `CancelledForGood` | `Spec => CancelIsFinal` | `Serial` |

The hypotheses are those of the runs, and each marks a place where the code gives no more:

* `Prompt`: final writes of a task execution, and outcome writes of a webhook worker, land
  before the lease ends. They carry neither token nor deadline; section 6 says what breaks.
* `requests = 0`, `MaxRequests = 0` (and, in `ProgressKept` itself, not a broadcast): a pause, resume, cancel, trigger or reset writes the row it
  read earlier, and may free the row of an execution that works or move its cursor back.
  `OneProcessorAtATime` covers every behaviour up to its first request.
* `~Testing`: the effect key holds phase and variation, so a recipient may have one delivery in
  each phase of a test (section 6).
* `Serial`: two status requests between read and write overwrite each other.

### The ledger

`AtMostOnce` alone is not inductive: nothing in it stops a goroutine that
has opened an attempt from calling the provider after someone else did. What stops it is
that an attempt is opened only when no attempt is unresolved, and that whoever is in
flight owns the latest attempt. `LedgerInv` says this: a goroutine in flight owns the
latest attempt; while it has not called the provider, or knows the call failed, the intent
is submitting and nothing is accepted; after an uncertain call the intent is still
submitting or the acceptance is on record at the provider, so a receipt may have moved
it; an acceptance always belongs to the latest attempt, and the intent is then unresolved,
confirmed or terminally failed, none of which allows a new attempt. The one way back to
queued, the verified retry, needs `Evidence` that nothing was accepted. A misread acceptance is
outside all this, since its attempt is recorded as failed, and is kept apart in `misread`: it may bring
about a second submission, and its receipt may settle the intent under a goroutine that is about to
make one, which is why the invariant says `submitting` or `OnRecord`, and why the refinement has a key
that a forgotten delivery closed stay open to one more.
`DeliverySafetyProofs` proves this entry by entry: a step either leaves an entry untouched
or keeps its part of the invariant, one lemma per action. `DeliveryRefinementProofs` sorts
the steps into four kinds as the abstract specification sees them (nothing visible, an
attempt opened, an acceptance, a status moved) and derives both action properties.

`CompletedRowStays` rests on two more facts. `HeldInProcess`: only a row that is being
processed carries a token, so that a claim that was lost owns nothing; it makes the
token comparison of the statements also a comparison of the status. `NoIntent`: a row without
a ledger never gets an intent, so an operator has nothing to resolve there; where there is a
ledger, `LedgerInv` says that a completed row's intent is settled and not unknown.

### Tasks

`GivenUpIsEarned` follows from `RetriesAreFailures`: `retry_count` never runs ahead of the
failures since the last success. `Exclusive` and `ProgressKept` follow from
`WorkerHoldsLease`: while nobody has changed the row from outside, an execution that works is
the one that wrote the lease last, the lease is live, and its position is at least the saved one.
This is more than exclusion: without the part about the lease, the scheduler could take the
row of an execution that still works. `ProgressKept` uses that whoever may still save works under a live
context, which is what a broadcast's orchestrator does not need.

### Imports

`BooksKept` adds to types and `CountersAgree` that a processor at a row has a chunk
(`ChunkOpen`) and the life of the job (`Lifecycle`): nothing works before the job exists, a
closed upload staged every line, a completed job that was not overtaken has nothing left. Each
statement moves a set of rows from one status to another and the counters by its size; `Moved`
and `Counting` are that arithmetic, used once per statement.
`ImportedOnce` and `OutcomeTrue` need what the processors remember (`MemoryTrue`: items have
customers, what was accepted was written, without a fault everything upserted was accepted) and
what the rows may say meanwhile (`RowsTrue`: a row that nobody claimed is in nobody's hands, one
that failed without a fault is in no hands that could still import it). A processor whose lease was taken
over goes on with its chunk, so that two processors may have a transaction for one row to make.
`KeysTrue` is what keeps `applied` at one: a line was applied once if its key is committed and not at
all if it is not, a transaction that is open on a key found it uncommitted, and no two are open on
one key. `RowsTrue` keeps the late outcome from being false.

### Webhooks

A worker has a row in its hands from the renewal until the outcome is written. `Hands` says
that it then holds an unexpired claim of the row, and that no two workers have one row in
hand; the second does not follow from the first for a row that has been deleted. Most steps are `Calm`:
they take nothing into hands and touch nothing in them; `Takes`, a renewal, is the only other.
`AcceptedOnce` is the invariant behind `DuplicatesNeedFaults`: acceptances outnumber faults by one at
most, and only for a delivery that is concluded, whose acceptance is recorded or in the hands of the
worker about to record it while nobody is about to send it.

### Realtime

`HandedOver` says that a message is acknowledged only when it is consumed and that an
outbox row is marked only when its message was handed over; `NothingLost` follows since every
step of a worker goes on with its message or settles it. `KnowsWhatHappened` says that a worker
which takes an effect for done is right, which gives `SettledHappened`. The refinement of
`JourneySteps` needs `CallInv`: whoever calls has reserved the effect, a webhook has one caller
from submission to outcome and its row says so meanwhile, and one that was called, its answer read, is not
free to be called again. Every step then maps to a step of `JourneySteps` (a commit, a call) or a
stutter.

### Broadcast

`Inv` adds to the types what runs, task and rows know of the recipients dealt with: a cursor,
saved, in memory or in the middle of a batch, has nobody undealt behind it; a copy of the row says
completed only if that is true, and so do the writes a request has prepared from it; the audience a run counted is the audience;
a run that sends has a template and a phase. Copies have to be in it, because every write
of the row is the write of a copy. Without a test the phase is single and the template A throughout, so the
effect keys of a recipient are one, which gives `OneEmailEach`. `CancelInv` says that a run that
remembers the cancel is right and that, with serial requests, none is under way once the
broadcast is cancelled.

In all these modules the proofs have the same shape: a lemma says what an action makes of
the state, generic lemmas say that such a change keeps a part of the invariant, and the step
lemma goes through the actions of `Next`.

### Only model-checked

Liveness (`CrashRecovery`, `StaleRunningReaped`, `CancelDrains`, `PauseDrains`,
`EventuallyConsumed`, `JourneyEnds`, `EventuallySettled`, `QueuedRowsEnd`) needs ENABLED and
fairness, which are beyond the prover. The two violated statements are refuted by the
behaviours TLC finds. Every other property of the runs is a theorem, under the hypotheses above.

## 6. Disagreements

Two are shown by a run:

* `journey_exit_lost`. `CommitContactAutomationState` (`automation_postgres.go:727`) compares
  claim token and version, not the status; `ExitContactJourneysOnReply` changes neither. A
  step planned before the reply makes the journey active again. `CHANGELOG.md:264`: "a concurrent
  exit is never resurrected by a retry".
* `import_unauthenticated`. `ProcessNextChunkInternal` ends in `UpsertCustomerBatch`, which
  authenticates the user of the context (`customer_service.go:105`); a task's context has none.
  `import_job_service.go:240`: "it must not depend on request JWT state that does not exist after
  restart". The rows stay leased; a run that then finds nothing to claim returns without
  progress, which makes the task pending with a fresh budget, so it may go on for ever.

The following were found with these modules too; no run is kept for them.

| Where | What the code does | What is said |
|---|---|---|
| `queue/worker.go:790`, `smtp_service.go:482` | a connection closed after the message was handed over reads as a plain "EOF" or a short response, which is none of the markers; the attempt becomes `transient_failed` and the message is sent again, and a receipt for the first is not applied while the intent is `transient_failed` | `docs/superpowers/specs/2026-08-29-yaoguang-marketing-platform-design.md:452`: an outcome that is unknown though the provider may have accepted is marked `unknown` and not sent again |
| `delivery_management_postgres.go:192` | a verified retry may find its row without an attempt left, and it is never claimed | a verified retry creates a retry opportunity |
| `queue/worker.go:336`, `email_queue_postgres.go:210` | an open breaker puts the row back after the claim has counted an attempt | the breaker burns no attempts |
| `queue/worker.go:465` | on a retry the suppression is rejected and the row only deferred | an ineligible customer is suppressed before sending |
| `task_service.go:833` | a final write that lands after the lease frees the row of the next execution, and a third starts beside it | with the grace, executions do not overlap |
| `task_service.go:1332` | a task that completes between the handler's read and write is made pending | a resume leaves a completed task completed |
| `task_service.go:1538` | with retries left a cancelled task becomes pending | `:1534` and `task_postgres.go:1182`: cancelling marks the task failed |
| `broadcast/orchestrator.go:518`, `task_postgres.go:702` | an orchestrator that was cut off saves its cursor over its successor's, which is further on | (recipients are replayed; their effect keys absorb it) |
| `automation_postgres.go:595`, `:1108` | a journey is claimed only in the version it entered; a pause drops the binding and the activation after it, or an edit of the trigger, makes a new version. Earlier journeys stay active for ever, and the scheduler goes on waking them (`:1512`) | `CHANGELOG.md:785`: "Pause to stop new enrollments while preserving in-progress journeys"; the design document `:340`: customers in a journey go on in the version they entered |
| `broadcast/orchestrator.go:1625`, `:1658` | the end of the test phase writes the row of the last refresh over a winner that was selected meanwhile | the selected winner is sent |
| `broadcast/orchestrator.go:884` | a run whose row is in none of the expected statuses has no phase and sends to the whole audience with both variations | `openapi/components/schemas/broadcast.yaml:119`: "Percentage of audience to use for testing" |
| `broadcast/orchestrator.go:1508` | the effect key holds phase and variation, so a recipient replayed in another phase gets a second e-mail | one e-mail per recipient |
| `webhook_subscription_service.go:373`, `:430` | an edit that read the subscription before it was retired switches it on again and clears the reason | `:391`: "An edit may not switch on a subscription Notifuse switched off" |
| `automation_executor.go:515` | an answer that is cut off is not a `net.Error`; it counts as a failure and the webhook is called again; an answer 4xx is retried without a bound | an unknown outcome is not repeated |
| `webhook_delivery_postgres.go:293` | outcome writes carry no token: one that is late overwrites what the next holder wrote | (needs a write later than the lease) |
| `import_job_postgres.go:179` | a claim that finds nothing still sets the job to processing, also a completed or cancelled one, and its task never ends | `docs/operations/customer-import-jobs.md:26`: uploading, staged, processing, completed, in this order |
| `import_job_postgres.go:99`, `:152` | rows staged after a cancel or after an early `imports.process` are not counted and can never be claimed; rejecting then changes rows without the counters | the counters are those of the rows |
| `import_job_service.go:164` | a job that a caller moved out of staged right after the commit gets no task | the background task continues |

## 7. Not modelled

PostgreSQL's transactions are taken as atomic and READ COMMITTED row locks as described
above.

* Ledger: direct channel messages (SMS, webhook channels) that use the ledger without a queue
  row, message history, metrics and logging. Pending reconciliation rows are carried in the
  model (`recon`), and `ResolveUnknown` leaves them as they are, as the code does; no property is
  stated about them.
* Broadcast: edits and deletion of a broadcast, a direct execution of the task before its
  time, and the branch for an open circuit, which the queue sender never takes.
* Realtime: the analytics consumer, the older in-process executor, bindings and match audits,
  the arithmetic of entry guards, edits of an automation that is paused, the three unguarded steps
  of its deletion, cutover and reconciliation reports. `RenewContactAutomationClaim` is never called.
* Webhooks: the test webhook, payload and signature, creating subscriptions, listings, rows
  that cannot be scanned.
* Tasks: the web analytics backfill's save, which restarts when its rules change.
* Imports: the parsing of a line, listings and error reports.
* The SQL builders, and the parts marked `not_modelled` in `PROJECT.json`, for the reasons
  given there. Most of the remaining source is request handling, rendering, provider formats
  and tables of data (a single list of e-mail domains is more than a third of all lines).
