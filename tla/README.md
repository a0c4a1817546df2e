# Formal model of the notification service

TLA+ modules, TLC configurations and TLAPS proofs for the service in `src/`: an API that accepts
bulk requests, an outbox in PostgreSQL, a publisher that relays it to RabbitMQ, and workers that
call SMS and e-mail providers with retries.

## 1. The system

| part | code | state | operations |
|---|---|---|---|
| bulk request | `app/services/notification_service.py`, `idempotency_service.py` | `notifications`, `notification_batches`, `idempotency_keys`, the Redis lock of a key | take the lock, reserve the key, insert batch, notifications, history and outbox rows in one transaction, answer, release the lock |
| idempotency cleaner | `app/services/idempotency_cleaner.py` | the same tables | delete expired records and free their keys |
| outbox publisher | `app/messaging/outbox_publisher.py`, `publisher.py` | `outbox_events`, its claimed list | claim due rows, publish each, mark it published, pending or failed |
| broker | `app/messaging/rabbitmq.py` | queues `high`, `low`, `dlq` | route, deliver, requeue, dead-letter at the delivery limit |
| worker | `app/worker/*.py`, `retry_policy.py` | the unacknowledged message; status, attempts, lock and history of a notification | get a message, reserve an attempt, call the provider, apply its result, acknowledge or reject |
| status table | `app/services/status_transitions.py` | none | which changes of status are legal |
| provider | `app/providers/*` | none | answer delivered, temporary or permanent error |
| read API | `app/api/v1/subscribers.py`, `notifications.py` | none; the client keeps its offset | one page of a subscriber's notifications, or one notification, each with its history |
| health, hashing, validation, settings, logging | the rest | none | no change of state |

The parts share no memory. They meet in the outbox table, the queues and the rows of
notifications: a request writes rows for the publisher, the publisher's messages start workers,
and workers write rows for the publisher again (retries, failure notices). There is one
`outbox-publisher`, one cleaner, a worker for each queue and an API in `docker-compose.yml`, and
the code is written for more of each (`SKIP LOCKED`, row locks, `worker_queue_mode`).

What is hard: messages arrive more than once, because a publish is marked in another transaction
than the one that claimed it and because a worker commits twice before it acknowledges; locks are
deadlines, and the calls they protect have no timeout; rows are read before a call and written
after it; pages are cut out of a table that grows. `PROJECT.json` lists these hazards at their lines.

What makes each part correct:

- *requests*: one batch per key and lifetime of its record; replies that tell the truth; an
  expired key is free again;
- *read API*: a walk over the pages skips and repeats nothing; an item is consistent in itself;
- *publisher*: nothing is marked published that was not sent; duplicates only after failures; an
  outcome stands; every row has one in the end;
- *worker and pipeline*: no open notification is lost; one provider call for an attempt number and
  `max_retries` of them; no overlapping attempts; a history that tells what happened; one failure
  notice for a drop; every notification final in the end;
- *as a whole*: an implementation of the lifecycle in `NotificationLifecycle`.

## 2. The modules

| module | models | composes |
|---|---|---|
| `NotificationStore` | the outbox table, the queues, time and the budget of failures | |
| `OutboxPublisher` | publisher processes | `NotificationStore` |
| `NotificationWorker` | worker processes | `NotificationStore` |
| `NotificationDelivery` | requests, publishers, workers and clock together; the properties of the pipeline | the two above |
| `NotificationLifecycle` | abstract specification: what a client may observe of a notification, with timely providers or with any | |
| `OutboxRelay` | several publishers with arbitrary insertions | `OutboxPublisher` |
| `Idempotency` | requests with one key, and the cleaner | |
| `KeyContract` | abstract specification: what a key promises its clients | |
| `SubscriberFeed` | the read API, with a client that walks through the pages | `NotificationLifecycle` with providers of any speed, as the writers |
| `MCDelivery`, `MCRelay`, `MCIdempotency`, `MCFeed` | values for TLC | the module they are named for |
| `PublisherProofs` | lemmas about rows, publisher steps and claims | `OutboxPublisher` |
| `RelayProofs` | theorems about the relay | `OutboxRelay`, `PublisherProofs` |
| `DeliveryProofs`, `AttemptProofs`, `LifecycleProofs`, `LimitProofs` | theorems about the pipeline | `NotificationDelivery`, `PublisherProofs` |
| `IdempotencyProofs`; `FeedProofs` | theorems about the key; about the read API | `Idempotency`; `SubscriberFeed` |

Conventions that the modules share:

- **A database transaction is one step**, unless the code reads, does something else and writes
  in it. `_publish_one` reads the row, publishes, and writes it: `LoadEvent`, then
  `PublishSucceeds` or `PublishFails`, then `MarkPublished` or `MarkPublishFailed`. `process` is
  two transactions with the provider call in between: `Reserve`, `ProviderReturns`, `Apply`.
  `create_bulk` reads the record, then writes; `cleanup_expired` selects, then deletes.
- **A column is written only if it changes.** The ORM's flush leaves out columns whose new value
  equals the one that was read; `WriteRow` does the same for `status` and for `locked_at` (`locked`
  says whether it is set), so a stale publisher that "sets" pending to pending overwrites nothing,
  and may still clear a `locked_at` that is not its own.
- **A row object is a snapshot.** The worker's session holds the notification that `reserve`
  returned, does not expire it on commit (`db/session.py:10`), and SQLAlchemy does not overwrite
  loaded attributes from a later SELECT without `populate_existing`. `apply` therefore decides on
  `worker[w].seen` and `worker[w].attempt`. What it sees is always `sent`, so its early return for a
  final row (`result_handler.py:36-40`) is never taken: it is no action of the model, and the proofs
  show that its guard holds in no reachable state (`MessagesTell`).
- **Timestamps are ticks left**, 0 when reached. One `Tick` advances every deadline. All processes
  read one clock, except that a publisher's may be up to `ClockLead` ticks ahead of the workers'
  when it asks whether a row is due (the comparison of `attempts.py:139` is between columns and
  needs no clock).
- **Failures** (crash, failing transaction, failing publish with or without the message accepted,
  a connection to the broker that closes under its worker) use up a budget `MaxFaults` in the
  pipeline and are unlimited in `Idempotency`. A crashed process starts again. A worker whose
  connection has closed goes on to the end of its message (`lost`), while the broker has given the
  message back; its `ack` or `reject` then raises, the process ends and is started again.
- **Timely** constants are assumptions of a run, never of a module: `PublisherTimely` (a batch ends
  before its claims time out), `ProviderTimely` (an attempt ends before its processing lock). The
  settings intend them (claim timeout 300 s, processing lock 60 s) and nothing in the code enforces
  them: neither the provider call nor the publish has a timeout. Each is a restriction of `Tick`.
- **What the provider saw** is kept in two ghosts. `called` has the attempts whose call has returned,
  or was cut off when its worker died, since such a call may have reached the provider; `confirmed`
  says that a call has returned "delivered" to a worker that has not died with the answer.
- **Ghosts instead of restrictions** where a property holds until something goes wrong: `late` in
  `OutboxRelay` (a claim has timed out in a publisher's hand), `mishaps` in `Idempotency` (a Redis
  lock has run out under its request; the cleaner has deleted a record it had not selected), and
  `moved` in `SubscriberFeed` (a notification has come into the selection, or left it). Nothing
  reads them but properties, so the behaviours stay those of the code.
- Operators under a comment `Mutant` are altered forms of the definition that follows. No
  specification uses them; each breaks one property, which shows that the property depends on the
  code.

Correspondence of actions and code, worker first:

| action | code |
|---|---|
| `GetMessage` | `queue.get` in `Worker.run_forever`; `Serves` is `_queue_names` |
| `SkipMessage` | `reserve` finds no row, or a final one |
| `DeferToWaitingRetry`, `DeferWithNewRetry`, `DeferAmbiguous` | the lock is taken: `_ensure_deferred_redelivery` finds one waiting row, none, or several |
| `DropBeforeProvider`, `BeginAttempt` | attempts used up, or one more |
| `ProviderReturns` | `_send_to_provider`, its exception handler included |
| `MarkDelivered`, `ScheduleRetry`, `Drop` | the branches of `ProviderResultHandler.apply` |
| `Ack`, `LoseMessage`, `WorkerFault` | `ack`, `reject(requeue=True)`, and a crash or an exception anywhere |
| `ClaimPending`, `LoadEvent`, `PublishSucceeds`, `PublishFails`, `MarkPublished`, `MarkPublishFailed`, `PublisherCrash` | `claim_pending` and the stages of `_publish_one` |
| `CreateBatch` | the transaction of `create_bulk` once its key is reserved (`Commit` in `Idempotency` is the same transaction seen from the key) |
| `AcquireLock`, `LockTaken`, `ReserveKey`, `GetRecord`, `Commit`, `Clash`, `RecheckFinds`, `RecheckFindsNothing`, `CheckToken`, `DeleteLock` | the stages of `create_bulk` in order |
| `CommitUnconfirmed`, `DatabaseFails`, `SetRaises`, `ReleaseRaises`, `Crash` | what may fail in `create_bulk`: the commit, with or without effect, any statement, the Redis commands before the `try` and in `finally`, the process |
| `SelectExpired`, `DeleteExpired` | `cleanup_expired` |
| `ConnectionLost` | the channel of `queue.get` closes before `ack` |
| `RetryUndefined` | `backoff_seconds[0]` of an empty list in `RetryPolicy.decide` |
| `Begin`, `SelectRows`, `LoadHistories` | a walk with `GET /subscribers/{id}/notifications`: its filter, then for every page the SELECT with ORDER BY, LIMIT and OFFSET, and `selectinload` with `_to_item` |
| `SelectOne`, `LoadHistory` | the same two statements of `GET /notifications/{id}`, or 404 |

Branches the model joins or leaves out: a notification that does not exist (`attempts.py:41`) is
part of `SkipMessage` and cannot happen, since rows and notifications are inserted together; a
record without `response_payload` cannot be read, since both are written by one transaction; a body
that is not JSON is never published; messages of one queue are unordered, because requeueing and
several workers reorder them anyway; a result with `success` but not `delivered` and no error type
is treated by `apply` as a permanent error and is part of `"permanent"`.

## 3. The runs

Every pass run explores its whole state space. Distinct states in parentheses.

| run | assumes | checks |
|---|---|---|
| `delivery_timely` (722k) | timely attempts and batches, 2 failures | `TypeOK`, `NoOverlappingCalls`, `HistoryTellsAttempts`, `OneFailureNotice`, `ConfirmedIsNotDropped`, refinement `ImplementsLifecycle` |
| `delivery_slow` (1096k) | 2 failures, any speed | `NotStranded`, `HistoryTellsResults`, `ConfirmationIsTold`, `NoticePerDrop`, refinement `ImplementsLifecycle` |
| `delivery_settles` (1169k) | timely batches, 2 failures, fairness for the last | `NotStranded`, `OneCallPerAttempt`, `OnlyLimitsStrand`, `EventuallySettled` |
| `delivery_two_queues` (80k) | no failures, one worker per queue, no backoffs, fairness | `EventuallySettled` |
| `long_backoff` (419k) | timely attempts, every backoff longer than the lock, 2 failures | `DuplicateIsDeferred` |
| `relay` (859k) | 2 failures; fairness for the last | `TypeOK`, `PublishedWasEmitted`, `AttemptsAccountForMessages`, `ClaimsAreExclusive`, `DuplicatesNeedFaults`, `GivingUpNeedsFaults`, `OutcomeIsFinal`, `EventuallyRelayed` |
| `idempotency` (684k) | nothing | `TypeOK`, `AcceptedOnce`, `ReplyIsTrue`, `RecordNamesHolder`, `OnlyTheRaceBlocksKey`, `LockExcludes`, refinement `ImplementsKeyContract` |
| `feed` (2696k) | writers that keep `NotificationLifecycle` with `Timely = FALSE` (proved of the pipeline: `KeepsLifecycle`) | `TypeOK`, `NothingSkipped`, `NothingRepeated`, `ItemsTellHistory` |
| `stale_apply`, `ambiguous_deferral`, `clock_lead`, `cleaner_race` | see section 4 | each finds a violation |

**Bounds and why they are enough.** The delivery runs have one notification and two workers (the
hazards are about two hands on one notification; `delivery_two_queues` has a second notification of
the other priority), `max_retries` 2 (a first attempt, a retry and the exhausted case), a lock of 2
ticks and a backoff of 1 (so a backoff ends before a lock that was taken earlier), a delivery limit
of 1 and two publish attempts (both limits are reached with two failures). `long_backoff` has a
backoff of 3 with the lock of 2; with both at 2 its property is violated, so longer it must be. In
`delivery_two_queues` the list of backoffs is empty: `max_retries - 1` requeues by the `IndexError`
stay within the delivery limit, so the property still holds without any failure. Retry rows are
never more than the six outbox rows allow: with a seventh row each of these runs reaches the same
states and leaves it unused, so `HasRoom` never holds anything back. The relay run has two
publishers of any speed and two retry rows of both priorities that are due at once or later. Three
publishers whose claims time out can do one thing more: with `outbox_max_attempts` of 3 one of them may
clear `locked_at` in a row that another has just claimed, and a row that is `processing` without
`locked_at` is never claimed again (`outbox_publisher.py:87`). TLC reaches such a row in that
instance, and none with two publishers or with two attempts; as no test or document says anything of
it, no run repeats it. `EventuallyRelayed` is a statement about two publishers, and `NotStranded`
counts such a row as one that stands for its notification. `docker-compose.yml` starts one publisher. A
request for a key involves at most three parties at a time (the holder of an expired record and two
that replace it), hence three requests: one with another body (the same recipients in another
order) and two that name a recipient twice. The feed has three notifications and pages of one, so
that a walk has up to four pages; the two oldest have one `created_at`, one is an e-mail, and any
of them may be committed at any time, so that a page already shown may get older company. `max_retries` is
1 there, which leaves room for a second final status (the drop for want of attempts and a late
result) and so for a walk over `delivered` that loses a row. Symmetry
is used in safety runs only, over workers and publishers.

**Fairness.** Weak fairness of each publisher's and each worker's loop and of time. The loops
(`while True`) poll without end, a provider call returns or raises, and a crashed process is
started again. The last is an assumption: `docker-compose.yml` has no `restart:` policy.
Clients are not assumed to send anything, and failures are not assumed to happen.

**What the less obvious properties say.**

- `NotStranded`: the service acknowledges a message early when the processing lock is taken, on the
  strength of a retry row that waits. The comparison `available_at >= processing_lock_until`
  (`attempts.py:139`) makes that safe: a row that is due sooner may be consumed while the lock still
  holds. The property holds even when a late result shortens another attempt's lock.
- `OneCallPerAttempt`: with unbounded provider calls two calls may overlap, but never with one
  attempt number, and never more than `max_retries` in all.
- `AttemptsAccountForMessages`: publishers that lost their claims cannot send a row more often than
  it was claimed.
- `HistoryTellsResults`, `NoticePerDrop`, `ConfirmationIsTold`: what is left of the timely properties
  when attempts outlast their locks. A final status may then be replaced (`stale_apply`), but the
  history keeps both, no attempt follows a final status, there are at most `attempts + 1` results (one
  for each attempt, and the drop of a message that finds the attempts used up), every drop has its own
  notice, and a confirmation of the provider is always in the history, even when `dropped` stands.
- `ImplementsLifecycle`: the refinement mapping takes `status`, `attempts` and `history` as they are,
  counts failure notices in the outbox, and takes `ProviderTimely` for `Timely`. In `delivery_timely`
  that is the lifecycle in which a final status stands, in `delivery_slow` the one in which a late
  result may replace it, at most as often as there are results to come. The lifecycle allows `sent` to be entered again from `sent`, which
  every retry does (`attempts.py:77`) although `ALLOWED_TRANSITIONS` does not list it; for every
  other change it asks the table.
- `ConfirmedIsNotDropped`: with timely attempts no duplicate, requeue or failing publish turns a
  delivery that the provider confirmed into a drop. A worker that dies with the answer in hand
  forgets it, so the ghost variable `confirmed` forgets it as well: the next attempt may fail.
- `EventuallySettled`: rows given up after `outbox_max_attempts` and messages out of deliveries end
  where no code looks. The property says that this is the only way for a notification to stay open,
  and that it takes failures up to one of the two limits. The one finite stream of high-priority
  rows in `delivery_two_queues` delays the low-priority one and does not starve it; an unending
  stream would.
- `OnlyLimitsStrand`: the safety half of `EventuallySettled`, at every moment instead of in the end.
  What is not final has a row that will be published, a message in a queue or a worker with its
  connection, or failures have already used up a limit. A worker that defers puts a new row in the
  place of its message, so duplicates wear nothing down; a claim that ends well costs no attempt.
- `DuplicateIsDeferred` in `long_backoff`: what `ambiguous_deferral` refutes for a backoff within the
  lock. A deferral row is due when the lock of the attempt ends; if the attempt fails the lock is
  set again, to the end of the backoff. Only if that is later does the deferral row stop being one
  that waits, and the new row is the only one.
- `GivingUpNeedsFaults`: up to the first claim that times out in a publisher's hand a row that
  produced no message is given up only for `outbox_max_attempts` failures. After it one is enough.
- `EventuallyRelayed`: a stale publisher may set `published` back to `pending`, but not for ever.
  One failure suffices for a row to be given up, since a claim that times out counts as an attempt.
- `ClaimsAreExclusive`, `DuplicatesNeedFaults`, `GivingUpNeedsFaults`, `OutcomeIsFinal` hold up to the first claim that
  times out in a publisher's hand, and not beyond it: that is what the timeout has to be long for.
- `ImplementsKeyContract`: clients of one key see a machine without locks, transactions or a
  cleaner, which accepts a batch when no earlier one is protected and repeats the answer of the
  protected one. An expired batch may be repeated only while no other is protected: after an insert
  that clashes, the record is looked up without its expiry (`idempotency_service.py:56-58`).
- `LockExcludes`: its second part says that the branch for `IntegrityError`
  (`notification_service.py:140-152`) is reached only after a Redis lock has run out, or when the
  cleaner has blocked the key.
- `NothingSkipped`, `NothingRepeated`: offset paging of a table that grows is not free of either in
  general. It is here because the order is newest first and nothing is deleted: rows that are
  inserted shift what follows towards later pages, which repeats and does not skip, whatever
  `created_at` the clock of another API process gives them. Rows that leave a selection by status
  shift the others to earlier pages: with the filters `queued` and `sent` that is the normal course,
  with `delivered` and `dropped` it takes a late result that replaces another, and without a filter for
  the status it cannot happen.
- `ItemsTellHistory`: the history in an item is read after the row, so it may know more than
  `current_status` and `attempts` and never less.

## 4. Disagreements between the code and its tests or tables

1. `stale_apply`: a result that comes after the processing lock expired is applied to the row as it
   was before the provider call. Worker A reserves attempt 1 and waits; the lock expires; B reserves
   attempt 2, delivers and commits; A's permanent error finds `sent` in its row object and writes
   `dropped` with a failure notice. `status_transitions.py:3-10` allows no such change, and
   `result_handler.py:36` tests for it. What a late result cannot do is checked in `delivery_slow`:
   the history and the notices still agree, and no attempt is made after a final status.
2. `ambiguous_deferral`: a duplicate during an attempt adds a row due at the end of the lock; the
   attempt fails temporarily, the lock is set to the shorter backoff and a second row is added; the
   next duplicate raises `MultipleResultsFound` in `scalar_one_or_none` (`attempts.py:148`).
   `test_notification_flow.py:290-292` expects duplicates to be acknowledged. Timely attempts with
   backoffs longer than the lock exclude it (`long_backoff`, `DeferralIsDefined`); the defaults,
   10, 30 and 60 s with a lock of 60 s (`core/config.py:23`, `:27`), are no such setting.
3. `clock_lead`: with a publisher ahead of the worker's clock, a retry is sent while its lock still
   holds for the worker, which then finds the row of this very message in `processing` and takes it
   for one that waits. Any lead suffices in reality, since the row is due at the very instant the
   lock ends (`result_handler.py:104-110`) and is marked `published` only after the message is out.
   `test_notification_flow.py:390-442` expects a retry that has gone out to be replaced. On one host
   `NotStranded` holds: `delivery_settles`, `delivery_slow`, `NothingStranded`.
4. `cleaner_race`: a record that expires between SELECT and DELETE (`idempotency_service.py:62`,
   `:71`) is deleted while its batch keeps the unique key; every later request is answered "already
   in progress". `test_notification_flow.py:131-163` expects expired keys to be accepted.

## 5. What is proved

The theorems hold for every set of notifications, rows, workers and requests, every finite set of
publishers and every value of the other constants that meets the named assumptions
(`StoreAssumption`, `PublisherAssumption`, `WorkerAssumption`, `IdempotencyAssumption`,
`FeedAssumption`): timely or not, with any list of backoffs, empty included, unless a theorem states
an assumption of its own.

*The pipeline*

- `TypeCorrect`: `Spec => []TypeOK`. `TypeOK` is inductive; one lemma per component
  (`PublisherKeepsType`, `WorkerKeepsType`, `CreateBatchType`, `TickType`).
- `NothingStranded`: `Spec => []NotStranded` if `ClockLead = 0`, without which it is false (run
  `clock_lead`). Not inductive alone. The invariant `Conserved` adds
  - `RowsTell`: a row that is absent or not yet due was never emitted; a claimed row is due; a
    published one was emitted. Without the first, a worker could defer to a row that is already
    spent; without the last, marking a row could lose its notification;
  - `HandsTell`: publishers hold rows that are due, and are about to mark published only what they
    emitted;
  - `MessagesTell`: messages in queues and hands come from rows that ask for a delivery, and a
    result is applied to a row that was not final when it was reserved.

  Steps are grouped by what they do. `HandOver` describes every worker step: rows only grow, what
  leaves a queue is in a hand, what is let go is final or carried on. `Relayed` describes every
  publisher step: what no longer waits to be emitted is a message. Each description is shown of
  each action, and each preserves the invariant once. `Conserved` was model-checked in the instance
  of `delivery_slow`, together with what `LifecycleProofs` adds to it.
- `CalledOnce`: `Spec => []OneCallPerAttempt`, from `CallsCounted`: the counter in the row runs
  ahead of every number handed out, and no two workers that are about to call hold the same one.
- `DeferralIsDefined` (`AttemptProofs`): `Spec => DuplicateIsDeferred` if `ProviderTimely`,
  `BackoffOutlastsLock` and `ClockLead = 0`; without the second it is false (run `ambiguous_deferral`).
  `RetriesTell` says that no retry row is due later than the lock of its notification, and that only
  one is due at the moment it ends. Rows that wait outlast the lock, so there is one at most
  (`OneWaitingRetry`).
- `FailuresStrand` (`LimitProofs`): `Spec => []OnlyLimitsStrand` if `PublisherTimely`,
  `ClaimTimeout > 0`, `ClockLead = 0` and there is a backoff. The last excludes the `IndexError` of an
  empty list, which requeues a message without a failure. The invariant adds two things to
  `Conserved`. `Claims`, shared with the relay, says that every publish attempt used up was paid for
  by a failure. `AllSound` says that what stands for an open notification is a row not given up, or a
  message that has been returned to its queue at most once per failure. One message may be returned
  more often, that of `DeferAmbiguous`, which no failure pays for; then two rows wait in its place.

*The lifecycle* (`LifecycleProofs`)

- `LockExcludesWorkers`: `NoOverlappingCalls` if `ProviderTimely`. Its invariant `AttemptsTell` says
  that a worker in an attempt still holds the processing lock of a row that has left `queued`; a
  tick that would end the lock is what `ProviderTimely` excludes.
- `RowStep` says what any step may do to a row, its history and its notices at once: nothing, accept a
  batch, begin an attempt, or end one, late or not. Every action of the pipeline is shown to be a
  `RowStep` (lemma `StepRows`), and the next six need `RowStep` only.
- At any speed: `HistoryIsConsistent`, `NoticesMatchDrops` and `KeepsLifecycle`. That a history has its
  shape is inductive (`HistoryTells`, from `Told` of each row); how long it can get is not. `ResultsTell`
  adds the attempts under way (`InFlight`) to the results already there: beginning an attempt adds two
  to the sum and to the bound, and a late result takes its attempt out of the sum. So a step that
  replaces a final status has an attempt of its own to spend, which `MayFinish` of the lifecycle asks.
  `NoticesTell` counts notices and drops as finite sets, which grow together.
- If `ProviderTimely`, without which they are false (run `stale_apply`): `HistoryIsOneWalk`,
  `NoticeWithDrop` and `TableIsObeyed`. `AttemptsTell` then excludes the late endings of `RowStep`, so
  that `Told` leaves room for one final status, and a history with one final status has one drop at
  most.
- `ConfirmationsAreTold`, at any speed: an answer is in a worker's hand until the history has it, and
  a worker that dies with it takes `confirmed` back.
- `ConfirmationStands` if `ProviderTimely`: while a worker holds the provider's yes the row is not final,
  and once the history tells of a delivery it has room for no drop.

*The relay* (`RelayProofs`): every safety property that the run `relay` checks.

- `TypeCorrect`, `PublishedIsTrue`, `ClaimsBoundMessages`, for publishers of any speed. Attempts and
  messages are related by `Licence`: every claim of a row is a licence to send one message, and a
  publisher holds it until it has tried. `RowsTell` and `HandsTell` say that messages sent and
  licences held never exceed the claims; a licence is counted per publisher, so their set is finite.
- `OneHandPerRow`, `FaultsPayForDuplicates`, `FaultsPayForGivingUp`, `OutcomesStand`, if
  `ClaimTimeout > 0`: from `ClaimsHold`, which holds until `late`, and rests on `Claims`. The steps of a
  publisher keep `Claims` in every system it is part of, so `PublisherProofs` proves that once, for the
  relay and for the pipeline. A row in a hand is still `processing` and belongs to that hand alone, and
  the message its holder may have sent is the only one that no failure has paid for. With a timeout
  of 0 a claim could be taken again in the tick in which it was made.

*The key* (`IdempotencyProofs`): every property that the run `idempotency` checks.

- `TypeCorrect`: `TypeOK` is inductive.
- `OneBatchPerKey`, `RecordAndHolderAgree`: `AcceptedOnce` alone is not inductive, since it says
  nothing of the record whose presence keeps a second batch out. `KeyInv` does: the record stands for
  the batch that holds the unique column and lives as long as its protection (`RecordStands`), a
  protected batch has the record (`ProtectedByRecord`), what a request or the cleaner has read is
  expired still (`ReadRowsAreStale`), and a request that has not inserted yet has said nothing
  (`PendingIsUndecided`). A step of a request is `Quiet` or `Inserting` (`RequestMoves`); an insert
  that the unique constraints admit finds nothing protected (`InsertFindsNoneProtected`).
- `KeepsContract`: the refinement, from `KeyInv`. A reply from a record is a `Repeat`, an insert is an
  `Accept`, every other step is a refusal, an error or a stutter.
- `LockIsExclusive`, `RaceIsTheOnlyBlock`: from `LockInv`, where an active request owns the lock, and
  a writer finds the record that it has read, or none, as long as no mishap has happened.
- `RepliesAreTrue`: from `ReplyInv`, which says what rows each batch has.

*The read API* (`FeedProofs`)

- `TypeCorrect`, together with `HistoryTells`: the history tells of every attempt that the row counts,
  and of a result if the row is final.
- `HistoriesCatchUp`: `ItemsTellHistory`, from `RowsAreTold`. Every row is told by its history when it
  is read; a history only grows (`HistoryGrows`), so that it still tells when it is read later.
- `WalksSkipNothing`, `WalksRepeatNothing`: `NothingSkipped` and `NothingRepeated`. The writers are any
  that keep `NotificationLifecycle` with `Timely = FALSE`; that the pipeline does is `KeepsLifecycle`.
  The invariant `Walk` counts what is ahead of a notification in the selection: as long as nothing
  has left, all that is wanted and not yet seen has at least `offset` others ahead of it
  (`WantedLiesAhead`); as long as nothing has come in, all that has been seen has fewer
  (`SeenLiesBehind`). A row that was final leaves a selection only with a second result in its history,
  and no write takes a result out again (`ResultsGrow`, `OnlyReplacedDepart`). `PageCuts` says what ORDER BY, LIMIT and OFFSET make of these counts; it needs
  the order to be total (`BeforeIsTotal`), which the id in ORDER BY provides.

Every safety property and every action property of every passing run is proved, each in the same
model that TLC checks. Of `EventuallySettled` the safety half is, as `FailuresStrand`. Only
model-checked: the liveness properties `EventuallySettled` and `EventuallyRelayed`, since liveness
under fairness and `ENABLED` are beyond the prover.

## 6. Not modelled

- *Health check and application object* (`app/main.py`): three connection checks, no state.
- *Configuration, logging, process set-up*: settings are CONSTANTS.
- *Mock providers*: test stubs; a provider is any choice of answers. *Factory*: a choice by channel.
- *Validation and hashing*: pure. The models take equal bodies to have equal hashes and different
  bodies different ones (`sort_keys` orders the object, the list of recipients keeps its order).
- *Migrations*: the tables of `models.py` again, created once.
- *RabbitMQ*: exchanges, durability and declaration; messages of a queue are a set.
- Order in which one worker asks two queues (`main.py:37`): high first, within one poll; with
  finitely many messages it decides no property here, and each queue of the deployment has its own
  worker.
- Clocks that differ between workers or API processes. They shift locks by as much as they differ,
  and may order a history (`models.py:118`) in another way than it happened.
- The ORM, apart from the readings named in section 2: a flush writes what differs from what was read,
  and a row object keeps what it read.
- More than two publishers: see the bounds in section 3.

## 7. Plan

1. *done*: `NotificationStore`, `OutboxPublisher`, `NotificationWorker`, `NotificationDelivery` with
   `NotificationLifecycle`; `OutboxRelay`; `Idempotency` with `KeyContract`; `SubscriberFeed`; a
   worker that survives its connection, clocks that differ, the empty backoff, a backoff that outlasts
   the lock; all the proofs of section 5.
2. *not planned*: an abstract relay. `OutboxRelay` publishes at least once, and what it adds to that
   (attempts, claims, the first timeout) is what its invariants say; an abstraction would repeat them.
3. *what is left*: a model of differing clocks among workers and API processes, if the service is to
   run on hosts whose clocks are not kept together.
