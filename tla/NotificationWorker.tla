--------------------------- MODULE NotificationWorker ---------------------------
(***************************************************************************)
(* app/worker: processes that take one message at a time, reserve a        *)
(* delivery attempt in one transaction, call the provider, apply its       *)
(* result in a second transaction and acknowledge the message.             *)
(***************************************************************************)
EXTENDS NotificationStore, Integers, Sequences

CONSTANTS
  Worker,          \* worker processes
  Mode,            \* worker_queue_mode of each worker
  MaxRetries,      \* max_retries
  Backoff,         \* retry_backoff_list, in ticks
  LockTTL,         \* processing_lock_ttl_seconds, in ticks
  ProviderTimely   \* TRUE: an attempt is over before its processing lock expires

ASSUME WorkerAssumption ==
  /\ Mode \in [Worker -> {"high", "low", "both"}]
  /\ MaxRetries \in Nat
  /\ Backoff \in Seq(Nat)
  /\ LockTTL \in Nat \ {0}
  /\ ProviderTimely \in BOOLEAN

VARIABLES
  status,    \* notifications.status
  attempts,  \* notifications.attempts
  lock,      \* notifications.processing_lock_until, ticks left (0: none)
  history,   \* the statuses in notification_status_history, oldest first
  worker,    \* worker[w]: where w is in its loop
  called,    \* the attempts for which the provider was called, or may have been
  confirmed  \* whether a provider call has returned "delivered", and no worker
             \* has died with that answer

rowVars == <<status, attempts, lock, history>>
ghostVars == <<called, confirmed>>
workerVars == <<storeVars, rowVars, worker, ghostVars>>

-----------------------------------------------------------------------------
Status == {"queued", "sent", "delivered", "dropped"}
Final == {"delivered", "dropped"}
Result == {"delivered", "temporary", "permanent"}

(***************************************************************************)
(* msg is the unacknowledged message in hand, lost whether the broker has  *)
(* taken it back meanwhile, attempt and seen the columns attempts and      *)
(* status of the row object that reserve returned, result what the         *)
(* provider answered.                                                      *)
(***************************************************************************)
WorkerState ==
  [pc: {"idle", "received", "sending", "applying", "acking"},
   msg: Message, lost: BOOLEAN, attempt: Nat, seen: Status, result: Result]

IdleWorker ==
  [pc |-> "idle", msg |-> NoMessage, lost |-> FALSE, attempt |-> 0,
   seen |-> "queued", result |-> "delivered"]

WorkerTypeOK ==
  /\ status \in [Notification -> Status \cup {"absent"}]
  /\ attempts \in [Notification -> Nat]
  /\ lock \in [Notification -> Nat]
  /\ history \in [Notification -> Seq(Status)]
  /\ worker \in [Worker -> WorkerState]
  /\ called \in [Notification -> SUBSET Nat]
  /\ confirmed \in [Notification -> BOOLEAN]

WorkerInit ==
  /\ status = [n \in Notification |-> "absent"]
  /\ attempts = [n \in Notification |-> 0]
  /\ lock = [n \in Notification |-> 0]
  /\ history = [n \in Notification |-> <<>>]
  /\ worker = [w \in Worker |-> IdleWorker]
  /\ called = [n \in Notification |-> {}]
  /\ confirmed = [n \in Notification |-> FALSE]

-----------------------------------------------------------------------------
(* The loop of Worker.run_forever. *)

LowReadsHigh(w, n) == n \in High   \* Mutant: the mode is ignored.

\* _queue_names
Serves(w, n) ==
  CASE Mode[w] = "high" -> n \in High
    [] Mode[w] = "low"  -> n \notin High
    [] OTHER            -> TRUE

\* queue.get.  A worker on both queues asks the high one first, but a message
\* may reach it before the answer of the low one: either may be taken.
GetMessage(w) ==
  /\ worker[w].pc = "idle"
  /\ \E m \in queue :
       /\ Serves(w, m.n)
       /\ queue' = queue \ {m}
       /\ worker' = [worker EXCEPT ![w].pc = "received", ![w].msg = m,
                                  ![w].lost = FALSE]
  /\ UNCHANGED <<outbox, emitted, dlq, faults, rowVars, ghostVars>>

\* With the message lost, ack raises and ends the process, which is started
\* again; nothing else is different.
Ack(w) ==
  /\ worker[w].pc = "acking"
  /\ worker' = [worker EXCEPT ![w] = IdleWorker]
  /\ UNCHANGED <<storeVars, rowVars, ghostVars>>

\* The worker lets go of its message without acknowledging it: reject(requeue)
\* after an exception, or the connection closing with the process.
LoseMessage(w) ==
  /\ IF worker[w].lost THEN UNCHANGED <<queue, dlq>> ELSE ReturnToQueue(worker[w].msg)
  /\ worker' = [worker EXCEPT ![w] = IdleWorker]
  /\ UNCHANGED <<outbox, emitted, rowVars>>

HasConfirmation(w) == worker[w].pc = "applying" /\ worker[w].result = "delivered"

\* A crash anywhere, or a transaction that fails and is rolled back.  A call
\* that is cut off may have reached the provider.
WorkerFault(w) ==
  /\ worker[w].pc # "idle"
  /\ Fault
  /\ LoseMessage(w)
  /\ called' = IF worker[w].pc = "sending"
               THEN [called EXCEPT ![worker[w].msg.n] = @ \cup {worker[w].attempt}]
               ELSE called
  /\ confirmed' = [confirmed EXCEPT ![worker[w].msg.n] = @ /\ ~HasConfirmation(w)]

\* The connection to the broker fails: the message goes back to its queue,
\* while the worker, which notices only at its next call, goes on with it.
ConnectionLost(w) ==
  /\ worker[w].pc # "idle" /\ ~worker[w].lost
  /\ Fault
  /\ ReturnToQueue(worker[w].msg)
  /\ worker' = [worker EXCEPT ![w].lost = TRUE]
  /\ UNCHANGED <<outbox, emitted, rowVars, ghostVars>>

-----------------------------------------------------------------------------
(* NotificationOutboxEvents: the rows a worker adds in its transactions.    *)

AddRetry(n, delay) == AddOutboxEvent(n, "retry", delay)

FailedAsRetry(n) == AddRetry(n, 0)   \* Mutant: the wrong kind of row.

AddFailed(n) == AddOutboxEvent(n, "failed", 0)

-----------------------------------------------------------------------------
(* NotificationAttemptService.reserve: one transaction under the row lock. *)

Reserving(w, n) ==
  /\ worker[w].pc = "received"
  /\ n = worker[w].msg.n

\* Mutant: dropped is not seen as final.
MissingOrDelivered(n) == status[n] \in {"absent", "delivered"}

\* No such row, or _is_final.
MissingOrFinal(n) == status[n] \in {"absent"} \cup Final

\* Mutants: the lock is looked for before the attempt only; it ends early.
LockOfQueuedRow(n) == status[n] = "queued" /\ lock[n] > 0
LockEndsEarly(n) == status[n] = "sent" /\ lock[n] > 1

HasActiveProcessingLock(n) == status[n] = "sent" /\ lock[n] > 0

AttemptsOverrun(n) == attempts[n] > MaxRetries   \* Mutant: off by one.

AttemptsExhausted(n) == attempts[n] >= MaxRetries

\* process returns; the message is acknowledged next.
Done(w) ==
  worker' = [worker EXCEPT ![w] =
               [IdleWorker EXCEPT !.pc = "acking", !.msg = worker[w].msg,
                                  !.lost = worker[w].lost]]

\* The notification reaches its final status s and gives up its lock.
FinishAsFailed(n, s) ==   \* Mutant: the outbox's word for "dropped".
  /\ status' = [status EXCEPT ![n] = IF s = "dropped" THEN "failed" ELSE s]
  /\ lock' = [lock EXCEPT ![n] = 0]
  /\ history' = [history EXCEPT ![n] = Append(@, s)]

Finish(n, s) ==
  /\ status' = [status EXCEPT ![n] = s]
  /\ lock' = [lock EXCEPT ![n] = 0]
  /\ history' = [history EXCEPT ![n] = Append(@, s)]

SkipMessage(w, n) ==
  /\ Reserving(w, n)
  /\ MissingOrFinal(n)
  /\ Done(w)
  /\ UNCHANGED <<storeVars, rowVars, ghostVars>>

\* Mutant: a row that is due before the lock ends counts as well.
RetriesDueAnyTime(n) ==
  {e \in EventId :
     /\ outbox[e].n = n /\ outbox[e].type = "retry"
     /\ outbox[e].status \in {"pending", "processing"}}

\* Retry rows of n that will still be published after its lock has expired.
WaitingRetries(n) ==
  {e \in EventId :
     /\ outbox[e].n = n
     /\ outbox[e].type = "retry"
     /\ outbox[e].status \in {"pending", "processing"}
     /\ outbox[e].delay >= lock[n]}

\* _ensure_deferred_redelivery: one waiting row is enough.
DeferToWaitingRetry(w, n) ==
  /\ Reserving(w, n)
  /\ ~MissingOrFinal(n) /\ HasActiveProcessingLock(n)
  /\ Cardinality(WaitingRetries(n)) = 1
  /\ Done(w)
  /\ UNCHANGED <<storeVars, rowVars, ghostVars>>

DeferWithNewRetry(w, n) ==
  /\ Reserving(w, n)
  /\ ~MissingOrFinal(n) /\ HasActiveProcessingLock(n)
  /\ WaitingRetries(n) = {}
  /\ AddRetry(n, lock[n])
  /\ Done(w)
  /\ UNCHANGED <<emitted, queue, dlq, faults, rowVars, ghostVars>>

\* scalar_one_or_none raises MultipleResultsFound; the message is rejected.
DeferAmbiguous(w, n) ==
  /\ Reserving(w, n)
  /\ ~MissingOrFinal(n) /\ HasActiveProcessingLock(n)
  /\ Cardinality(WaitingRetries(n)) > 1
  /\ LoseMessage(w)
  /\ UNCHANGED <<faults, ghostVars>>

DropBeforeProvider(w, n) ==
  /\ Reserving(w, n)
  /\ ~MissingOrFinal(n) /\ ~HasActiveProcessingLock(n)
  /\ AttemptsExhausted(n)
  /\ Finish(n, "dropped")
  /\ AddFailed(n)
  /\ Done(w)
  /\ UNCHANGED <<emitted, queue, dlq, faults, attempts, ghostVars>>

BeginAttempt(w, n) ==
  /\ Reserving(w, n)
  /\ ~MissingOrFinal(n) /\ ~HasActiveProcessingLock(n)
  /\ ~AttemptsExhausted(n)
  /\ attempts' = [attempts EXCEPT ![n] = @ + 1]
  /\ status' = [status EXCEPT ![n] = "sent"]
  /\ lock' = [lock EXCEPT ![n] = LockTTL]
  /\ history' = [history EXCEPT ![n] = Append(@, "sent")]
  /\ worker' = [worker EXCEPT ![w].pc = "sending", ![w].attempt = attempts[n] + 1,
                              ![w].seen = "sent"]
  /\ UNCHANGED <<storeVars, ghostVars>>

Reserve(w, n) ==
  \/ SkipMessage(w, n)
  \/ DeferToWaitingRetry(w, n)
  \/ DeferWithNewRetry(w, n)
  \/ DeferAmbiguous(w, n)
  \/ DropBeforeProvider(w, n)
  \/ BeginAttempt(w, n)

-----------------------------------------------------------------------------
(* _send_to_provider.  An exception of the provider is a temporary error.  *)
(* "permanent" stands for every other answer that is not a delivery.       *)

ProviderReturns(w, r) ==
  /\ worker[w].pc = "sending"
  /\ LET n == worker[w].msg.n IN
       /\ called' = [called EXCEPT ![n] = @ \cup {worker[w].attempt}]
       /\ confirmed' = [confirmed EXCEPT ![n] = @ \/ r = "delivered"]
  /\ worker' = [worker EXCEPT ![w].pc = "applying", ![w].result = r]
  /\ UNCHANGED <<storeVars, rowVars>>

-----------------------------------------------------------------------------
(* ProviderResultHandler.apply: a second transaction under the row lock.   *)

(***************************************************************************)
(* The session still holds the row object that reserve returned, it does   *)
(* not expire on commit, and the SELECT does not overwrite it: apply       *)
(* decides on the columns as reserve left them.  Their status is "sent"    *)
(* then, so its early return for a final row is never taken and is no      *)
(* action here; the other branches keep the guard that it puts on them.    *)
(***************************************************************************)
RowStatus(w) == worker[w].seen
RowAttempts(w) == worker[w].attempt

Applying(w, n) ==
  /\ worker[w].pc = "applying"
  /\ n = worker[w].msg.n

\* RetryPolicy.decide.  Backoff[1] is the source's backoff_seconds[0].
ShouldRetry(a) == a < MaxRetries

DelaySeconds(a) ==
  Backoff[IF a <= 1 THEN 1 ELSE IF a > Len(Backoff) THEN Len(Backoff) ELSE a]

\* Mutant: the retry is decided before a success is looked for.
RetryWhatever(w) == ShouldRetry(RowAttempts(w))

WillRetry(w) ==
  worker[w].result = "temporary" /\ ShouldRetry(RowAttempts(w))

MarkDelivered(w, n) ==
  /\ Applying(w, n)
  /\ RowStatus(w) \notin Final
  /\ worker[w].result = "delivered"
  /\ Finish(n, "delivered")
  /\ Done(w)
  /\ UNCHANGED <<storeVars, attempts, ghostVars>>

ScheduleRetry(w, n) ==
  /\ Applying(w, n)
  /\ RowStatus(w) \notin Final
  /\ WillRetry(w)
  /\ Backoff # <<>>
  /\ lock' = [lock EXCEPT ![n] = DelaySeconds(RowAttempts(w))]
  /\ AddRetry(n, DelaySeconds(RowAttempts(w)))
  /\ Done(w)
  /\ UNCHANGED <<emitted, queue, dlq, faults, status, attempts, history, ghostVars>>

\* backoff_seconds[0] of an empty list: IndexError, and the message is rejected.
RetryUndefined(w, n) ==
  /\ Applying(w, n)
  /\ RowStatus(w) \notin Final
  /\ WillRetry(w)
  /\ Backoff = <<>>
  /\ LoseMessage(w)
  /\ UNCHANGED <<faults, ghostVars>>

Drop(w, n) ==
  /\ Applying(w, n)
  /\ RowStatus(w) \notin Final
  /\ worker[w].result # "delivered" /\ ~WillRetry(w)
  /\ Finish(n, "dropped")
  /\ AddFailed(n)
  /\ Done(w)
  /\ UNCHANGED <<emitted, queue, dlq, faults, attempts, ghostVars>>

Apply(w, n) ==
  \/ MarkDelivered(w, n)
  \/ ScheduleRetry(w, n)
  \/ RetryUndefined(w, n)
  \/ Drop(w, n)

-----------------------------------------------------------------------------
WorkerStep(w) ==
  \/ GetMessage(w)
  \/ \E n \in Notification : Reserve(w, n)
  \/ \E r \in Result : ProviderReturns(w, r)
  \/ \E n \in Notification : Apply(w, n)
  \/ Ack(w)

\* A worker between reserving an attempt and committing its result.
InAttempt(w, n) == worker[w].pc \in {"sending", "applying"} /\ worker[w].msg.n = n

\* Time may pass, unless that would outlast an attempt that is assumed timely.
WorkerMayTick ==
  ProviderTimely =>
    \A w \in Worker, n \in Notification : InAttempt(w, n) => lock[n] > 1

TickLocks == lock' = [n \in Notification |-> CountDown(lock[n])]
=============================================================================
