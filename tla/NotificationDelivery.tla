-------------------------- MODULE NotificationDelivery --------------------------
(***************************************************************************)
(* The delivery pipeline: bulk requests insert notifications together with *)
(* their outbox rows, publishers relay the rows to RabbitMQ, workers take  *)
(* the messages, call the provider and insert further rows for retries and *)
(* failure notices.                                                        *)
(***************************************************************************)
EXTENDS OutboxPublisher, NotificationWorker

vars == <<outbox, emitted, queue, dlq, faults, pub,
          status, attempts, lock, history, worker, called, confirmed>>

-----------------------------------------------------------------------------
\* The ways to give every notification of S an outbox row of its own.
FreshEvents(S) ==
  {id \in [S -> {e \in EventId : ~Exists(e)}] :
     \A m, n \in S : id[m] = id[n] => m = n}

\* create_bulk, once its idempotency key is reserved: one transaction inserts
\* the notifications of the request, all of one type, and a row for each.
CreateBatch(S) ==
  /\ S # {}
  /\ \A n \in S : status[n] = "absent"
  /\ S \subseteq High \/ S \cap High = {}
  /\ FreshEvents(S) # {}
  /\ LET id == CHOOSE f \in FreshEvents(S) : TRUE
     IN  outbox' = [e \in EventId |->
           IF \E n \in S : id[n] = e
           THEN NewEvent(CHOOSE n \in S : id[n] = e, "created", 0)
           ELSE outbox[e]]
  /\ status' = [n \in Notification |-> IF n \in S THEN "queued" ELSE status[n]]
  /\ history' = [n \in Notification |-> IF n \in S THEN <<"queued">> ELSE history[n]]
  /\ UNCHANGED <<emitted, queue, dlq, faults, pub, attempts, lock, worker, ghostVars>>

Tick ==
  /\ PublisherMayTick /\ WorkerMayTick
  /\ TickOutbox /\ TickLocks
  /\ UNCHANGED <<emitted, queue, dlq, faults, pub, status, attempts, history,
                 worker, ghostVars>>

Init == StoreInit /\ PublisherInit /\ WorkerInit

Publish(p) ==
  /\ PublisherStep(p) \/ PublisherFault(p)
  /\ UNCHANGED <<rowVars, worker, ghostVars>>

Work(w) ==
  /\ WorkerStep(w) \/ WorkerFault(w) \/ ConnectionLost(w)
  /\ UNCHANGED pub

Next ==
  \/ \E S \in SUBSET Notification : CreateBatch(S)
  \/ \E p \in Publisher : Publish(p)
  \/ \E w \in Worker : Work(w)
  \/ Tick

Spec == Init /\ [][Next]_vars

(***************************************************************************)
(* Both loops run forever, a crashed process is started again, and a       *)
(* provider call returns.  Nothing makes a client send a request or a      *)
(* fault happen.                                                           *)
(***************************************************************************)
FairSpec ==
  /\ Spec
  /\ \A p \in Publisher : WF_vars(PublisherStep(p) /\ UNCHANGED <<rowVars, worker, ghostVars>>)
  /\ \A w \in Worker : WF_vars(WorkerStep(w) /\ UNCHANGED pub)
  /\ WF_vars(Tick)

-----------------------------------------------------------------------------
\* Every variable has its type, and no limit of the model is exceeded.
TypeOK == StoreTypeOK /\ PublisherTypeOK /\ WorkerTypeOK

Open(n) == status[n] \in {"queued", "sent"}

\* An outbox row that will put a message of n on a queue, or that was parked
\* as failed before it ever did.
RowCarries(e, n) ==
  /\ outbox[e].n = n
  /\ outbox[e].type # "failed"
  /\ outbox[e].status \in {"pending", "processing", "failed"}
  /\ emitted[e] = 0

Carried(n) ==
  \/ \E e \in EventId : RowCarries(e, n)
  \/ \E m \in queue : m.n = n
  \/ \E m \in dlq : m.n = n /\ outbox[m.event].type # "failed"
  \/ \E w \in Worker :
       /\ worker[w].pc \in {"received", "sending", "applying"} /\ worker[w].msg.n = n
       /\ ~worker[w].lost

(***************************************************************************)
(* A notification that is not final is never lost: an outbox row, a queued *)
(* or dead-lettered message or a worker still stands for it.  A worker may *)
(* acknowledge a message early (the processing lock is taken) only because *)
(* another row takes over.  Needs ClockLead = 0.                           *)
(***************************************************************************)
NotStranded == \A n \in Notification : Open(n) => Carried(n)

(***************************************************************************)
(* However often a message is delivered, whatever crashes: an attempt      *)
(* number is used for at most one provider call and stays within           *)
(* max_retries, so a recipient is contacted max_retries times at most.     *)
(***************************************************************************)
OneCallPerAttempt ==
  \A n \in Notification :
    /\ called[n] \subseteq 1..MaxRetries
    /\ \A w \in Worker :
         InAttempt(w, n) /\ worker[w].pc = "sending" =>
           worker[w].attempt \in (1..MaxRetries) \ called[n]

(***************************************************************************)
(* The processing lock is a mutual exclusion: two workers never serve the  *)
(* same notification at a time.  Only for timely providers.                *)
(***************************************************************************)
NoOverlappingCalls ==
  \A n \in Notification : \A v, w \in Worker :
    InAttempt(v, n) /\ InAttempt(w, n) => v = w

(***************************************************************************)
(* The history a client reads is one walk through the statuses: queued,    *)
(* one sent for each attempt, and at most one final status, the current    *)
(* one.                                                                    *)
(***************************************************************************)
HistoryTellsAttempts ==
  \A n \in Notification : status[n] # "absent" =>
    history[n] = [i \in 1..(attempts[n] + (IF status[n] \in Final THEN 2 ELSE 1)) |->
                    IF i = 1 THEN "queued"
                    ELSE IF i <= attempts[n] + 1 THEN "sent" ELSE status[n]]

(***************************************************************************)
(* At any speed of the providers: once accepted, a notification is queued, *)
(* then attempted, one sent for each attempt, then final for good, though  *)
(* a late result may replace the final status.  The status is always the   *)
(* last entry, and there is a result too many at most.                     *)
(***************************************************************************)
HistoryTellsResults ==
  \A n \in Notification : status[n] # "absent" =>
    /\ Len(history[n]) \in (attempts[n] + 1)..(2 * attempts[n] + 2)
    /\ \A i \in DOMAIN history[n] :
         history[n][i] \in IF i = 1 THEN {"queued"}
                          ELSE IF i <= attempts[n] + 1 THEN {"sent"} ELSE Final
    /\ status[n] = history[n][Len(history[n])]

Notices(n) ==
  {e \in EventId : Exists(e) /\ outbox[e].n = n /\ outbox[e].type = "failed"}

\* A failure notice is written exactly once, in the transaction that drops
\* the notification, and never for one that is not dropped.
OneFailureNotice ==
  \A n \in Notification :
    Cardinality(Notices(n)) = IF status[n] = "dropped" THEN 1 ELSE 0

Drops(n) == {i \in DOMAIN history[n] : history[n][i] = "dropped"}

\* At any speed: one failure notice for each drop that the history tells of.
NoticePerDrop == \A n \in Notification : Cardinality(Notices(n)) = Cardinality(Drops(n))

(***************************************************************************)
(* At any speed: what the provider confirmed is told to the client.  Once  *)
(* it has answered "delivered" the history says so, or a worker is about   *)
(* to write it, whatever other results come first or replace it after.     *)
(***************************************************************************)
ConfirmationIsTold ==
  \A n \in Notification : confirmed[n] =>
    \/ \E i \in DOMAIN history[n] : history[n][i] = "delivered"
    \/ \E w \in Worker : worker[w].msg.n = n /\ HasConfirmation(w)

\* A notification that the provider confirmed is not reported as dropped, unless
\* the worker died with the answer.  Only for timely providers.
ConfirmedIsNotDropped ==
  \A n \in Notification : confirmed[n] => status[n] # "dropped"

(***************************************************************************)
(* A message that finds the processing lock taken is deferred and          *)
(* acknowledged, as many duplicates as there may be; it is never rejected. *)
(***************************************************************************)
DuplicateIsDeferred ==
  [][\A w \in Worker, n \in Notification :
       /\ Reserving(w, n) /\ HasActiveProcessingLock(n)
       /\ worker'[w] # worker[w] /\ faults' = faults
       => worker'[w].pc = "acking"]_vars

-----------------------------------------------------------------------------
(* What the pipeline promises of each notification, whatever carries it.   *)

Lifecycle == INSTANCE NotificationLifecycle WITH
  notices <- [n \in Notification |-> Cardinality(Notices(n))],
  Timely <- ProviderTimely

(***************************************************************************)
(* Attempts, deliveries and drops happen in the order and as often as the  *)
(* lifecycle allows: with timely providers the one with a single final     *)
(* status, with any provider the one where results can come late, but no   *)
(* attempt follows a final status and no result is written twice.          *)
(***************************************************************************)
ImplementsLifecycle == Lifecycle!Spec

\* Every change of notifications.status is one that the table allows.  Only
\* for timely providers.
StatusFollowsTable ==
  [][\A n \in Notification :
       status'[n] # status[n] /\ status[n] # "absent" =>
         Lifecycle!CanTransition(status[n], status'[n])]_vars

-----------------------------------------------------------------------------
\* An outbox row given up after outbox_max_attempts, or a message out of
\* deliveries: nothing in the code takes these up again.
Parked(n) ==
  \/ \E e \in EventId : outbox[e].n = n /\ outbox[e].status = "failed"
  \/ \E m \in dlq : m.n = n

\* Enough failures to use up the publish attempts of a row or the deliveries
\* of a message.
LimitsReached == faults >= OutboxMaxAttempts \/ faults > DeliveryLimit

\* Something that the code goes on with by itself still stands for n.
OnItsWay(n) ==
  \/ \E e \in EventId : RowCarries(e, n) /\ outbox[e].status # "failed"
  \/ \E m \in queue : m.n = n
  \/ \E w \in Worker :
       /\ worker[w].pc \in {"received", "sending", "applying"} /\ worker[w].msg.n = n
       /\ ~worker[w].lost

(***************************************************************************)
(* A notification that is not final can be left to an operator only once   *)
(* failures have used up a limit.  A deferral is a new message with all    *)
(* its deliveries, a claim that ends well costs no attempt: neither brings *)
(* a limit nearer.  Needs ClockLead = 0, timely publishers and a backoff.  *)
(***************************************************************************)
OnlyLimitsStrand == \A n \in Notification : Open(n) => OnItsWay(n) \/ LimitsReached

(***************************************************************************)
(* Every accepted notification becomes delivered or dropped, however slow  *)
(* providers are.  While failures are fewer than the limits none costs a   *)
(* notification; once they are not, an operator finds it among the failed  *)
(* rows or the dead letters.                                               *)
(***************************************************************************)
EventuallySettled ==
  \A n \in Notification : Open(n) ~> ~Open(n) \/ (Parked(n) /\ LimitsReached)
=============================================================================
