---------------------------- MODULE LifecycleProofs ----------------------------
(***************************************************************************)
(* Proof that the pipeline keeps the promises of NotificationLifecycle,    *)
(* for any number of workers, duplicates and failures: the strict ones     *)
(* when providers are timely, the ones that allow for late results at any  *)
(* speed.                                                                  *)
(***************************************************************************)
EXTENDS DeliveryProofs, SequenceTheorems

-----------------------------------------------------------------------------
(***************************************************************************)
(* What a worker in an attempt may rely on.  Its row has left "queued" for *)
(* good; and while attempts are timely, the processing lock is still held  *)
(* and nobody else is in an attempt of the same notification.              *)
(***************************************************************************)
AttemptsTell ==
  \A w \in Worker, n \in Notification : InAttempt(w, n) =>
    /\ worker[w].seen = "sent"
    /\ status[n] \in {"sent"} \cup Final
    /\ ProviderTimely => /\ status[n] = "sent" /\ lock[n] > 0
                         /\ \A v \in Worker : InAttempt(v, n) => v = w

OthersKeep(w) == \A v \in Worker : v # w => worker'[v] = worker[v]

\* A step that is not a beginning leaves the attempts of the others alone, and
\* touches a row only from inside an attempt or where no lock is held.
LEMMA LeavingKeeps ==
  ASSUME AttemptsTell, NEW w \in Worker, NEW n \in Notification,
         OthersKeep(w), worker'[w].pc \notin {"sending", "applying"},
         \A k \in Notification : k # n => status'[k] = status[k] /\ lock'[k] = lock[k],
         \/ status'[n] = status[n] /\ lock'[n] = lock[n]
         \/ /\ status'[n] \in {"sent"} \cup Final
            /\ InAttempt(w, n) \/ ~(status[n] = "sent" /\ lock[n] > 0)
  PROVE  AttemptsTell'
<1>1. \A v \in Worker, k \in Notification :
        InAttempt(v, k)' => v # w /\ InAttempt(v, k) /\ worker'[v] = worker[v]
  BY DEF InAttempt, OthersKeep
<1> SUFFICES ASSUME NEW v \in Worker, NEW k \in Notification, InAttempt(v, k)'
             PROVE  /\ worker'[v].seen = "sent"
                    /\ status'[k] \in {"sent"} \cup Final
                    /\ ProviderTimely =>
                         /\ status'[k] = "sent" /\ lock'[k] > 0
                         /\ \A u \in Worker : InAttempt(u, k)' => u = v
  BY DEF AttemptsTell
<1>2. v # w /\ InAttempt(v, k) /\ worker'[v] = worker[v]  BY <1>1
<1>3. status'[k] \in {"sent"} \cup Final  BY <1>2 DEF AttemptsTell
<1>4. ProviderTimely => status'[k] = "sent" /\ lock'[k] > 0  BY <1>2 DEF AttemptsTell
<1>5. ProviderTimely => \A u \in Worker : InAttempt(u, k)' => u = v
  BY <1>1, <1>2 DEF AttemptsTell
<1> QED  BY <1>2, <1>3, <1>4, <1>5 DEF AttemptsTell

\* A step that moves no attempt and no row.
LEMMA StayingKeeps ==
  ASSUME AttemptsTell, status' = status, lock' = lock,
         \A v \in Worker : worker'[v].pc \in {"sending", "applying"} =>
           /\ worker[v].pc \in {"sending", "applying"}
           /\ worker'[v].msg = worker[v].msg /\ worker'[v].seen = worker[v].seen
  PROVE  AttemptsTell'
<1>1. \A v \in Worker, k \in Notification :
        InAttempt(v, k)' => InAttempt(v, k) /\ worker'[v].seen = worker[v].seen
  BY DEF InAttempt
<1> QED  BY <1>1 DEF AttemptsTell

\* An attempt begins only where no processing lock is held.
LEMMA BeginKeeps ==
  ASSUME TypeOK, AttemptsTell, NEW w \in Worker, NEW n \in Notification, BeginAttempt(w, n)
  PROVE  AttemptsTell'
<1>1. worker[w] \in WorkerState /\ worker[w].msg.n = n
  BY WorkerMoves DEF BeginAttempt, Reserving
<1>2. /\ worker'[w].seen = "sent" /\ worker'[w].msg = worker[w].msg
      /\ OthersKeep(w)
  BY <1>1 DEF BeginAttempt, OthersKeep, WorkerState, TypeOK, WorkerTypeOK
<1>3. /\ status'[n] = "sent" /\ lock'[n] = LockTTL /\ LockTTL > 0
      /\ \A k \in Notification : k # n => status'[k] = status[k] /\ lock'[k] = lock[k]
  BY WorkerAssumption DEF BeginAttempt, TypeOK, WorkerTypeOK
<1>4. ProviderTimely => \A v \in Worker : ~InAttempt(v, n)
  BY DEF BeginAttempt, HasActiveProcessingLock, AttemptsTell
<1>5. \A v \in Worker, k \in Notification :
        v # w => (InAttempt(v, k)' <=> InAttempt(v, k)) /\ worker'[v] = worker[v]
  BY <1>2 DEF InAttempt, OthersKeep
<1>6. \A k \in Notification : InAttempt(w, k)' => k = n
  BY <1>1, <1>2 DEF InAttempt
<1> SUFFICES ASSUME NEW v \in Worker, NEW k \in Notification, InAttempt(v, k)'
             PROVE  /\ worker'[v].seen = "sent"
                    /\ status'[k] \in {"sent"} \cup Final
                    /\ ProviderTimely =>
                         /\ status'[k] = "sent" /\ lock'[k] > 0
                         /\ \A u \in Worker : InAttempt(u, k)' => u = v
  BY DEF AttemptsTell
<1>7. CASE k = n  BY <1>2, <1>3, <1>4, <1>5, <1>7 DEF AttemptsTell
<1>8. CASE k # n  BY <1>2, <1>3, <1>5, <1>6, <1>8 DEF AttemptsTell
<1> QED  BY <1>7, <1>8

\* Done and LoseMessage end whatever the worker was doing.
LEMMA EndsOfStep ==
  ASSUME TypeOK, NEW w \in Worker, Done(w) \/ LoseMessage(w)
  PROVE  OthersKeep(w) /\ worker'[w].pc \notin {"sending", "applying"}
<1>1. PICK x : worker' = [worker EXCEPT ![w] = x] /\ x.pc \in {"acking", "idle"}
  <2>1. CASE Done(w)
    <3> DEFINE x == [IdleWorker EXCEPT !.pc = "acking", !.msg = worker[w].msg,
                                      !.lost = worker[w].lost]
    <3>1. worker' = [worker EXCEPT ![w] = x]  BY <2>1 DEF Done
    <3>2. x.pc = "acking"  BY DEF IdleWorker
    <3> QED  BY <3>1, <3>2
  <2>2. CASE LoseMessage(w)
    <3>1. worker' = [worker EXCEPT ![w] = IdleWorker]  BY <2>2 DEF LoseMessage
    <3>2. IdleWorker.pc = "idle"  BY DEF IdleWorker
    <3> QED  BY <3>1, <3>2
  <2> QED  BY <2>1, <2>2
<1> QED  BY <1>1 DEF OthersKeep, TypeOK, WorkerTypeOK

\* Finish touches one row.
LEMMA FinishEffect ==
  ASSUME TypeOK, NEW n \in Notification, NEW s \in Final, Finish(n, s)
  PROVE  /\ status'[n] = s
         /\ \A k \in Notification : k # n => status'[k] = status[k] /\ lock'[k] = lock[k]
BY DEF Finish, TypeOK, WorkerTypeOK

LEMMA ReserveKeeps ==
  ASSUME TypeOK, AttemptsTell, NEW w \in Worker, NEW n \in Notification, Reserve(w, n)
  PROVE  AttemptsTell'
<1>1. CASE SkipMessage(w, n) \/ DeferToWaitingRetry(w, n) \/ DeferWithNewRetry(w, n)
           \/ DeferAmbiguous(w, n)
  <2>1. (Done(w) \/ LoseMessage(w)) /\ status' = status /\ lock' = lock
    BY <1>1 DEF SkipMessage, DeferToWaitingRetry, DeferWithNewRetry, DeferAmbiguous,
                LoseMessage, rowVars
  <2> QED  BY <2>1, EndsOfStep, LeavingKeeps
<1>2. CASE DropBeforeProvider(w, n)
  <2>1. /\ Done(w) /\ Finish(n, "dropped") /\ "dropped" \in Final
        /\ ~(status[n] = "sent" /\ lock[n] > 0)
    BY <1>2 DEF DropBeforeProvider, HasActiveProcessingLock, Final
  <2>2. /\ status'[n] \in {"sent"} \cup Final
        /\ \A k \in Notification : k # n => status'[k] = status[k] /\ lock'[k] = lock[k]
    BY <2>1, FinishEffect
  <2> QED  BY <2>1, <2>2, EndsOfStep, LeavingKeeps
<1>3. CASE BeginAttempt(w, n)  BY <1>3, BeginKeeps
<1> QED  BY <1>1, <1>2, <1>3 DEF Reserve

LEMMA ApplyKeeps ==
  ASSUME TypeOK, AttemptsTell, NEW w \in Worker, NEW n \in Notification, Apply(w, n)
  PROVE  AttemptsTell'
<1>1. InAttempt(w, n)
  BY DEF Apply, MarkDelivered, ScheduleRetry, RetryUndefined, Drop, Applying, InAttempt
<1>2. Done(w) \/ LoseMessage(w)
  BY DEF Apply, MarkDelivered, ScheduleRetry, RetryUndefined, Drop
<1>3. CASE RetryUndefined(w, n)
  <2>1. status' = status /\ lock' = lock
    BY <1>3 DEF RetryUndefined, LoseMessage, rowVars
  <2> QED  BY <1>2, <2>1, EndsOfStep, LeavingKeeps
<1>4. CASE MarkDelivered(w, n) \/ Drop(w, n)
  <2>1. PICK s \in Final : Finish(n, s)
    BY <1>4 DEF MarkDelivered, Drop, Final
  <2>2. /\ status'[n] \in {"sent"} \cup Final
        /\ \A k \in Notification : k # n => status'[k] = status[k] /\ lock'[k] = lock[k]
    BY <2>1, FinishEffect
  <2> QED  BY <1>1, <1>2, <2>2, EndsOfStep, LeavingKeeps
<1>5. CASE ScheduleRetry(w, n)
  <2>1. /\ status' = status
        /\ \A k \in Notification : k # n => lock'[k] = lock[k]
    BY <1>5 DEF ScheduleRetry, TypeOK, WorkerTypeOK
  <2>2. status'[n] \in {"sent"} \cup Final  BY <1>1, <2>1 DEF AttemptsTell
  <2> QED  BY <1>1, <1>2, <2>1, <2>2, EndsOfStep, LeavingKeeps
<1> QED  BY <1>3, <1>4, <1>5 DEF Apply

LEMMA WorkKeeps ==
  ASSUME TypeOK, AttemptsTell, NEW w \in Worker,
         WorkerStep(w) \/ WorkerFault(w) \/ ConnectionLost(w)
  PROVE  AttemptsTell'
<1>0. worker[w] \in WorkerState  BY WorkerMoves
<1>1. CASE GetMessage(w)
  <2>1. /\ OthersKeep(w) /\ worker'[w].pc = "received"
        /\ status' = status /\ lock' = lock
    BY <1>0, <1>1 DEF GetMessage, OthersKeep, rowVars, TypeOK, WorkerTypeOK, WorkerState
  <2> QED  BY <2>1, StayingKeeps DEF OthersKeep
<1>2. CASE \E n \in Notification : Reserve(w, n)  BY <1>2, ReserveKeeps
<1>3. CASE \E r \in Result : ProviderReturns(w, r)
  <2>1. /\ OthersKeep(w) /\ worker[w].pc = "sending"
        /\ worker'[w].msg = worker[w].msg /\ worker'[w].seen = worker[w].seen
        /\ status' = status /\ lock' = lock
    BY <1>0, <1>3
       DEF ProviderReturns, OthersKeep, rowVars, TypeOK, WorkerTypeOK, WorkerState
  <2> QED  BY <2>1, StayingKeeps DEF OthersKeep
<1>4. CASE \E n \in Notification : Apply(w, n)  BY <1>4, ApplyKeeps
<1>5. CASE Ack(w)
  <2>1. /\ OthersKeep(w) /\ worker'[w].pc = "idle" /\ status' = status /\ lock' = lock
    BY <1>5 DEF Ack, OthersKeep, IdleWorker, rowVars, TypeOK, WorkerTypeOK
  <2> QED  BY <2>1, StayingKeeps DEF OthersKeep
<1>6. CASE WorkerFault(w)
  <2>1. LoseMessage(w) /\ status' = status /\ lock' = lock
    BY <1>6 DEF WorkerFault, LoseMessage, rowVars
  <2> QED  BY <2>1, EndsOfStep, StayingKeeps DEF OthersKeep
<1>7. CASE ConnectionLost(w)
  <2>1. /\ OthersKeep(w) /\ worker'[w].pc = worker[w].pc
        /\ worker'[w].msg = worker[w].msg /\ worker'[w].seen = worker[w].seen
        /\ status' = status /\ lock' = lock
    BY <1>0, <1>7
       DEF ConnectionLost, OthersKeep, rowVars, TypeOK, WorkerTypeOK, WorkerState
  <2> QED  BY <2>1, StayingKeeps DEF OthersKeep
<1> QED  BY <1>1, <1>2, <1>3, <1>4, <1>5, <1>6, <1>7 DEF WorkerStep

LEMMA StepKeeps == ASSUME TypeOK, AttemptsTell, [Next]_vars PROVE AttemptsTell'
<1>1. CASE \E S \in SUBSET Notification : CreateBatch(S)
  <2>1. PICK S \in SUBSET Notification : CreateBatch(S)  BY <1>1
  <2>2. /\ worker' = worker /\ lock' = lock
        /\ \A n \in S : status[n] = "absent"
        /\ \A n \in Notification : n \notin S => status'[n] = status[n]
    BY <2>1 DEF CreateBatch
  <2>3. \A w \in Worker, n \in Notification : InAttempt(w, n) => n \notin S
    BY <2>2 DEF AttemptsTell, Final
  <2> QED  BY <2>2, <2>3 DEF AttemptsTell, InAttempt
<1>2. CASE \E p \in Publisher : Publish(p)
  BY <1>2, StayingKeeps DEF Publish, rowVars
<1>3. CASE \E w \in Worker : Work(w)  BY <1>3, WorkKeeps DEF Work
<1>4. CASE Tick
  <2>1. worker' = worker /\ status' = status /\ WorkerMayTick  BY <1>4 DEF Tick
  <2>2. \A n \in Notification : lock'[n] = CountDown(lock[n]) /\ lock[n] \in Nat
    BY <1>4 DEF Tick, TickLocks, TypeOK, WorkerTypeOK
  <2>3. ASSUME ProviderTimely, NEW w \in Worker, NEW n \in Notification, InAttempt(w, n)
        PROVE  lock'[n] > 0
    BY <2>1, <2>2, <2>3 DEF WorkerMayTick, CountDown
  <2> QED  BY <2>1, <2>3 DEF AttemptsTell, InAttempt
<1>5. CASE UNCHANGED vars  BY <1>5, StayingKeeps DEF vars
<1> QED  BY <1>1, <1>2, <1>3, <1>4, <1>5 DEF Next

LEMMA AttemptsAreTold == Spec => [](TypeOK /\ AttemptsTell)
<1>1. Init => AttemptsTell  BY DEF Init, WorkerInit, IdleWorker, AttemptsTell, InAttempt
<1> QED  BY <1>1, TypeCorrect, StepKeeps, PTL DEF Spec

\* While attempts are over before their processing locks expire, two workers
\* never serve the same notification at a time.
THEOREM LockExcludesWorkers == ASSUME ProviderTimely PROVE Spec => []NoOverlappingCalls
<1>1. AttemptsTell => NoOverlappingCalls  BY DEF AttemptsTell, NoOverlappingCalls
<1> QED  BY <1>1, AttemptsAreTold, PTL
-----------------------------------------------------------------------------
(***************************************************************************)
(* Failure notices.  An outbox row that does not exist yet is none, so     *)
(* only a drop can make one.                                               *)
(***************************************************************************)
AbsentTells == \A e \in EventId : ~Exists(e) => outbox[e].type # "failed"

NoticesKeep == \A n \in Notification : Notices(n)' = Notices(n)

LEMMA AddedNotices ==
  ASSUME TypeOK, AbsentTells, NEW n \in Notification, NEW type \in EventType,
         NEW delay \in Nat, AddOutboxEvent(n, type, delay)
  PROVE  /\ AbsentTells'
         /\ type # "failed" => NoticesKeep
         /\ type = "failed" =>
              /\ \A k \in Notification : k # n => Notices(k)' = Notices(k)
              /\ FreshEvent \notin Notices(n)
              /\ Notices(n)' = Notices(n) \cup {FreshEvent}
<1>1. PICK f \in EventId :
        /\ f = FreshEvent /\ ~Exists(f) /\ outbox'[f] = NewEvent(n, type, delay)
        /\ \A e \in EventId : e # f => outbox'[e] = outbox[e]
  BY AddedRow DEF TypeOK
<1>2. outbox'[f].n = n /\ outbox'[f].type = type /\ outbox'[f].status = "pending"
  BY <1>1 DEF NewEvent
<1>3. AbsentTells'  BY <1>1, <1>2 DEF AbsentTells, Exists
<1>4. ASSUME NEW k \in Notification, NEW e \in EventId, e # f
      PROVE  e \in Notices(k)' <=> e \in Notices(k)
  BY <1>1, <1>4 DEF Notices, Exists
<1>5. \A k \in Notification :
        f \notin Notices(k) /\ (f \in Notices(k)' <=> k = n /\ type = "failed")
  BY <1>1, <1>2 DEF Notices, Exists
<1>6. \A k \in Notification : Notices(k) \subseteq EventId /\ Notices(k)' \subseteq EventId
  BY DEF Notices
<1>7. \A k \in Notification : Notices(k)' = IF k = n /\ type = "failed"
                                            THEN Notices(k) \cup {f} ELSE Notices(k)
  BY <1>4, <1>5, <1>6
<1> QED  BY <1>1, <1>3, <1>5, <1>7 DEF NoticesKeep

\* Rows that stay in existence with their notification and type.
LEMMA RowsInPlace ==
  ASSUME AbsentTells,
         \A e \in EventId :
           /\ outbox'[e].n = outbox[e].n /\ outbox'[e].type = outbox[e].type
           /\ Exists(e) => Exists(e)'
  PROVE  AbsentTells' /\ NoticesKeep
<1>1. AbsentTells'  BY DEF AbsentTells
<1>2. \A n \in Notification, e \in EventId : e \in Notices(n)' <=> e \in Notices(n)
  BY DEF AbsentTells, Notices
<1>3. \A n \in Notification : Notices(n) \subseteq EventId /\ Notices(n)' \subseteq EventId
  BY DEF Notices
<1> QED  BY <1>1, <1>2, <1>3 DEF NoticesKeep

LEMMA PublisherNotices ==
  ASSUME TypeOK, AbsentTells, NEW p \in Publisher, PublisherStep(p) \/ PublisherFault(p)
  PROVE  AbsentTells' /\ NoticesKeep
<1>1. CASE ClaimPending(p)
  <2>1. \A e \in EventId : outbox'[e] \in {Claimed(e), outbox[e]}
    BY <1>1 DEF ClaimPending
  <2>2. \A e \in EventId : /\ outbox'[e].n = outbox[e].n /\ outbox'[e].type = outbox[e].type
                           /\ Exists(e) => Exists(e)'
    BY <2>1, ClaimedRow DEF TypeOK, Exists
  <2> QED  BY <2>2, RowsInPlace
<1>2. CASE LoadEvent(p) \/ PublishSucceeds(p) \/ PublisherFault(p)
  <2>1. outbox' = outbox
    BY <1>2 DEF LoadEvent, PublishSucceeds, PublisherFault, PublishFails, PublisherCrash,
                storeVars
  <2> QED  BY <2>1, RowsInPlace DEF Exists
<1>3. CASE MarkPublished(p) \/ MarkPublishFailed(p)
  <2>1. PICK target \in OutboxStatus : WriteRow(p, target)
    BY <1>3 DEF MarkPublished, MarkPublishFailed, OutboxStatus
  <2>2. \A e \in EventId : /\ outbox'[e].n = outbox[e].n /\ outbox'[e].type = outbox[e].type
                           /\ outbox'[e].status \in {outbox[e].status, target}
    BY <2>1, WrittenRow DEF TypeOK
  <2> QED  BY <2>2, RowsInPlace DEF Exists, OutboxStatus
<1> QED  BY <1>1, <1>2, <1>3 DEF PublisherStep

LEMMA CreateBatchNotices ==
  ASSUME TypeOK, AbsentTells, NEW S \in SUBSET Notification, CreateBatch(S)
  PROVE  AbsentTells' /\ NoticesKeep
<1> DEFINE id == CHOOSE f \in FreshEvents(S) : TRUE
<1>1. id \in [S -> EventId] /\ \A n \in S : ~Exists(id[n])
  <2>1. id \in FreshEvents(S)  BY DEF CreateBatch
  <2>2. id \in [S -> {e \in EventId : ~Exists(e)}]  BY <2>1 DEF FreshEvents
  <2> HIDE DEF id
  <2> QED  BY <2>2
<1>2. outbox' = [e \in EventId |->
                   IF \E n \in S : id[n] = e
                   THEN NewEvent(CHOOSE n \in S : id[n] = e, "created", 0)
                   ELSE outbox[e]]
  BY DEF CreateBatch
<1> HIDE DEF id
<1>3. ASSUME NEW e \in EventId
      PROVE  \/ outbox'[e] = outbox[e]
             \/ ~Exists(e) /\ outbox'[e].type = "created" /\ outbox'[e].status = "pending"
  BY <1>1, <1>2 DEF NewEvent
<1>4. AbsentTells'  BY <1>3 DEF AbsentTells, Exists
<1>5. \A n \in Notification, e \in EventId : e \in Notices(n)' <=> e \in Notices(n)
  BY <1>3 DEF Notices, Exists
<1>6. \A n \in Notification : Notices(n) \subseteq EventId /\ Notices(n)' \subseteq EventId
  BY DEF Notices
<1> QED  BY <1>4, <1>5, <1>6 DEF NoticesKeep

-----------------------------------------------------------------------------
(***************************************************************************)
(* What any step may do to the rows of the notifications, their histories, *)
(* their failure notices and the attempts under way.                       *)
(***************************************************************************)
NoNewAttempt == \A w \in Worker, n \in Notification : InAttempt(w, n)' => InAttempt(w, n)

Still == UNCHANGED <<status, attempts, history>> /\ NoticesKeep /\ NoNewAttempt

Accepted(S) ==
  /\ S # {} /\ \A n \in S : status[n] = "absent"
  /\ status' = [n \in Notification |-> IF n \in S THEN "queued" ELSE status[n]]
  /\ history' = [n \in Notification |-> IF n \in S THEN <<"queued">> ELSE history[n]]
  /\ attempts' = attempts /\ NoticesKeep /\ NoNewAttempt

Attempted(n) ==
  /\ status[n] \in {"queued", "sent"} /\ attempts[n] < MaxRetries
  /\ attempts' = [attempts EXCEPT ![n] = @ + 1]
  /\ status' = [status EXCEPT ![n] = "sent"]
  /\ history' = [history EXCEPT ![n] = Append(@, "sent")]
  /\ NoticesKeep
  /\ \E w \in Worker : \A v \in Worker, k \in Notification :
       InAttempt(v, k)' => InAttempt(v, k) \/ (v = w /\ k = n)

\* The result of an attempt comes after another one.
Late(n) ==
  /\ ~ProviderTimely /\ status[n] \in Final
  /\ \E w \in Worker : InAttempt(w, n) /\ ~InAttempt(w, n)'

Ended(n, s) ==
  /\ status[n] = "sent" \/ (status[n] = "queued" /\ s = "dropped") \/ Late(n)
  /\ status' = [status EXCEPT ![n] = s]
  /\ history' = [history EXCEPT ![n] = Append(@, s)]
  /\ attempts' = attempts
  /\ \A k \in Notification : k # n => Notices(k)' = Notices(k)
  /\ IF s = "dropped"
     THEN \E e \in EventId \ Notices(n) : Notices(n)' = Notices(n) \cup {e}
     ELSE Notices(n)' = Notices(n)
  /\ NoNewAttempt

RowStep ==
  \/ Still
  \/ \E S \in SUBSET Notification : Accepted(S)
  \/ \E n \in Notification : Attempted(n) \/ \E s \in Final : Ended(n, s)

LEMMA QuietRows ==
  ASSUME AbsentTells, UNCHANGED <<status, attempts, history, outbox>>, NoNewAttempt
  PROVE  AbsentTells' /\ RowStep
<1>1. AbsentTells' /\ NoticesKeep  BY RowsInPlace DEF Exists
<1> QED  BY <1>1 DEF RowStep, Still

LEMMA EndsAttempts ==
  ASSUME TypeOK, NEW w \in Worker, Done(w) \/ LoseMessage(w)
  PROVE  NoNewAttempt /\ \A n \in Notification : ~InAttempt(w, n)'
<1>1. OthersKeep(w) /\ worker'[w].pc \notin {"sending", "applying"}  BY EndsOfStep
<1> QED  BY <1>1 DEF OthersKeep, NoNewAttempt, InAttempt

LEMMA DroppingRows ==
  ASSUME TypeOK, AbsentTells, NEW n \in Notification,
         status[n] \in {"queued", "sent"} \/ Late(n),
         Finish(n, "dropped"), AddFailed(n), attempts' = attempts, NoNewAttempt
  PROVE  AbsentTells' /\ RowStep
<1>1. "failed" \in EventType /\ AddOutboxEvent(n, "failed", 0)  BY DEF EventType, AddFailed
<1>2. /\ AbsentTells' /\ FreshEvent \in EventId \ Notices(n)
      /\ \A k \in Notification : k # n => Notices(k)' = Notices(k)
      /\ Notices(n)' = Notices(n) \cup {FreshEvent}
  BY <1>1, AddedNotices, AddedRow DEF TypeOK
<1>3. Ended(n, "dropped")  BY <1>2 DEF Ended, Finish
<1> QED  BY <1>2, <1>3 DEF RowStep, Final

LEMMA ReserveRows ==
  ASSUME TypeOK, AbsentTells, NEW w \in Worker, NEW n \in Notification, Reserve(w, n)
  PROVE  AbsentTells' /\ RowStep
<1>1. CASE SkipMessage(w, n) \/ DeferToWaitingRetry(w, n) \/ DeferAmbiguous(w, n)
  <2>1. /\ UNCHANGED <<status, attempts, history, outbox>>
        /\ Done(w) \/ LoseMessage(w)
    BY <1>1 DEF SkipMessage, DeferToWaitingRetry, DeferAmbiguous, LoseMessage,
                storeVars, rowVars
  <2> QED  BY <2>1, QuietRows, EndsAttempts
<1>2. CASE DeferWithNewRetry(w, n)
  <2>1. /\ AddOutboxEvent(n, "retry", lock[n]) /\ lock[n] \in Nat /\ "retry" \in EventType
        /\ UNCHANGED <<status, attempts, history>> /\ Done(w)
    BY <1>2 DEF DeferWithNewRetry, AddRetry, rowVars, EventType, TypeOK, WorkerTypeOK
  <2>2. AbsentTells' /\ NoticesKeep  BY <2>1, AddedNotices
  <2> QED  BY <2>1, <2>2, EndsAttempts DEF RowStep, Still
<1>3. status[n] \in Status \cup {"absent"} /\ (~MissingOrFinal(n) => status[n] \in {"queued", "sent"})
  BY DEF MissingOrFinal, Final, Status, TypeOK, WorkerTypeOK
<1>4. CASE DropBeforeProvider(w, n)
  <2>1. NoNewAttempt  BY <1>4, EndsAttempts DEF DropBeforeProvider
  <2> QED  BY <1>3, <1>4, <2>1, DroppingRows DEF DropBeforeProvider
<1>5. CASE BeginAttempt(w, n)
  <2>1. attempts[n] < MaxRetries
    BY <1>5, WorkerAssumption
       DEF BeginAttempt, AttemptsExhausted, TypeOK, WorkerTypeOK
  <2>2. AbsentTells' /\ NoticesKeep
    BY <1>5, RowsInPlace DEF BeginAttempt, storeVars, Exists
  <2>3. \A v \in Worker, k \in Notification :
          InAttempt(v, k)' => InAttempt(v, k) \/ (v = w /\ k = n)
    <3>1. worker[w] \in WorkerState /\ worker[w].msg.n = n
      BY <1>5, WorkerMoves DEF BeginAttempt, Reserving
    <3>2. worker'[w].msg = worker[w].msg /\ OthersKeep(w)
      BY <1>5, <3>1 DEF BeginAttempt, OthersKeep, WorkerState, TypeOK, WorkerTypeOK
    <3> QED  BY <3>1, <3>2 DEF InAttempt, OthersKeep
  <2>4. Attempted(n)  BY <1>3, <1>5, <2>1, <2>2, <2>3 DEF BeginAttempt, Attempted
  <2> QED  BY <2>2, <2>4 DEF RowStep
<1> QED  BY <1>1, <1>2, <1>4, <1>5 DEF Reserve

\* What apply finds in the row, which the row object it holds may not show.
LEMMA ApplyRows ==
  ASSUME TypeOK, AttemptsTell, AbsentTells, NEW w \in Worker, NEW n \in Notification,
         Apply(w, n)
  PROVE  AbsentTells' /\ RowStep
<1>1. InAttempt(w, n) /\ NoNewAttempt /\ ~InAttempt(w, n)'
  <2>1. Applying(w, n) /\ (Done(w) \/ LoseMessage(w))
    BY DEF Apply, MarkDelivered, ScheduleRetry, RetryUndefined, Drop
  <2> QED  BY <2>1, EndsAttempts DEF Applying, InAttempt
<1>2. status[n] = "sent" \/ Late(n)  BY <1>1 DEF AttemptsTell, Late
<1>3. CASE RetryUndefined(w, n)
  <2>1. UNCHANGED <<status, attempts, history, outbox>>
    BY <1>3 DEF RetryUndefined, LoseMessage, rowVars
  <2> QED  BY <1>1, <2>1, QuietRows
<1>4. CASE ScheduleRetry(w, n)
  <2>1. RowAttempts(w) \in Nat
    BY WorkerMoves DEF RowAttempts, WorkerState, TypeOK, WorkerTypeOK
  <2>2. DelaySeconds(RowAttempts(w)) \in Nat  BY <1>4, <2>1, DelayType DEF ScheduleRetry
  <2>3. /\ AddOutboxEvent(n, "retry", DelaySeconds(RowAttempts(w)))
        /\ "retry" \in EventType /\ UNCHANGED <<status, attempts, history>>
    BY <1>4 DEF ScheduleRetry, AddRetry, EventType
  <2>4. AbsentTells' /\ NoticesKeep  BY <2>2, <2>3, AddedNotices
  <2> QED  BY <1>1, <2>3, <2>4 DEF RowStep, Still
<1>5. CASE MarkDelivered(w, n)
  <2>1. /\ Finish(n, "delivered") /\ outbox' = outbox /\ attempts' = attempts
    BY <1>5 DEF MarkDelivered, storeVars
  <2>2. AbsentTells' /\ NoticesKeep  BY <2>1, RowsInPlace DEF Exists
  <2>3. Ended(n, "delivered")  BY <1>1, <1>2, <2>1, <2>2 DEF Ended, Finish, NoticesKeep
  <2> QED  BY <2>2, <2>3 DEF RowStep, Final
<1>6. CASE Drop(w, n)
  <2>1. Finish(n, "dropped") /\ AddFailed(n) /\ attempts' = attempts  BY <1>6 DEF Drop
  <2> QED  BY <1>1, <1>2, <2>1, DroppingRows
<1> QED  BY <1>3, <1>4, <1>5, <1>6 DEF Apply

\* The other steps of a worker touch no row.
LEMMA WorkRows ==
  ASSUME TypeOK, AbsentTells, NEW w \in Worker,
         \/ GetMessage(w) \/ \E r \in Result : ProviderReturns(w, r)
         \/ Ack(w) \/ WorkerFault(w) \/ ConnectionLost(w)
  PROVE  AbsentTells' /\ RowStep
<1>0. worker[w] \in WorkerState  BY WorkerMoves
<1>1. UNCHANGED <<status, attempts, history, outbox>>
  BY DEF GetMessage, ProviderReturns, Ack, WorkerFault, LoseMessage, ConnectionLost,
         storeVars, rowVars
<1>2. CASE WorkerFault(w)  BY <1>1, <1>2, QuietRows, EndsAttempts DEF WorkerFault
<1>3. CASE GetMessage(w) \/ Ack(w)
  <2>1. OthersKeep(w) /\ worker'[w].pc \in {"received", "idle"}
    <3>1. CASE GetMessage(w)
      <4>1. PICK m \in queue :
              worker' = [worker EXCEPT ![w].pc = "received", ![w].msg = m, ![w].lost = FALSE]
        BY <3>1 DEF GetMessage
      <4> QED  BY <1>0, <4>1 DEF OthersKeep, TypeOK, WorkerTypeOK, WorkerState
    <3>2. CASE Ack(w)  BY <3>2 DEF Ack, IdleWorker, OthersKeep, TypeOK, WorkerTypeOK
    <3> QED  BY <1>3, <3>1, <3>2
  <2>2. NoNewAttempt  BY <2>1 DEF OthersKeep, NoNewAttempt, InAttempt
  <2> QED  BY <1>1, <2>2, QuietRows
<1>4. CASE (\E r \in Result : ProviderReturns(w, r)) \/ ConnectionLost(w)
  <2>1. /\ OthersKeep(w) /\ worker'[w].msg = worker[w].msg
        /\ worker'[w].pc = worker[w].pc \/ worker[w].pc = "sending"
    BY <1>0, <1>4
       DEF ProviderReturns, ConnectionLost, OthersKeep, TypeOK, WorkerTypeOK, WorkerState
  <2>2. NoNewAttempt  BY <2>1 DEF OthersKeep, NoNewAttempt, InAttempt
  <2> QED  BY <1>1, <2>2, QuietRows
<1> QED  BY <1>2, <1>3, <1>4

LEMMA StepRows ==
  ASSUME TypeOK, AttemptsTell, AbsentTells, [Next]_vars
  PROVE  AbsentTells' /\ RowStep
<1>0. worker' = worker => NoNewAttempt  BY DEF NoNewAttempt, InAttempt
<1>1. CASE \E S \in SUBSET Notification : CreateBatch(S)
  <2>1. PICK S \in SUBSET Notification : CreateBatch(S)  BY <1>1
  <2>2. AbsentTells' /\ NoticesKeep  BY <2>1, CreateBatchNotices
  <2>3. Accepted(S)  BY <1>0, <2>1, <2>2 DEF CreateBatch, Accepted
  <2> QED  BY <2>2, <2>3 DEF RowStep
<1>2. ASSUME NEW p \in Publisher, Publish(p) PROVE AbsentTells' /\ RowStep
  <2>1. AbsentTells' /\ NoticesKeep  BY <1>2, PublisherNotices DEF Publish
  <2> QED  BY <1>0, <1>2, <2>1 DEF Publish, rowVars, RowStep, Still
<1>3. ASSUME NEW w \in Worker, Work(w) PROVE AbsentTells' /\ RowStep
  <2>1. CASE \E n \in Notification : Reserve(w, n)  BY <2>1, ReserveRows
  <2>2. CASE \E n \in Notification : Apply(w, n)  BY <2>2, ApplyRows
  <2> QED  BY <1>3, <2>1, <2>2, WorkRows DEF Work, WorkerStep
<1>4. CASE Tick
  <2>1. UNCHANGED <<status, attempts, history>> /\ NoNewAttempt  BY <1>0, <1>4 DEF Tick
  <2>2. AbsentTells' /\ NoticesKeep
    BY <1>4, TickedRow, RowsInPlace DEF Tick, TypeOK, Exists
  <2> QED  BY <2>1, <2>2 DEF RowStep, Still
<1>5. CASE UNCHANGED vars  BY <1>0, <1>5, QuietRows DEF vars
<1> QED  BY <1>1, <1>2, <1>3, <1>4, <1>5 DEF Next

LEMMA InitAbsent == Init => AbsentTells
BY DEF Init, StoreInit, NoEvent, AbsentTells

LEMMA RowsAreTold == Spec => [](TypeOK /\ AttemptsTell /\ AbsentTells)
<1>1. TypeOK /\ AttemptsTell /\ AbsentTells /\ [Next]_vars => AbsentTells'
  BY StepRows
<1> QED  BY <1>1, InitAbsent, AttemptsAreTold, PTL DEF Spec

-----------------------------------------------------------------------------
(* The history. *)

\* What a row with status st and a attempts says of its history h.
Told(st, a, h) ==
  /\ st = "absent" => a = 0 /\ h = <<>>
  /\ st # "absent" =>
       /\ Len(h) >= a + 1
       /\ st \notin Final => Len(h) = a + 1
       /\ ProviderTimely => Len(h) <= a + 2
       /\ \A i \in 1..Len(h) :
            h[i] \in IF i = 1 THEN {"queued"} ELSE IF i <= a + 1 THEN {"sent"} ELSE Final
       /\ st = h[Len(h)]

HistoryTells == \A n \in Notification : Told(status[n], attempts[n], history[n])

\* A further attempt, or a result, is one more entry.
LEMMA ToldOnceMore ==
  ASSUME NEW st, NEW a \in Nat, NEW h \in Seq(Status), NEW s \in Status, NEW b \in Nat,
         Told(st, a, h), st # "absent",
         \/ s = "sent" /\ b = a + 1 /\ st \notin Final
         \/ s \in Final /\ b = a /\ (ProviderTimely => st \notin Final)
  PROVE  Told(s, b, Append(h, s))
<1> DEFINE g == Append(h, s)
<1>1. /\ Len(h) \in Nat /\ Len(g) = Len(h) + 1 /\ g[Len(h) + 1] = s
      /\ \A i \in 1..Len(h) : g[i] = h[i]
  BY AppendProperties
<1>2. /\ Len(h) >= a + 1 /\ (st \notin Final => Len(h) = a + 1)
      /\ \A i \in 1..Len(h) :
           h[i] \in IF i = 1 THEN {"queued"} ELSE IF i <= a + 1 THEN {"sent"} ELSE Final
  BY DEF Told
<1> HIDE DEF g
<1>3. s # "absent" /\ (s = "sent" => s \notin Final)  BY DEF Final, Status
<1>4. Len(g) >= b + 1 /\ (s \notin Final => Len(g) = b + 1)  BY <1>1, <1>2, <1>3
<1>5. ProviderTimely => Len(g) <= b + 2  BY <1>1, <1>2, <1>3
<1>6. ASSUME NEW i \in 1..Len(g)
      PROVE  g[i] \in IF i = 1 THEN {"queued"} ELSE IF i <= b + 1 THEN {"sent"} ELSE Final
  <2>1. CASE i = Len(h) + 1
    <3>1. i # 1 /\ g[i] = s  BY <1>1, <1>2, <2>1
    <3>2. CASE s = "sent"  BY <1>2, <1>3, <2>1, <3>1, <3>2
    <3>3. CASE s # "sent"
      <4>1. s \in Final /\ b = a /\ ~(i <= b + 1)  BY <1>1, <1>2, <2>1, <3>3
      <4> QED  BY <3>1, <4>1
    <3> QED  BY <3>2, <3>3
  <2>2. CASE i # Len(h) + 1
    <3>1. i \in 1..Len(h) /\ g[i] = h[i]  BY <1>1, <2>2
    <3>2. b = a \/ i <= a + 1  BY <1>2, <3>1
    <3>3. b >= a  OBVIOUS
    <3> QED  BY <1>2, <3>1, <3>2, <3>3
  <2> QED  BY <2>1, <2>2
<1>7. s = g[Len(g)]  BY <1>1
<1> QED  BY <1>3, <1>4, <1>5, <1>6, <1>7 DEF Told, g

LEMMA RowStepHistory == ASSUME TypeOK, HistoryTells, RowStep PROVE HistoryTells'
<1> USE DEF TypeOK, WorkerTypeOK
<1> SUFFICES ASSUME NEW n \in Notification PROVE Told(status'[n], attempts'[n], history'[n])
  BY DEF HistoryTells, Told
<1>0. Told(status[n], attempts[n], history[n])  BY DEF HistoryTells
<1>1. ASSUME status'[n] = status[n], attempts'[n] = attempts[n], history'[n] = history[n]
      PROVE  Told(status'[n], attempts'[n], history'[n])
  BY <1>0, <1>1
<1>2. CASE Still  BY <1>1, <1>2 DEF Still
<1>3. CASE \E S \in SUBSET Notification : Accepted(S)
  <2>1. PICK S \in SUBSET Notification : Accepted(S)  BY <1>3
  <2>2. CASE n \in S
    <3>1. attempts'[n] = 0 /\ status'[n] = "queued" /\ history'[n] = <<"queued">>
      <4>1. status[n] = "absent" /\ attempts' = attempts  BY <2>1, <2>2 DEF Accepted
      <4>2. attempts[n] = 0  BY <1>0, <4>1 DEF Told
      <4>3. status'[n] = "queued" /\ history'[n] = <<"queued">>
        BY <2>1, <2>2 DEF Accepted
      <4> QED  BY <4>1, <4>2, <4>3
    <3>2. /\ Len(<<"queued">>) = 1 /\ <<"queued">>[1] = "queued"
          /\ \A i \in 1..1 : i = 1
      OBVIOUS
    <3> QED  BY <3>1, <3>2 DEF Told, Final
  <2>3. CASE n \notin S  BY <1>1, <2>1, <2>3 DEF Accepted
  <2> QED  BY <2>2, <2>3
<1>4. CASE \E k \in Notification : Attempted(k)
  <2>1. PICK k \in Notification : Attempted(k)  BY <1>4
  <2>2. CASE n # k  BY <1>1, <2>1, <2>2 DEF Attempted
  <2>3. CASE n = k
    <3>1. /\ status[n] # "absent" /\ status[n] \notin Final /\ status'[n] = "sent"
          /\ attempts'[n] = attempts[n] + 1 /\ history'[n] = Append(history[n], "sent")
      BY <2>1, <2>3 DEF Attempted, Final
    <3>2. attempts[n] \in Nat /\ attempts[n] + 1 \in Nat /\ "sent" \in Status
      BY DEF Status
    <3>3. Told("sent", attempts[n] + 1, Append(history[n], "sent"))
      BY <1>0, <3>1, <3>2, ToldOnceMore
    <3> QED  BY <3>1, <3>3
  <2> QED  BY <2>2, <2>3
<1>5. CASE \E k \in Notification : \E s \in Final : Ended(k, s)
  <2>1. PICK k \in Notification, s \in Final : Ended(k, s)  BY <1>5
  <2>2. CASE n # k  BY <1>1, <2>1, <2>2 DEF Ended
  <2>3. CASE n = k
    <3>1. /\ status[n] # "absent" /\ (ProviderTimely => status[n] \notin Final)
          /\ status'[n] = s /\ attempts'[n] = attempts[n]
          /\ history'[n] = Append(history[n], s) /\ s \in Status
      BY <2>1, <2>3 DEF Ended, Late, Final, Status
    <3> QED  BY <1>0, <3>1, ToldOnceMore
  <2> QED  BY <2>2, <2>3
<1> QED  BY <1>2, <1>3, <1>4, <1>5 DEF RowStep

LEMMA HistoriesAreTold == Spec => [](TypeOK /\ AttemptsTell /\ AbsentTells /\ HistoryTells)
<1>1. Init => HistoryTells  BY DEF Init, WorkerInit, HistoryTells, Told
<1>2. TypeOK /\ AttemptsTell /\ AbsentTells /\ HistoryTells /\ [Next]_vars => HistoryTells'
  BY StepRows, RowStepHistory
<1> QED  BY <1>1, <1>2, RowsAreTold, PTL DEF Spec

\* With timely providers the history a client reads is one walk: queued, one
\* sent for each attempt counted in the row, and one final status if it has one.
THEOREM HistoryIsOneWalk == ASSUME ProviderTimely PROVE Spec => []HistoryTellsAttempts
<1>1. TypeOK /\ HistoryTells => HistoryTellsAttempts
  <2> SUFFICES ASSUME TypeOK, HistoryTells, NEW n \in Notification, status[n] # "absent"
               PROVE  history[n] = [i \in 1..(attempts[n] + (IF status[n] \in Final THEN 2 ELSE 1)) |->
                                      IF i = 1 THEN "queued"
                                      ELSE IF i <= attempts[n] + 1 THEN "sent" ELSE status[n]]
    BY DEF HistoryTellsAttempts
  <2> DEFINE a == attempts[n]
             h == history[n]
             k == Len(h)
  <2>1. a \in Nat /\ h \in Seq(Status)  BY DEF TypeOK, WorkerTypeOK
  <2>2. k \in Nat /\ h \in [1..k -> Status]  BY <2>1, LenProperties
  <2>3. /\ k >= a + 1 /\ k <= a + 2
        /\ status[n] \notin Final => k = a + 1
        /\ \A i \in 1..k :
             h[i] \in IF i = 1 THEN {"queued"} ELSE IF i <= a + 1 THEN {"sent"} ELSE Final
        /\ status[n] = h[k]
    BY DEF HistoryTells, Told
  <2> HIDE DEF a, h, k
  <2>4. a \in Nat /\ k \in Nat  BY <2>1, <2>2
  <2>5. k = a + (IF status[n] \in Final THEN 2 ELSE 1)
    <3>1. CASE k = a + 1
      <4>1. k \in 1..k /\ k <= a + 1  BY <2>4, <3>1
      <4>2. h[k] \in {"queued", "sent"}  BY <2>3, <4>1
      <4> QED  BY <2>3, <3>1, <4>2 DEF Final
    <3>2. CASE k # a + 1
      <4>1. k = a + 2 /\ status[n] \in Final  BY <2>3, <2>4, <3>2
      <4> QED  BY <4>1
    <3> QED  BY <3>1, <3>2
  <2>6. ASSUME NEW i \in 1..k
        PROVE  h[i] = IF i = 1 THEN "queued" ELSE IF i <= a + 1 THEN "sent" ELSE status[n]
    <3>1. k <= a + 2  BY <2>3
    <3>2. i <= a + 1 \/ i = k  BY <2>4, <3>1
    <3> QED  BY <2>3, <3>2
  <2> QED  BY <2>2, <2>5, <2>6 DEF a, h, k
<1> QED  BY <1>1, HistoriesAreTold, PTL

-----------------------------------------------------------------------------
(* Results. *)

InFlight(n) == {w \in Worker : InAttempt(w, n)}

(***************************************************************************)
(* Each attempt under way may still add a result, and so may, once, the    *)
(* drop of a notification whose attempts are used up: no more than that    *)
(* can ever be in the history.                                             *)
(***************************************************************************)
ResultsTell ==
  \A n \in Notification :
    /\ IsFiniteSet(InFlight(n))
    /\ status[n] # "absent" =>
         Len(history[n]) + Cardinality(InFlight(n)) <=
           2 * attempts[n] + (IF status[n] \in Final THEN 2 ELSE 1)

\* Attempts that end leave fewer under way.
LEMMA FewerInFlight ==
  ASSUME NEW n \in Notification, IsFiniteSet(InFlight(n)), InFlight(n)' \subseteq InFlight(n)
  PROVE  /\ IsFiniteSet(InFlight(n)') /\ Cardinality(InFlight(n)') \in Nat
         /\ Cardinality(InFlight(n)) \in Nat
         /\ Cardinality(InFlight(n)') <= Cardinality(InFlight(n))
         /\ InFlight(n)' # InFlight(n) =>
              Cardinality(InFlight(n)') + 1 <= Cardinality(InFlight(n))
<1> DEFINE S == InFlight(n)
           T == InFlight(n)'
<1>1. IsFiniteSet(S) /\ T \subseteq S  OBVIOUS
<1> HIDE DEF S, T
<1>2. IsFiniteSet(T) /\ Cardinality(T) <= Cardinality(S)
      /\ (Cardinality(T) = Cardinality(S) => T = S)
  BY <1>1, FS_Subset
<1>3. Cardinality(S) \in Nat /\ Cardinality(T) \in Nat  BY <1>1, <1>2, FS_CardinalityType
<1>4. T # S => Cardinality(T) + 1 <= Cardinality(S)  BY <1>2, <1>3
<1> QED  BY <1>2, <1>3, <1>4 DEF S, T

LEMMA RowStepResults ==
  ASSUME TypeOK, AttemptsTell, HistoryTells, ResultsTell, RowStep PROVE ResultsTell'
<1> USE DEF TypeOK, WorkerTypeOK
<1> SUFFICES ASSUME NEW n \in Notification
             PROVE  /\ IsFiniteSet(InFlight(n)')
                    /\ status'[n] # "absent" =>
                         Len(history'[n]) + Cardinality(InFlight(n)') <=
                           2 * attempts'[n] + (IF status'[n] \in Final THEN 2 ELSE 1)
  BY DEF ResultsTell
<1> DEFINE c == Cardinality(InFlight(n))
           d == Cardinality(InFlight(n)')
<1>0. /\ IsFiniteSet(InFlight(n)) /\ c \in Nat
      /\ status[n] # "absent" =>
           Len(history[n]) + c <= 2 * attempts[n] + (IF status[n] \in Final THEN 2 ELSE 1)
      /\ attempts[n] \in Nat /\ Len(history[n]) \in Nat
  BY FS_CardinalityType DEF ResultsTell
<1>1. NoNewAttempt => InFlight(n)' \subseteq InFlight(n)  BY DEF NoNewAttempt, InFlight
<1>2. ASSUME status'[n] = status[n], attempts'[n] = attempts[n], history'[n] = history[n],
             InFlight(n)' \subseteq InFlight(n)
      PROVE  /\ IsFiniteSet(InFlight(n)')
             /\ status'[n] # "absent" =>
                  Len(history'[n]) + d <=
                    2 * attempts'[n] + (IF status'[n] \in Final THEN 2 ELSE 1)
  <2>1. IsFiniteSet(InFlight(n)') /\ d \in Nat /\ d <= c  BY <1>0, <1>2, FewerInFlight
  <2> QED  BY <1>0, <1>2, <2>1
<1>3. CASE Still  BY <1>1, <1>2, <1>3 DEF Still
<1>4. CASE \E S \in SUBSET Notification : Accepted(S)
  <2>1. PICK S \in SUBSET Notification : Accepted(S)  BY <1>4
  <2>2. CASE n \in S
    <3>1. InFlight(n) = {} /\ InFlight(n)' = {}
      BY <1>1, <2>1, <2>2 DEF Accepted, InFlight, AttemptsTell, Final
    <3>2. /\ attempts'[n] = 0 /\ status'[n] = "queued" /\ history'[n] = <<"queued">>
      <4>1. status[n] = "absent" /\ attempts' = attempts  BY <2>1, <2>2 DEF Accepted
      <4>2. attempts[n] = 0  BY <4>1 DEF HistoryTells, Told
      <4>3. status'[n] = "queued" /\ history'[n] = <<"queued">>
        BY <2>1, <2>2 DEF Accepted
      <4> QED  BY <4>1, <4>2, <4>3
    <3>3. IsFiniteSet(InFlight(n)') /\ d = 0  BY <3>1, FS_EmptySet
    <3>4. Len(<<"queued">>) = 1  OBVIOUS
    <3> QED  BY <3>2, <3>3, <3>4 DEF Final
  <2>3. CASE n \notin S  BY <1>1, <1>2, <2>1, <2>3 DEF Accepted
  <2> QED  BY <2>2, <2>3
<1>5. CASE \E k \in Notification : Attempted(k)
  <2>1. PICK k \in Notification : Attempted(k)  BY <1>5
  <2>2. PICK w \in Worker : \A v \in Worker, m \in Notification :
          InAttempt(v, m)' => InAttempt(v, m) \/ (v = w /\ m = k)
    BY <2>1 DEF Attempted
  <2>3. CASE n # k
    <3>1. InFlight(n)' \subseteq InFlight(n)  BY <2>2, <2>3 DEF InFlight
    <3> QED  BY <1>2, <2>1, <2>3, <3>1 DEF Attempted
  <2>4. CASE n = k
    <3>1. InFlight(n)' \subseteq InFlight(n) \cup {w}  BY <2>2, <2>4 DEF InFlight
    <3>2. /\ IsFiniteSet(InFlight(n) \cup {w})
          /\ Cardinality(InFlight(n) \cup {w}) \in Nat
          /\ Cardinality(InFlight(n) \cup {w}) <= c + 1
      <4>1. /\ IsFiniteSet(InFlight(n) \cup {w})
            /\ Cardinality(InFlight(n) \cup {w}) = IF w \in InFlight(n) THEN c ELSE c + 1
        BY <1>0, FS_AddElement
      <4> HIDE DEF c
      <4> QED  BY <1>0, <4>1
    <3>3. IsFiniteSet(InFlight(n)') /\ d \in Nat /\ d <= c + 1
      <4>1. IsFiniteSet(InFlight(n)') /\ d <= Cardinality(InFlight(n) \cup {w})
        BY <3>1, <3>2, FS_Subset
      <4>2. d \in Nat  BY <4>1, FS_CardinalityType
      <4> QED  BY <1>0, <3>2, <4>1, <4>2
    <3>4. /\ status[n] # "absent" /\ status[n] \notin Final /\ status'[n] = "sent"
          /\ "sent" \notin Final /\ attempts'[n] = attempts[n] + 1
          /\ history'[n] = Append(history[n], "sent")
      BY <2>1, <2>4 DEF Attempted, Final
    <3>5. Len(history'[n]) = Len(history[n]) + 1  BY <3>4, AppendProperties DEF Status
    <3> HIDE DEF c, d
    <3>6. Len(history[n]) + c <= 2 * attempts[n] + 1  BY <1>0, <3>4
    <3>7. Len(history[n]) + 1 + d <= 2 * (attempts[n] + 1) + 1  BY <1>0, <3>3, <3>6
    <3>8. Len(history'[n]) + d <= 2 * attempts'[n] + 1  BY <3>4, <3>5, <3>7
    <3> QED  BY <3>3, <3>4, <3>8 DEF d
  <2> QED  BY <2>3, <2>4
<1>6. CASE \E k \in Notification : \E s \in Final : Ended(k, s)
  <2>1. PICK k \in Notification, s \in Final : Ended(k, s)  BY <1>6
  <2>2. InFlight(n)' \subseteq InFlight(n)  BY <1>1, <2>1 DEF Ended
  <2>3. CASE n # k  BY <1>2, <2>1, <2>2, <2>3 DEF Ended
  <2>4. CASE n = k
    <3>1. /\ IsFiniteSet(InFlight(n)') /\ d \in Nat /\ d <= c
          /\ InFlight(n)' # InFlight(n) => d + 1 <= c
      BY <1>0, <2>2, FewerInFlight
    <3>2. /\ status'[n] = s /\ attempts'[n] = attempts[n] /\ s \in Status
          /\ history'[n] = Append(history[n], s)
      BY <2>1, <2>4 DEF Ended, Final, Status
    <3>3. Len(history'[n]) = Len(history[n]) + 1  BY <3>2, AppendProperties
    <3>4. status[n] # "absent" /\ (status[n] \notin Final \/ Late(n))
      BY <2>1, <2>4 DEF Ended, Late, Final
    <3>5. Late(n) => InFlight(n)' # InFlight(n)  BY DEF Late, InFlight
    <3> HIDE DEF c, d
    <3>6. Len(history[n]) + 1 + d <= 2 * attempts[n] + 2
      <4>1. CASE status[n] \notin Final  BY <1>0, <3>1, <3>4, <4>1
      <4>2. CASE Late(n)
        <5>1. d + 1 <= c /\ Len(history[n]) + c <= 2 * attempts[n] + 2
          BY <1>0, <3>1, <3>4, <3>5, <4>2
        <5> QED  BY <1>0, <3>1, <5>1
      <4> QED  BY <3>4, <4>1, <4>2
    <3>7. Len(history'[n]) + d <= 2 * attempts'[n] + 2  BY <3>2, <3>3, <3>6
    <3> QED  BY <3>1, <3>2, <3>7 DEF d
  <2> QED  BY <2>3, <2>4
<1> QED  BY <1>3, <1>4, <1>5, <1>6 DEF RowStep

LEMMA ResultsAreTold ==
  Spec => [](TypeOK /\ AttemptsTell /\ AbsentTells /\ HistoryTells /\ ResultsTell)
<1>1. Init => ResultsTell
  <2> SUFFICES ASSUME Init, NEW n \in Notification
               PROVE  IsFiniteSet(InFlight(n)) /\ status[n] = "absent"
    BY DEF ResultsTell
  <2>1. InFlight(n) = {}
    BY DEF Init, WorkerInit, IdleWorker, InFlight, InAttempt
  <2> QED  BY <2>1, FS_EmptySet DEF Init, WorkerInit
<1>2. TypeOK /\ AttemptsTell /\ AbsentTells /\ HistoryTells /\ ResultsTell /\ [Next]_vars
      => ResultsTell'
  BY StepRows, RowStepResults
<1> QED  BY <1>1, <1>2, HistoriesAreTold, PTL DEF Spec

(***************************************************************************)
(* At any speed of the providers the history starts with queued, goes on   *)
(* with one sent for each attempt and ends with the results, no more than  *)
(* the attempts can give and one drop besides; the row shows the last one. *)
(***************************************************************************)
THEOREM HistoryIsConsistent == Spec => []HistoryTellsResults
<1>1. TypeOK /\ HistoryTells /\ ResultsTell => HistoryTellsResults
  <2> SUFFICES ASSUME TypeOK, HistoryTells, ResultsTell,
                      NEW n \in Notification, status[n] # "absent"
               PROVE  /\ Len(history[n]) \in (attempts[n] + 1)..(2 * attempts[n] + 2)
                      /\ \A i \in DOMAIN history[n] :
                           history[n][i] \in IF i = 1 THEN {"queued"}
                                            ELSE IF i <= attempts[n] + 1 THEN {"sent"} ELSE Final
                      /\ status[n] = history[n][Len(history[n])]
    BY DEF HistoryTellsResults
  <2> DEFINE k == Len(history[n])
             a == attempts[n]
             c == Cardinality(InFlight(n))
  <2>1. k \in Nat /\ a \in Nat /\ DOMAIN history[n] = 1..k
    BY LenProperties DEF TypeOK, WorkerTypeOK
  <2>2. /\ k >= a + 1 /\ status[n] = history[n][k]
        /\ \A i \in 1..k :
             history[n][i] \in IF i = 1 THEN {"queued"}
                              ELSE IF i <= a + 1 THEN {"sent"} ELSE Final
    BY DEF HistoryTells, Told
  <2>3. c \in Nat /\ k + c <= 2 * a + (IF status[n] \in Final THEN 2 ELSE 1)
    BY FS_CardinalityType DEF ResultsTell
  <2> HIDE DEF k, a, c
  <2>4. k \in (a + 1)..(2 * a + 2)
    <3>1. k + c <= 2 * a + 2  BY <2>1, <2>3
    <3> QED  BY <2>1, <2>2, <2>3, <3>1
  <2> QED  BY <2>1, <2>2, <2>4 DEF k, a
<1> QED  BY <1>1, ResultsAreTold, PTL

-----------------------------------------------------------------------------
(* Notices and the refinement. *)

\* As many failure notices as drops.
NoticesTell ==
  \A n \in Notification :
    /\ IsFiniteSet(Notices(n)) /\ IsFiniteSet(Drops(n))
    /\ Cardinality(Notices(n)) = Cardinality(Drops(n))

\* The drops of a history with one more entry.
LEMMA DropsGrow ==
  ASSUME TypeOK, NEW n \in Notification, NEW s \in Status,
         history'[n] = Append(history[n], s)
  PROVE  IF s = "dropped"
         THEN \E i \in Nat \ Drops(n) : Drops(n)' = Drops(n) \cup {i}
         ELSE Drops(n)' = Drops(n)
<1> DEFINE h == history[n]
           g == Append(h, s)
           k == Len(h)
<1>1. h \in Seq(Status)  BY DEF TypeOK, WorkerTypeOK
<1>2. k \in Nat /\ DOMAIN h = 1..k  BY <1>1, LenProperties
<1>3. DOMAIN g = 1..(k + 1) /\ g[k + 1] = s /\ \A i \in 1..k : g[i] = h[i]
  BY <1>1, <1>2, AppendProperties, LenProperties
<1>4. Drops(n) = {i \in 1..k : h[i] = "dropped"}  BY <1>2 DEF Drops
<1>5. Drops(n)' = {i \in 1..(k + 1) : g[i] = "dropped"}  BY <1>3 DEF Drops
<1> HIDE DEF h, g, k
<1>6. CASE s = "dropped"
  <2>1. k + 1 \in Nat \ Drops(n)  BY <1>2, <1>4
  <2>2. Drops(n)' = Drops(n) \cup {k + 1}  BY <1>2, <1>3, <1>4, <1>5, <1>6
  <2> QED  BY <1>6, <2>1, <2>2
<1>7. CASE s # "dropped"
  <2>1. Drops(n)' = Drops(n)  BY <1>2, <1>3, <1>4, <1>5, <1>7
  <2> QED  BY <1>7, <2>1
<1> QED  BY <1>6, <1>7

\* What a step does to the notices of n and to its drops: nothing, or one more
\* of each.
LEMMA RowStepDrops ==
  ASSUME TypeOK, HistoryTells, RowStep, NEW n \in Notification
  PROVE  \/ Notices(n)' = Notices(n) /\ Drops(n)' = Drops(n)
         \/ /\ \E e \in EventId \ Notices(n) : Notices(n)' = Notices(n) \cup {e}
            /\ \E i \in Nat \ Drops(n) : Drops(n)' = Drops(n) \cup {i}
<1> USE DEF TypeOK, WorkerTypeOK
<1>0. history'[n] = history[n] => Drops(n)' = Drops(n)  BY DEF Drops
<1>1. CASE Still  BY <1>0, <1>1 DEF Still, NoticesKeep
<1>2. CASE \E S \in SUBSET Notification : Accepted(S)
  <2>1. PICK S \in SUBSET Notification : Accepted(S)  BY <1>2
  <2>2. CASE n \in S
    <3>1. history[n] = <<>> /\ history'[n] = <<"queued">>
      BY <2>1, <2>2 DEF Accepted, HistoryTells, Told
    <3>2. Drops(n) = {} /\ Drops(n)' = {}
      <4>1. /\ DOMAIN <<>> = {} /\ DOMAIN <<"queued">> = {1}
            /\ <<"queued">>[1] # "dropped"
        OBVIOUS
      <4> QED  BY <3>1, <4>1 DEF Drops
    <3> QED  BY <2>1, <3>2 DEF Accepted, NoticesKeep
  <2>3. CASE n \notin S  BY <1>0, <2>1, <2>3 DEF Accepted, NoticesKeep
  <2> QED  BY <2>2, <2>3
<1>3. CASE \E k \in Notification : Attempted(k)
  <2>1. PICK k \in Notification : Attempted(k)  BY <1>3
  <2>2. history'[n] = IF n = k THEN Append(history[n], "sent") ELSE history[n]
    BY <2>1 DEF Attempted
  <2>3. Drops(n)' = Drops(n)  BY <1>0, <2>2, DropsGrow DEF Status
  <2> QED  BY <2>1, <2>3 DEF Attempted, NoticesKeep
<1>4. CASE \E k \in Notification : \E s \in Final : Ended(k, s)
  <2>1. PICK k \in Notification, s \in Final : Ended(k, s)  BY <1>4
  <2>2. history'[n] = IF n = k THEN Append(history[n], s) ELSE history[n]
    BY <2>1 DEF Ended
  <2>3. CASE n = k
    <3>1. history'[n] = Append(history[n], s) /\ s \in Status
      BY <2>2, <2>3 DEF Final, Status
    <3>2. IF s = "dropped"
          THEN \E i \in Nat \ Drops(n) : Drops(n)' = Drops(n) \cup {i}
          ELSE Drops(n)' = Drops(n)
      BY <3>1, DropsGrow
    <3>3. IF s = "dropped"
          THEN \E e \in EventId \ Notices(n) : Notices(n)' = Notices(n) \cup {e}
          ELSE Notices(n)' = Notices(n)
      BY <2>1, <2>3 DEF Ended
    <3> QED  BY <3>2, <3>3
  <2>4. CASE n # k  BY <1>0, <2>1, <2>2, <2>4 DEF Ended
  <2> QED  BY <2>3, <2>4
<1> QED  BY <1>1, <1>2, <1>3, <1>4 DEF RowStep

LEMMA RowStepNotices ==
  ASSUME TypeOK, HistoryTells, NoticesTell, RowStep PROVE NoticesTell'
<1> SUFFICES ASSUME NEW n \in Notification
             PROVE  /\ IsFiniteSet(Notices(n)') /\ IsFiniteSet(Drops(n)')
                    /\ Cardinality(Notices(n)') = Cardinality(Drops(n)')
  BY DEF NoticesTell
<1>1. /\ IsFiniteSet(Notices(n)) /\ IsFiniteSet(Drops(n))
      /\ Cardinality(Notices(n)) = Cardinality(Drops(n))
  BY DEF NoticesTell
<1>2. CASE Notices(n)' = Notices(n) /\ Drops(n)' = Drops(n)  BY <1>1, <1>2
<1>3. ASSUME NEW e \in EventId \ Notices(n), NEW i \in Nat \ Drops(n),
             Notices(n)' = Notices(n) \cup {e}, Drops(n)' = Drops(n) \cup {i}
      PROVE  /\ IsFiniteSet(Notices(n)') /\ IsFiniteSet(Drops(n)')
             /\ Cardinality(Notices(n)') = Cardinality(Drops(n)')
  <2>1. /\ IsFiniteSet(Notices(n)')
        /\ Cardinality(Notices(n)') = Cardinality(Notices(n)) + 1
    BY <1>1, <1>3, FS_AddElement
  <2>2. IsFiniteSet(Drops(n)') /\ Cardinality(Drops(n)') = Cardinality(Drops(n)) + 1
    BY <1>1, <1>3, FS_AddElement
  <2> QED  BY <1>1, <2>1, <2>2
<1> QED  BY <1>2, <1>3, RowStepDrops

LEMMA NoticesAreTold ==
  Spec => [](/\ TypeOK /\ AttemptsTell /\ AbsentTells /\ HistoryTells /\ ResultsTell
             /\ NoticesTell)
<1>1. Init => NoticesTell
  <2> SUFFICES ASSUME Init, NEW n \in Notification PROVE Notices(n) = {} /\ Drops(n) = {}
    BY FS_EmptySet DEF NoticesTell
  <2>1. Notices(n) = {}  BY DEF Init, StoreInit, NoEvent, Notices, Exists
  <2>2. history[n] = <<>>  BY DEF Init, WorkerInit
  <2> QED  BY <2>1, <2>2 DEF Drops
<1>2. TypeOK /\ AttemptsTell /\ AbsentTells /\ HistoryTells /\ NoticesTell /\ [Next]_vars
      => NoticesTell'
  BY StepRows, RowStepNotices
<1> QED  BY <1>1, <1>2, ResultsAreTold, PTL DEF Spec

\* At any speed of the providers there is one failure notice for each drop.
THEOREM NoticesMatchDrops == Spec => []NoticePerDrop
<1>1. NoticesTell => NoticePerDrop  BY DEF NoticesTell, NoticePerDrop
<1> QED  BY <1>1, NoticesAreTold, PTL

\* With timely providers a failure notice is written once, with the drop, and
\* never without one.
THEOREM NoticeWithDrop == ASSUME ProviderTimely PROVE Spec => []OneFailureNotice
<1>1. TypeOK /\ HistoryTells /\ NoticesTell => OneFailureNotice
  <2> SUFFICES ASSUME TypeOK, HistoryTells, NoticesTell, NEW n \in Notification
               PROVE  Cardinality(Drops(n)) = IF status[n] = "dropped" THEN 1 ELSE 0
    BY DEF OneFailureNotice, NoticesTell
  <2> DEFINE k == Len(history[n])
             a == attempts[n]
  <2>1. k \in Nat /\ a \in Nat /\ DOMAIN history[n] = 1..k
    BY LenProperties DEF TypeOK, WorkerTypeOK
  <2>2. CASE status[n] = "absent"
    <3>1. Drops(n) = {}  BY <2>2 DEF HistoryTells, Told, Drops
    <3> QED  BY <2>2, <3>1, FS_EmptySet
  <2>3. CASE status[n] # "absent"
    <3>1. /\ k >= a + 1 /\ k <= a + 2 /\ status[n] = history[n][k]
          /\ \A i \in 1..k : i <= a + 1 => history[n][i] \in {"queued", "sent"}
      BY <2>1, <2>3 DEF HistoryTells, Told
    <3> HIDE DEF k, a
    <3>2. \A i \in 1..k : history[n][i] = "dropped" => i = k
      <4>1. \A i \in 1..k : i <= a + 1 \/ i = k  BY <2>1, <3>1
      <4> QED  BY <3>1, <4>1
    <3>3. k \in 1..k  BY <2>1, <3>1
    <3>4. Drops(n) = IF status[n] = "dropped" THEN {k} ELSE {}
      BY <2>1, <3>1, <3>2, <3>3 DEF Drops
    <3> QED  BY <3>4, FS_EmptySet, FS_Singleton
  <2> QED  BY <2>2, <2>3
<1> QED  BY <1>1, NoticesAreTold, PTL

\* Every step of the pipeline is a step of the lifecycle or leaves it alone.
LEMMA StepRefines ==
  ASSUME TypeOK, ResultsTell, NoticesTell, RowStep
  PROVE  [Lifecycle!Next]_(Lifecycle!vars)
<1> USE DEF TypeOK, WorkerTypeOK
<1> DEFINE count == [n \in Notification |-> Cardinality(Notices(n))]
<1>1. NoticesKeep => count' = count  BY DEF NoticesKeep
<1>2. CASE Still  BY <1>1, <1>2 DEF Still, Lifecycle!vars
<1>3. CASE \E S \in SUBSET Notification : Accepted(S)
  <2>1. PICK S \in SUBSET Notification : Accepted(S)  BY <1>3
  <2>2. count' = count  BY <1>1, <2>1 DEF Accepted
  <2>3. Lifecycle!Accept(S)  BY <2>1, <2>2 DEF Accepted, Lifecycle!Accept
  <2> QED  BY <2>3 DEF Lifecycle!Next
<1>4. CASE \E n \in Notification : Attempted(n)
  <2>1. PICK n \in Notification : Attempted(n)  BY <1>4
  <2>2. count' = count  BY <1>1, <2>1 DEF Attempted
  <2>3. Lifecycle!CanTransition(status[n], "sent") \/ status[n] = "sent"
    BY <2>1 DEF Attempted, Lifecycle!CanTransition, Lifecycle!AllowedTransitions
  <2>4. Lifecycle!Attempt(n)
    BY <2>1, <2>2, <2>3 DEF Attempted, Lifecycle!Attempt, Lifecycle!Record
  <2> QED  BY <2>4 DEF Lifecycle!Next
<1>5. CASE \E n \in Notification : \E s \in Final : Ended(n, s)
  <2>1. PICK n \in Notification, s \in Final : Ended(n, s)  BY <1>5
  <2>2. Lifecycle!MayFinish(n, s)
    <3>1. CASE Late(n)
      <4>1. InFlight(n) # {} /\ IsFiniteSet(InFlight(n))
        BY <3>1 DEF Late, InFlight, ResultsTell
      <4>2. Cardinality(InFlight(n)) \in Nat /\ Cardinality(InFlight(n)) # 0
        BY <4>1, FS_CardinalityType, FS_EmptySet
      <4>3. Len(history[n]) + Cardinality(InFlight(n)) <= 2 * attempts[n] + 2
        BY <3>1 DEF Late, Final, ResultsTell
      <4>4. attempts[n] \in Nat /\ Len(history[n]) \in Nat  BY LenProperties
      <4>5. Len(history[n]) - attempts[n] - 1 <= attempts[n]  BY <4>2, <4>3, <4>4
      <4> QED  BY <3>1, <4>5 DEF Late, Final, Lifecycle!MayFinish, Lifecycle!Results,
                                 Lifecycle!Final
    <3>2. CASE status[n] = "sent" \/ (status[n] = "queued" /\ s = "dropped")
      BY <2>1, <3>2 DEF Final, Lifecycle!MayFinish, Lifecycle!Final,
                        Lifecycle!CanTransition, Lifecycle!AllowedTransitions
    <3> QED  BY <2>1, <3>1, <3>2 DEF Ended
  <2>3. /\ status' = [status EXCEPT ![n] = s] /\ attempts' = attempts
        /\ history' = [history EXCEPT ![n] = Append(@, s)]
    BY <2>1 DEF Ended
  <2>4. CASE s = "delivered"
    <3>1. count' = count  BY <2>1, <2>4 DEF Ended
    <3>2. Lifecycle!Deliver(n)
      BY <2>2, <2>3, <2>4, <3>1 DEF Lifecycle!Deliver, Lifecycle!Record
    <3> QED  BY <3>2 DEF Lifecycle!Next
  <2>5. CASE s = "dropped"
    <3>1. count' = [count EXCEPT ![n] = @ + 1]
      <4>1. PICK e \in EventId \ Notices(n) : Notices(n)' = Notices(n) \cup {e}
        BY <2>1, <2>5 DEF Ended
      <4>2. Cardinality(Notices(n)') = Cardinality(Notices(n)) + 1
        <5>1. IsFiniteSet(Notices(n))  BY DEF NoticesTell
        <5> HIDE DEF TypeOK, WorkerTypeOK
        <5> QED  BY <4>1, <5>1, FS_AddElement
      <4>3. \A k \in Notification : k # n => Cardinality(Notices(k)') = Cardinality(Notices(k))
        BY <2>1 DEF Ended
      <4>4. count' = [k \in Notification |-> Cardinality(Notices(k)')]  OBVIOUS
      <4> QED  BY <4>2, <4>3, <4>4
    <3>2. Lifecycle!DropWithNotice(n)
      BY <2>2, <2>3, <2>5, <3>1 DEF Lifecycle!DropWithNotice, Lifecycle!Record
    <3> QED  BY <3>2 DEF Lifecycle!Next
  <2> QED  BY <2>4, <2>5 DEF Final
<1> QED  BY <1>2, <1>3, <1>4, <1>5 DEF RowStep

(***************************************************************************)
(* The pipeline, with its publishers, duplicates, crashes and retries,     *)
(* implements the lifecycle a client is promised: with timely providers    *)
(* the strict one, with any other the one where results may come late.     *)
(***************************************************************************)
THEOREM KeepsLifecycle == Spec => ImplementsLifecycle
<1>1. Init => Lifecycle!Init
  <2> SUFFICES ASSUME Init PROVE Lifecycle!Init  OBVIOUS
  <2>1. \A n \in Notification : Notices(n) = {}
    BY DEF Init, StoreInit, NoEvent, Notices, Exists
  <2>2. \A n \in Notification : Cardinality(Notices(n)) = 0  BY <2>1, FS_EmptySet
  <2> QED  BY <2>2 DEF Init, WorkerInit, Lifecycle!Init
<1>2. TypeOK /\ AttemptsTell /\ AbsentTells /\ ResultsTell /\ NoticesTell /\ [Next]_vars
      => [Lifecycle!Next]_(Lifecycle!vars)
  BY StepRows, StepRefines
<1> QED  BY <1>1, <1>2, NoticesAreTold, PTL DEF Spec, ImplementsLifecycle, Lifecycle!Spec

\* With timely providers notifications.status only ever changes as the
\* transition table allows.
THEOREM TableIsObeyed == ASSUME ProviderTimely PROVE Spec => StatusFollowsTable
<1> DEFINE Follows(n) == status'[n] # status[n] /\ status[n] # "absent" =>
                           Lifecycle!CanTransition(status[n], status'[n])
<1>1. TypeOK /\ RowStep => \A n \in Notification : Follows(n)
  BY DEF TypeOK, WorkerTypeOK, RowStep, Still, Accepted, Attempted, Ended, Late, Final,
         Lifecycle!CanTransition, Lifecycle!AllowedTransitions
<1>2. TypeOK /\ AttemptsTell /\ AbsentTells /\ [Next]_vars
      => [\A n \in Notification : Follows(n)]_vars
  BY <1>1, StepRows
<1> QED  BY <1>2, RowsAreTold, PTL DEF Spec, StatusFollowsTable

-----------------------------------------------------------------------------
(* Confirmations. *)

Delivered(n) == \E i \in DOMAIN history[n] : history[n][i] = "delivered"

Confirming(w, n) == worker[w].msg.n = n /\ HasConfirmation(w)

\* Nothing is ever taken out of a history.
LEMMA DeliveredStays ==
  ASSUME TypeOK, HistoryTells, RowStep, NEW n \in Notification, Delivered(n)
  PROVE  Delivered(n)'
<1> USE DEF TypeOK, WorkerTypeOK
<1>1. history[n] # <<>>  BY DEF Delivered
<1>2. \/ history'[n] = history[n]
      \/ \E s \in Status : history'[n] = Append(history[n], s)
  BY <1>1 DEF RowStep, Still, Accepted, Attempted, Ended, HistoryTells, Told, Final, Status
<1>3. ASSUME NEW s \in Status, history'[n] = Append(history[n], s) PROVE Delivered(n)'
  <2>1. history[n] \in Seq(Status)  OBVIOUS
  <2>2. PICK i \in DOMAIN history[n] : history[n][i] = "delivered"  BY DEF Delivered
  <2>3. i \in DOMAIN history'[n] /\ history'[n][i] = history[n][i]
    BY <1>3, <2>1, AppendProperties, LenProperties
  <2> QED  BY <2>2, <2>3 DEF Delivered
<1> QED  BY <1>2, <1>3 DEF Delivered

\* Steps that keep what is confirmed or on its way.
LEMMA CarriedConfirmations ==
  ASSUME ConfirmationIsTold, \A n \in Notification : Delivered(n) => Delivered(n)',
         \A n \in Notification :
           /\ confirmed'[n] => confirmed[n]
           /\ \A w \in Worker : confirmed'[n] /\ Confirming(w, n) =>
                                  Confirming(w, n)' \/ Delivered(n)'
  PROVE  ConfirmationIsTold'
BY DEF ConfirmationIsTold, Delivered, Confirming

\* A worker that has nothing to say of n steps, and the others stay.
LEMMA BystandersConfirm ==
  ASSUME ConfirmationIsTold, \A n \in Notification : Delivered(n) => Delivered(n)',
         NEW w \in Worker, OthersKeep(w), confirmed' = confirmed,
         \A n \in Notification : Confirming(w, n) => Delivered(n)'
  PROVE  ConfirmationIsTold'
<1>1. ASSUME NEW n \in Notification, NEW v \in Worker, Confirming(v, n)
      PROVE  Confirming(v, n)' \/ Delivered(n)'
  <2>1. CASE v = w  BY <1>1, <2>1
  <2>2. CASE v # w
    <3>1. worker'[v] = worker[v]  BY <2>2 DEF OthersKeep
    <3> QED  BY <1>1, <3>1 DEF Confirming, HasConfirmation
  <2> QED  BY <2>1, <2>2
<1> QED  BY <1>1, CarriedConfirmations

LEMMA ReserveConfirms ==
  ASSUME TypeOK, ConfirmationIsTold, \A n \in Notification : Delivered(n) => Delivered(n)',
         NEW w \in Worker, NEW n \in Notification, Reserve(w, n)
  PROVE  ConfirmationIsTold'
<1>1. worker[w] \in WorkerState /\ worker[w].pc = "received"
  BY WorkerMoves DEF Reserve, SkipMessage, DeferToWaitingRetry, DeferWithNewRetry,
                     DeferAmbiguous, DropBeforeProvider, BeginAttempt, Reserving
<1>2. confirmed' = confirmed
  BY DEF Reserve, SkipMessage, DeferToWaitingRetry, DeferWithNewRetry,
         DeferAmbiguous, DropBeforeProvider, BeginAttempt, ghostVars
<1>3. OthersKeep(w)
  <2>1. CASE BeginAttempt(w, n)
    BY <1>1, <2>1 DEF BeginAttempt, OthersKeep, TypeOK, WorkerTypeOK, WorkerState
  <2>2. CASE Done(w) \/ LoseMessage(w)  BY <2>2, EndsOfStep
  <2> QED
    BY <2>1, <2>2 DEF Reserve, SkipMessage, DeferToWaitingRetry, DeferWithNewRetry,
                      DeferAmbiguous, DropBeforeProvider
<1>4. \A k \in Notification : ~Confirming(w, k)  BY <1>1 DEF Confirming, HasConfirmation
<1> QED  BY <1>2, <1>3, <1>4, BystandersConfirm

\* A confirmation is neither retried nor dropped, whatever is in the row.
LEMMA ApplyConfirms ==
  ASSUME TypeOK, ConfirmationIsTold, \A n \in Notification : Delivered(n) => Delivered(n)',
         NEW w \in Worker, NEW n \in Notification, Apply(w, n)
  PROVE  ConfirmationIsTold'
<1>1. /\ Applying(w, n) /\ confirmed' = confirmed /\ (Done(w) \/ LoseMessage(w))
  BY DEF Apply, MarkDelivered, ScheduleRetry, RetryUndefined, Drop, ghostVars
<1>2. OthersKeep(w)  BY <1>1, EndsOfStep
<1>3. ASSUME NEW k \in Notification, Confirming(w, k) PROVE Delivered(k)'
  <2>1. k = n /\ MarkDelivered(w, n)
    BY <1>1, <1>3 DEF Confirming, HasConfirmation, Applying, Apply, ScheduleRetry,
                      RetryUndefined, Drop, WillRetry
  <2>2. history[n] \in Seq(Status) /\ history'[n] = Append(history[n], "delivered")
    BY <2>1 DEF MarkDelivered, Finish, TypeOK, WorkerTypeOK
  <2>3. /\ Len(history[n]) + 1 \in DOMAIN history'[n]
        /\ history'[n][Len(history[n]) + 1] = "delivered"
    BY <2>2, AppendProperties, LenProperties DEF Status
  <2> QED  BY <2>1, <2>3 DEF Delivered
<1> QED  BY <1>1, <1>2, <1>3, BystandersConfirm

LEMMA WorkConfirms ==
  ASSUME TypeOK, ConfirmationIsTold, \A n \in Notification : Delivered(n) => Delivered(n)',
         NEW w \in Worker, WorkerStep(w) \/ WorkerFault(w) \/ ConnectionLost(w)
  PROVE  ConfirmationIsTold'
<1>0. worker[w] \in WorkerState /\ worker[w].msg.n \in Notification  BY WorkerMoves
<1>1. CASE GetMessage(w) \/ Ack(w)
  <2>1. OthersKeep(w) /\ worker[w].pc # "applying" /\ confirmed' = confirmed
    <3>1. CASE GetMessage(w)
      BY <3>1 DEF GetMessage, OthersKeep, ghostVars, TypeOK, WorkerTypeOK
    <3>2. CASE Ack(w)  BY <3>2 DEF Ack, OthersKeep, ghostVars, TypeOK, WorkerTypeOK
    <3> QED  BY <1>1, <3>1, <3>2
  <2> QED  BY <2>1, BystandersConfirm DEF Confirming, HasConfirmation
<1>2. CASE \E n \in Notification : Reserve(w, n)  BY <1>2, ReserveConfirms
<1>3. CASE \E r \in Result : ProviderReturns(w, r)
  <2>1. PICK r \in Result : ProviderReturns(w, r)  BY <1>3
  <2> DEFINE m == worker[w].msg.n
  <2>2. /\ worker[w].pc = "sending" /\ OthersKeep(w)
        /\ worker'[w].pc = "applying" /\ worker'[w].msg = worker[w].msg
        /\ worker'[w].result = r
    BY <1>0, <2>1 DEF ProviderReturns, OthersKeep, TypeOK, WorkerTypeOK, WorkerState
  <2>3. \A k \in Notification :
          confirmed'[k] => confirmed[k] \/ (k = m /\ r = "delivered")
    BY <1>0, <2>1 DEF ProviderReturns, TypeOK, WorkerTypeOK
  <2>4. \A v \in Worker, k \in Notification : Confirming(v, k) => Confirming(v, k)'
    BY <2>2 DEF Confirming, HasConfirmation, OthersKeep
  <2> HIDE DEF m
  <2> SUFFICES ASSUME NEW k \in Notification, confirmed'[k]
               PROVE  Delivered(k)' \/ \E v \in Worker : Confirming(v, k)'
    BY DEF ConfirmationIsTold, Delivered, Confirming
  <2>5. CASE confirmed[k]
    <3>1. Delivered(k) \/ \E v \in Worker : Confirming(v, k)
      BY <2>5 DEF ConfirmationIsTold, Delivered, Confirming
    <3> QED  BY <2>4, <3>1
  <2>6. CASE k = m /\ r = "delivered"
    <3>1. Confirming(w, k)'  BY <2>2, <2>6 DEF Confirming, HasConfirmation, m
    <3> QED  BY <3>1
  <2> QED  BY <2>3, <2>5, <2>6
<1>4. CASE \E n \in Notification : Apply(w, n)  BY <1>4, ApplyConfirms
<1>5. CASE WorkerFault(w)
  <2>1. /\ LoseMessage(w)
        /\ \A k \in Notification :
             confirmed'[k] => confirmed[k] /\ ~(k = worker[w].msg.n /\ HasConfirmation(w))
    BY <1>0, <1>5 DEF WorkerFault, TypeOK, WorkerTypeOK
  <2>2. OthersKeep(w)  BY <2>1, EndsOfStep
  <2>3. ASSUME NEW k \in Notification, NEW v \in Worker, confirmed'[k], Confirming(v, k)
        PROVE  Confirming(v, k)'
    <3>1. v # w  BY <2>1, <2>3 DEF Confirming
    <3>2. worker'[v] = worker[v]  BY <2>2, <3>1 DEF OthersKeep
    <3> QED  BY <2>3, <3>2 DEF Confirming, HasConfirmation
  <2> QED  BY <2>1, <2>3, CarriedConfirmations
<1>6. CASE ConnectionLost(w)
  <2>1. /\ OthersKeep(w) /\ worker'[w].pc = worker[w].pc
        /\ worker'[w].msg = worker[w].msg /\ worker'[w].result = worker[w].result
        /\ confirmed' = confirmed
    BY <1>0, <1>6 DEF ConnectionLost, OthersKeep, ghostVars, TypeOK, WorkerTypeOK, WorkerState
  <2>2. \A v \in Worker, k \in Notification : Confirming(v, k) => Confirming(v, k)'
    BY <2>1 DEF Confirming, HasConfirmation, OthersKeep
  <2> QED  BY <2>1, <2>2, CarriedConfirmations
<1> QED  BY <1>1, <1>2, <1>3, <1>4, <1>5, <1>6 DEF WorkerStep

LEMMA StepConfirms ==
  ASSUME TypeOK, AttemptsTell, AbsentTells, HistoryTells, ConfirmationIsTold, [Next]_vars
  PROVE  ConfirmationIsTold'
<1>0. \A n \in Notification : Delivered(n) => Delivered(n)'
  BY StepRows, DeliveredStays
<1>1. ASSUME worker' = worker, confirmed' = confirmed PROVE ConfirmationIsTold'
  BY <1>0, <1>1, CarriedConfirmations DEF Confirming, HasConfirmation
<1>2. CASE \E S \in SUBSET Notification : CreateBatch(S)
  BY <1>1, <1>2 DEF CreateBatch, ghostVars
<1>3. CASE \E p \in Publisher : Publish(p)  BY <1>1, <1>3 DEF Publish, ghostVars
<1>4. CASE \E w \in Worker : Work(w)  BY <1>0, <1>4, WorkConfirms DEF Work
<1>5. CASE Tick  BY <1>1, <1>5 DEF Tick, ghostVars
<1>6. CASE UNCHANGED vars  BY <1>1, <1>6 DEF vars
<1> QED  BY <1>2, <1>3, <1>4, <1>5, <1>6 DEF Next

\* At any speed of the providers, what they have confirmed gets into the
\* history, unless the worker that knew has died.
THEOREM ConfirmationsAreTold == Spec => []ConfirmationIsTold
<1>1. Init => ConfirmationIsTold  BY DEF Init, WorkerInit, ConfirmationIsTold
<1> QED  BY <1>1, StepConfirms, HistoriesAreTold, PTL DEF Spec

\* While attempts are timely, what the provider has confirmed is not reported
\* as dropped, unless the worker that knew has died.
THEOREM ConfirmationStands == ASSUME ProviderTimely PROVE Spec => []ConfirmedIsNotDropped
<1>1. TypeOK /\ AttemptsTell /\ HistoryTells /\ ConfirmationIsTold => ConfirmedIsNotDropped
  <2> SUFFICES ASSUME TypeOK, AttemptsTell, HistoryTells, ConfirmationIsTold,
                      NEW n \in Notification, confirmed[n]
               PROVE  status[n] # "dropped"
    BY DEF ConfirmedIsNotDropped
  <2>1. CASE \E w \in Worker : Confirming(w, n)
    BY <2>1 DEF Confirming, HasConfirmation, InAttempt, AttemptsTell
  <2>2. CASE Delivered(n)
    <3> DEFINE k == Len(history[n])
               a == attempts[n]
    <3>1. k \in Nat /\ a \in Nat /\ DOMAIN history[n] = 1..k
      BY LenProperties DEF TypeOK, WorkerTypeOK
    <3>2. PICK i \in 1..k : history[n][i] = "delivered"  BY <2>2, <3>1 DEF Delivered
    <3>3. status[n] # "absent"
      <4>1. history[n] # <<>>  BY <2>2 DEF Delivered
      <4> QED  BY <4>1 DEF HistoryTells, Told
    <3>4. /\ k <= a + 2 /\ status[n] = history[n][k]
          /\ i <= a + 1 => history[n][i] \in {"queued", "sent"}
      BY <3>1, <3>3 DEF HistoryTells, Told
    <3> HIDE DEF k, a
    <3>5. i = k  BY <3>1, <3>2, <3>4
    <3> QED  BY <3>2, <3>4, <3>5
  <2> QED  BY <2>1, <2>2 DEF ConfirmationIsTold, Delivered, Confirming
<1> QED  BY <1>1, ConfirmationsAreTold, HistoriesAreTold, PTL
=============================================================================
