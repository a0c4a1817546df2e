------------------------------ MODULE LimitProofs ------------------------------
(***************************************************************************)
(* What failures cost: a notification that is not final is left to an      *)
(* operator only once failures have used up the publish attempts of a row  *)
(* or the deliveries of a message.                                         *)
(***************************************************************************)
EXTENDS DeliveryProofs

-----------------------------------------------------------------------------
(***************************************************************************)
(* OnlyLimitsStrand is not inductive: a message may be rejected only as    *)
(* often as there were failures, and a row given up only for failures.     *)
(* The latter is ClaimsPaid.  For the former, whatever stands for an open  *)
(* notification has been returned to its queue at most once per failure.   *)
(* A message rejected without a failure (DeferAmbiguous) may have been     *)
(* returned more often; two waiting rows stand for its notification.       *)
(***************************************************************************)
Waits(e, n) == RowCarries(e, n) /\ outbox[e].status # "failed"

Sound(n) ==
  \/ \E e \in EventId : Waits(e, n)
  \/ \E m \in queue : m.n = n /\ m.deliveries <= faults
  \/ \E w \in Worker : Carrying(w, n) /\ worker[w].msg.deliveries <= faults

AllSound == \A n \in Notification : Open(n) => Sound(n) \/ LimitsReached

FailuresPay == Conserved /\ Claims /\ AllSound

LEMMA LimitTypes ==
  ASSUME TypeOK
  PROVE  /\ faults \in Nat /\ DeliveryLimit \in Nat /\ OutboxMaxAttempts \in Nat
         /\ \A m \in queue : m.deliveries \in Nat
         /\ \A w \in Worker : worker[w].msg.deliveries \in Nat
BY WorkerMoves, StoreAssumption, PublisherAssumption DEF TypeOK, StoreTypeOK, Message

\* Failures are never forgotten.
LEMMA LimitsStay ==
  ASSUME TypeOK, faults' \in Nat, faults' >= faults, LimitsReached PROVE LimitsReached'
BY LimitTypes DEF LimitsReached

-----------------------------------------------------------------------------
(* Workers. *)

LEMMA WorkCosts ==
  ASSUME TypeOK, NEW w \in Worker
  PROVE  /\ WorkerStep(w) => faults' = faults
         /\ WorkerFault(w) \/ ConnectionLost(w) => faults' = faults + 1
BY DEF WorkerStep, GetMessage, Reserve, SkipMessage, DeferToWaitingRetry,
       DeferWithNewRetry, DeferAmbiguous, DropBeforeProvider, BeginAttempt,
       ProviderReturns, Apply, MarkDelivered, ScheduleRetry,
       RetryUndefined, Drop, Ack, WorkerFault, ConnectionLost, Fault, storeVars

LEMMA NewRowWaits ==
  ASSUME Conserved, NEW n \in Notification, NEW delay \in Nat,
         AddOutboxEvent(n, "retry", delay), emitted' = emitted
  PROVE  Sound(n)'
<1> USE DEF Conserved, TypeOK
<1>1. PICK e \in EventId : ~Exists(e) /\ outbox'[e] = NewEvent(n, "retry", delay)
  BY AddedRowGrows DEF EventType
<1>2. Waits(e, n)'
  BY <1>1 DEF RowsTell, Waits, RowCarries, NewEvent
<1> QED  BY <1>2 DEF Sound

\* A row that outlasts a processing lock has not been emitted.
LEMMA WaitingRetryWaits ==
  ASSUME Conserved, NEW n \in Notification, HasActiveProcessingLock(n),
         NEW e \in WaitingRetries(n)
  PROVE  e \in EventId /\ Waits(e, n)
<1> USE DEF Conserved, TypeOK
<1>1. /\ e \in EventId /\ outbox[e].n = n /\ outbox[e].type = "retry"
      /\ outbox[e].status \in {"pending", "processing"}
      /\ outbox[e].delay >= lock[n]
  BY DEF WaitingRetries
<1>2. lock[n] > 0 /\ lock[n] \in Nat /\ outbox[e].delay \in Nat
  BY <1>1 DEF HasActiveProcessingLock, WorkerTypeOK, StoreTypeOK, OutboxEvent
<1> QED  BY <1>1, <1>2 DEF RowsTell, RowCarries, Waits

\* Returning a message costs one of its deliveries, and the failure that made
\* the worker return it pays for that.
LEMMA ReturnIsPaid ==
  ASSUME TypeOK, NEW w \in Worker, NEW n \in Notification, worker[w].msg.n = n,
         worker[w].msg.deliveries <= faults,
         ReturnToQueue(worker[w].msg), faults' = faults + 1
  PROVE  Sound(n)' \/ LimitsReached'
<1> DEFINE m == worker[w].msg
<1>1. m \in Message /\ m.deliveries \in Nat  BY WorkerMoves DEF Message
<1>2. CASE m.deliveries >= DeliveryLimit
  <2>1. faults' > DeliveryLimit  BY <1>1, <1>2, LimitTypes
  <2> QED  BY <2>1 DEF LimitsReached
<1>3. CASE ~(m.deliveries >= DeliveryLimit)
  <2>1. queue' = queue \cup {Requeued(m)}  BY <1>3 DEF ReturnToQueue, Requeued
  <2>2. Requeued(m).n = n /\ Requeued(m).deliveries = m.deliveries + 1
    BY <1>1 DEF Message, Requeued
  <2>3. Requeued(m).deliveries <= faults'  BY <1>1, <2>2, LimitTypes
  <2> QED  BY <2>1, <2>2, <2>3 DEF Sound
<1> QED  BY <1>2, <1>3

LEMMA ReserveCarriesOn ==
  ASSUME Conserved, NEW w \in Worker, NEW n \in Notification, Reserve(w, n),
         Carrying(w, n), worker[w].msg.deliveries <= faults, Open(n)'
  PROVE  Sound(n)'
<1> USE DEF Conserved, TypeOK
<1>1. CASE SkipMessage(w, n)
  BY <1>1 DEF SkipMessage, MissingOrFinal, Final, Open, rowVars
<1>2. CASE DeferToWaitingRetry(w, n) \/ DeferAmbiguous(w, n)
  <2>1. HasActiveProcessingLock(n) /\ UNCHANGED <<outbox, emitted>>
    BY <1>2 DEF DeferToWaitingRetry, DeferAmbiguous, LoseMessage, storeVars
  <2>2. PICK e \in WaitingRetries(n) : TRUE
    BY <1>2, FS_EmptySet DEF DeferToWaitingRetry, DeferAmbiguous
  <2>3. e \in EventId /\ Waits(e, n)  BY <2>1, WaitingRetryWaits
  <2>4. Waits(e, n)'  BY <2>1, <2>3 DEF Waits, RowCarries
  <2> QED  BY <2>3, <2>4 DEF Sound
<1>3. CASE DeferWithNewRetry(w, n)
  BY <1>3, NewRowWaits DEF DeferWithNewRetry, AddRetry, WorkerTypeOK
<1>4. CASE DropBeforeProvider(w, n)
  BY <1>4, FinishCloses DEF DropBeforeProvider, Final
<1>5. CASE BeginAttempt(w, n)
  <2>1. /\ worker'[w].pc = "sending" /\ worker'[w].msg = worker[w].msg
        /\ worker'[w].lost = worker[w].lost /\ faults' = faults
    BY <1>5 DEF BeginAttempt, storeVars, WorkerTypeOK, WorkerState
  <2>2. Carrying(w, n)'  BY <2>1 DEF Carrying
  <2> QED  BY <2>1, <2>2 DEF Sound
<1> QED  BY <1>1, <1>2, <1>3, <1>4, <1>5 DEF Reserve

LEMMA ApplyCarriesOn ==
  ASSUME Conserved, Backoff # <<>>, NEW w \in Worker, NEW n \in Notification,
         Apply(w, n), Open(n)'
  PROVE  Sound(n)'
<1> USE DEF Conserved, TypeOK
<1>1. CASE MarkDelivered(w, n)  BY <1>1, FinishCloses DEF MarkDelivered, Final
<1>2. CASE ScheduleRetry(w, n)
  <2> DEFINE d == DelaySeconds(RowAttempts(w))
  <2>1. RowAttempts(w) \in Nat
    BY WorkerMoves DEF RowAttempts, WorkerTypeOK, WorkerState
  <2>2. d \in Nat  BY <2>1, DelayType
  <2>3. AddOutboxEvent(n, "retry", d) /\ emitted' = emitted
    BY <1>2 DEF ScheduleRetry, AddRetry
  <2> HIDE DEF d
  <2> QED  BY <2>2, <2>3, NewRowWaits
<1>3. CASE Drop(w, n)  BY <1>3, FinishCloses DEF Drop, Final
<1>4. CASE RetryUndefined(w, n)  BY <1>4 DEF RetryUndefined
<1> QED  BY <1>1, <1>2, <1>3, <1>4 DEF Apply

\* What a worker lets go of is final, waits in a row, or is back in its queue.
LEMMA WorkerCarriesOn ==
  ASSUME Conserved, Backoff # <<>>, NEW w \in Worker, NEW n \in Notification,
         WorkerStep(w) \/ WorkerFault(w) \/ ConnectionLost(w),
         Carrying(w, n), worker[w].msg.deliveries <= faults, Open(n)'
  PROVE  Sound(n)' \/ LimitsReached'
<1> USE DEF Conserved, TypeOK
<1>1. CASE GetMessage(w) \/ Ack(w)  BY <1>1 DEF GetMessage, Ack, Carrying
<1>2. ASSUME NEW k \in Notification, Reserve(w, k) PROVE Sound(n)'
  <2>1. k = n
    BY <1>2 DEF Reserve, SkipMessage, DeferToWaitingRetry, DeferWithNewRetry,
                DeferAmbiguous, DropBeforeProvider, BeginAttempt, Reserving, Carrying
  <2> QED  BY <1>2, <2>1, ReserveCarriesOn
<1>3. ASSUME NEW r \in Result, ProviderReturns(w, r) PROVE Sound(n)'
  <2>1. /\ worker'[w].pc = "applying" /\ worker'[w].msg = worker[w].msg
        /\ worker'[w].lost = worker[w].lost /\ faults' = faults
    BY <1>3 DEF ProviderReturns, storeVars, WorkerTypeOK, WorkerState
  <2>2. Carrying(w, n)'  BY <2>1 DEF Carrying
  <2> QED  BY <2>1, <2>2 DEF Sound
<1>4. ASSUME NEW k \in Notification, Apply(w, k) PROVE Sound(n)'
  <2>1. k = n
    BY <1>4 DEF Apply, MarkDelivered, ScheduleRetry, RetryUndefined,
                Drop, Applying, Carrying
  <2> QED  BY <1>4, <2>1, ApplyCarriesOn
<1>5. CASE WorkerFault(w) \/ ConnectionLost(w)
  <2>1. ReturnToQueue(worker[w].msg)
    BY <1>5 DEF WorkerFault, LoseMessage, ConnectionLost, Carrying
  <2>2. faults' = faults + 1 /\ worker[w].msg.n = n  BY <1>5, WorkCosts DEF Carrying
  <2> QED  BY <2>1, <2>2, ReturnIsPaid
<1> QED  BY <1>1, <1>2, <1>3, <1>4, <1>5 DEF WorkerStep

LEMMA WorkKeepsSound ==
  ASSUME FailuresPay, Backoff # <<>>, NEW w \in Worker, Work(w)
  PROVE  Claims' /\ AllSound'
<1> USE DEF FailuresPay
<1>0. TypeOK /\ (WorkerStep(w) \/ WorkerFault(w) \/ ConnectionLost(w))
  BY DEF Conserved, Work
<1>1. HandOver(w) /\ pub' = pub  BY WorkHandsOver DEF Work
<1>2. faults' \in Nat /\ faults' >= faults
  BY WorkCosts, LimitTypes DEF Work, Conserved
<1>3. RowsGrow  BY <1>1 DEF HandOver
<1>4. Claims'
  BY <1>1, <1>2, <1>3, InsertingKeepsClaims DEF RowsGrow, Exists, Conserved, TypeOK
<1>5. ASSUME NEW n \in Notification, Open(n)' PROVE Sound(n)' \/ LimitsReached'
  <2>1. Sound(n) \/ LimitsReached  BY <1>1, <1>5 DEF HandOver, AllSound
  <2>2. CASE LimitsReached  BY <1>2, <2>2, LimitsStay DEF Conserved
  <2>3. CASE \E e \in EventId : Waits(e, n)
    <3>1. PICK e \in EventId : Waits(e, n)  BY <2>3
    <3>2. Waits(e, n)'  BY <1>3, <3>1 DEF Waits, RowCarries, RowsGrow, Exists
    <3> QED  BY <3>2 DEF Sound
  <2>4. CASE \E m \in queue : m.n = n /\ m.deliveries <= faults
    <3>1. PICK m \in queue : m.n = n /\ m.deliveries <= faults  BY <2>4
    <3>2. m.deliveries <= faults'  BY <1>2, <3>1, LimitTypes DEF Conserved
    <3>3. \/ m \in queue'
          \/ worker'[w].pc = "received" /\ worker'[w].msg = m /\ ~worker'[w].lost
      BY <1>1 DEF HandOver
    <3> QED  BY <3>1, <3>2, <3>3 DEF Sound, Carrying
  <2>5. CASE \E v \in Worker : Carrying(v, n) /\ worker[v].msg.deliveries <= faults
    <3>1. PICK v \in Worker : Carrying(v, n) /\ worker[v].msg.deliveries <= faults
      BY <2>5
    <3>2. CASE v = w  BY <1>5, <3>1, <3>2, WorkerCarriesOn DEF Work
    <3>3. CASE v # w
      <4>1. worker'[v] = worker[v]  BY <1>1, <3>3 DEF HandOver
      <4>2. worker[v].msg.deliveries <= faults'
        BY <1>2, <3>1, LimitTypes DEF Conserved
      <4> QED  BY <3>1, <4>1, <4>2 DEF Sound, Carrying
    <3> QED  BY <3>2, <3>3
  <2> QED  BY <2>1, <2>2, <2>3, <2>4, <2>5 DEF Sound
<1> QED  BY <1>4, <1>5 DEF AllSound

-----------------------------------------------------------------------------
(* Publishers, requests and the clock. *)

\* A row that stops waiting has become a message, or was given up.
LEMMA PublisherKeepsWaiting ==
  ASSUME FailuresPay, ClaimTimeout > 0, NEW p \in Publisher,
         PublisherStep(p) \/ PublisherFault(p),
         NEW e \in EventId, NEW n \in Notification, Waits(e, n)
  PROVE  \/ Waits(e, n)'
         \/ \E m \in queue' : m.n = n /\ m.deliveries = 0
         \/ LimitsReached'
<1> USE DEF FailuresPay, Conserved, TypeOK
<1>1. CASE ClaimPending(p)
  <2>1. /\ emitted' = emitted
        /\ \/ outbox'[e] = outbox[e]
           \/ outbox'[e] = Claimed(e)
    BY <1>1, ClaimEffect
  <2> QED  BY <2>1, ClaimedRow DEF Waits, RowCarries
<1>2. CASE LoadEvent(p) \/ PublisherCrash(p)
  BY <1>2, LoadEffect, CrashEffect DEF Waits, RowCarries
<1>3. CASE PublishSucceeds(p) \/ PublishFails(p)
  <2>1. /\ outbox' = outbox
        /\ \A f \in EventId : f # pub[p].id => emitted'[f] = emitted[f]
        /\ Emit(pub[p].id) \/ UNCHANGED <<emitted, queue, dlq>>
    BY <1>3, TryEffect DEF PublishSucceeds, PublishFails
  <2>2. CASE e # pub[p].id \/ UNCHANGED <<emitted, queue, dlq>>
    BY <2>1, <2>2 DEF Waits, RowCarries
  <2>3. CASE e = pub[p].id /\ Emit(e)
    <3> DEFINE m == [n |-> outbox[e].n, event |-> e, copy |-> emitted[e] + 1,
                     deliveries |-> 0]
    <3>1. outbox[e].n = n /\ outbox[e].type # "failed"  BY DEF Waits, RowCarries
    <3>2. queue' = queue \cup {m}  BY <2>3, <3>1 DEF Emit
    <3>3. m \in queue' /\ m.n = n /\ m.deliveries = 0  BY <3>1, <3>2
    <3> QED  BY <3>3
  <2> QED  BY <2>1, <2>2, <2>3
<1>4. CASE MarkPublished(p) \/ MarkPublishFailed(p)
  <2> DEFINE i == pub[p].id
  <2>1. /\ Claims' /\ (outbox'[i].status = "published" <=> pub[p].ok)
        /\ \A f \in EventId : f # i => outbox'[f] = outbox[f]
    BY <1>4, MarkingKeepsClaims
  <2>2. pub[p].pc = "marking" /\ emitted' = emitted /\ faults' = faults
    BY <1>4, MarkEffect
  <2>3. PICK target \in {"published", "failed", "pending"} : WriteRow(p, target)
    BY <1>4, MarkEffect
  <2>4. /\ outbox'[e].n = outbox[e].n /\ outbox'[e].type = outbox[e].type
        /\ outbox'[e].status \in {outbox[e].status, target}
    <3>1. target \in OutboxStatus  BY DEF OutboxStatus
    <3> QED  BY <2>3, <3>1, WrittenRow
  <2>5. emitted[e] = 0  BY DEF Waits, RowCarries
  <2>6. outbox'[e].status # "published"
    <3>1. CASE e = i
      <4>1. ~pub[p].ok  BY <2>2, <2>5, <3>1 DEF HandsTell
      <4> QED  BY <2>1, <3>1, <4>1
    <3>2. CASE e # i  BY <2>1, <3>2 DEF Waits, RowCarries
    <3> QED  BY <3>1, <3>2
  <2>7. CASE outbox'[e].status = "failed"
    <3>1. faults' >= OutboxMaxAttempts
      BY <2>1, <2>2, <2>5, <2>7 DEF Claims, ClaimsPaid
    <3> QED  BY <3>1 DEF LimitsReached
  <2>8. CASE outbox'[e].status # "failed"
    BY <2>2, <2>4, <2>6, <2>8 DEF Waits, RowCarries
  <2> QED  BY <2>7, <2>8
<1> QED  BY <1>1, <1>2, <1>3, <1>4 DEF PublisherStep, PublisherFault

LEMMA PublishingKeepsSound ==
  ASSUME FailuresPay, ClaimTimeout > 0, NEW p \in Publisher, Publish(p)
  PROVE  Claims' /\ AllSound'
<1> USE DEF FailuresPay
<1>1. /\ PublisherStep(p) \/ PublisherFault(p)
      /\ UNCHANGED <<status, worker>>
  BY DEF Publish, rowVars
<1>2. Claims'  BY <1>1, PublishingKeepsClaims DEF Conserved, TypeOK
<1>3. queue \subseteq queue'  BY <1>1, PublisherRelays DEF Relayed
<1>4. faults' \in Nat /\ faults' >= faults
  BY <1>1, LimitTypes, ClaimEffect, LoadEffect, TryEffect, MarkEffect, CrashEffect
     DEF PublisherStep, PublisherFault, Conserved, TypeOK
<1>5. ASSUME NEW n \in Notification, Open(n)' PROVE Sound(n)' \/ LimitsReached'
  <2>1. Sound(n) \/ LimitsReached  BY <1>1, <1>5 DEF Open, AllSound
  <2>2. CASE LimitsReached  BY <1>4, <2>2, LimitsStay DEF Conserved
  <2>3. CASE \E e \in EventId : Waits(e, n)
    <3>1. \/ \E e \in EventId : Waits(e, n)'
          \/ \E m \in queue' : m.n = n /\ m.deliveries = 0
          \/ LimitsReached'
      BY <1>1, <2>3, PublisherKeepsWaiting
    <3> QED  BY <1>4, <3>1 DEF Sound
  <2>4. CASE \E m \in queue : m.n = n /\ m.deliveries <= faults
    <3>1. PICK m \in queue : m.n = n /\ m.deliveries <= faults  BY <2>4
    <3>2. m.deliveries <= faults'  BY <1>4, <3>1, LimitTypes DEF Conserved
    <3> QED  BY <1>3, <3>1, <3>2 DEF Sound
  <2>5. CASE \E v \in Worker : Carrying(v, n) /\ worker[v].msg.deliveries <= faults
    <3>1. PICK v \in Worker : Carrying(v, n) /\ worker[v].msg.deliveries <= faults
      BY <2>5
    <3>2. worker[v].msg.deliveries <= faults'
      BY <1>4, <3>1, LimitTypes DEF Conserved
    <3> QED  BY <1>1, <3>1, <3>2 DEF Sound, Carrying
  <2> QED  BY <2>1, <2>2, <2>3, <2>4, <2>5 DEF Sound
<1> QED  BY <1>2, <1>5 DEF AllSound

LEMMA CreateBatchKeepsSound ==
  ASSUME FailuresPay, NEW S \in SUBSET Notification, CreateBatch(S)
  PROVE  Claims' /\ AllSound'
<1> USE DEF FailuresPay
<1>1. /\ RowsGrow /\ UNCHANGED <<emitted, queue, dlq, faults, pub, worker>>
      /\ \A n \in Notification : status'[n] = IF n \in S THEN "queued" ELSE status[n]
      /\ \A n \in S : \E e \in EventId :
           ~Exists(e) /\ outbox'[e] = NewEvent(n, "created", 0)
  BY CreateBatchGrows
<1>2. faults' \in Nat /\ faults' >= faults  BY <1>1, LimitTypes DEF Conserved
<1>3. Claims'
  BY <1>1, <1>2, InsertingKeepsClaims DEF RowsGrow, Exists, Conserved, TypeOK
<1>4. ASSUME NEW n \in Notification, Open(n)' PROVE Sound(n)' \/ LimitsReached'
  <2>1. CASE n \in S
    <3>1. PICK e \in EventId : ~Exists(e) /\ outbox'[e] = NewEvent(n, "created", 0)
      BY <1>1, <2>1
    <3>2. emitted'[e] = 0  BY <1>1, <3>1 DEF Conserved, RowsTell
    <3>3. Waits(e, n)'  BY <3>1, <3>2 DEF Waits, RowCarries, NewEvent
    <3> QED  BY <3>3 DEF Sound
  <2>2. CASE n \notin S
    <3>1. Sound(n) \/ LimitsReached  BY <1>1, <1>4, <2>2 DEF Open, AllSound
    <3>2. \A e \in EventId : Waits(e, n) => Waits(e, n)'
      BY <1>1 DEF Waits, RowCarries, RowsGrow, Exists
    <3>3. Sound(n) => Sound(n)'  BY <1>1, <3>2 DEF Sound, Carrying
    <3>4. LimitsReached => LimitsReached'  BY <1>1 DEF LimitsReached
    <3> QED  BY <3>1, <3>3, <3>4
  <2> QED  BY <2>1, <2>2
<1> QED  BY <1>3, <1>4 DEF AllSound

LEMMA TickKeepsSound ==
  ASSUME FailuresPay, PublisherTimely, Tick PROVE Claims' /\ AllSound'
<1> USE DEF FailuresPay
<1>1. UNCHANGED <<emitted, queue, faults, pub, worker, status>>  BY DEF Tick
<1>2. Claims'
  BY <1>1, TickingKeepsClaims DEF Tick, PublisherMayTick, Conserved, TypeOK
<1>3. \A e \in EventId : /\ outbox'[e].n = outbox[e].n
                         /\ outbox'[e].type = outbox[e].type
                         /\ outbox'[e].status = outbox[e].status
  BY TickedRow DEF Tick, Conserved, TypeOK
<1>4. ASSUME NEW n \in Notification PROVE Sound(n) => Sound(n)'
  <2>1. \A e \in EventId : Waits(e, n) => Waits(e, n)'
    BY <1>1, <1>3 DEF Waits, RowCarries
  <2> QED  BY <1>1, <2>1 DEF Sound, Carrying
<1>5. AllSound'  BY <1>1, <1>4 DEF AllSound, Open, LimitsReached
<1> QED  BY <1>2, <1>5

-----------------------------------------------------------------------------
LEMMA InitPays == ASSUME ClockLead = 0, Init, Conserved PROVE FailuresPay
<1>1. Claims
  BY InitClaimed
     DEF Init, StoreInit, NoEvent, PublisherInit, IdlePublisher
<1>2. AllSound  BY DEF Init, WorkerInit, AllSound, Open
<1> QED  BY <1>1, <1>2 DEF FailuresPay

(***************************************************************************)
(* For any number of notifications, workers, publishers, rows and          *)
(* failures: what is not final is on its way, unless failures have used up *)
(* a limit.                                                                *)
(***************************************************************************)
THEOREM FailuresStrand ==
  ASSUME ClockLead = 0, PublisherTimely, ClaimTimeout > 0, Backoff # <<>>
  PROVE  Spec => []OnlyLimitsStrand
<1>1. Init /\ Conserved => FailuresPay  BY InitPays
<1>2. FailuresPay /\ Conserved' /\ [Next]_vars => FailuresPay'
  <2> SUFFICES ASSUME FailuresPay, [Next]_vars PROVE Claims' /\ AllSound'
    BY DEF FailuresPay
  <2>1. CASE \E S \in SUBSET Notification : CreateBatch(S)
    BY <2>1, CreateBatchKeepsSound
  <2>2. CASE \E p \in Publisher : Publish(p)  BY <2>2, PublishingKeepsSound
  <2>3. CASE \E w \in Worker : Work(w)  BY <2>3, WorkKeepsSound
  <2>4. CASE Tick  BY <2>4, TickKeepsSound
  <2>5. CASE UNCHANGED vars
    <3>1. Claims'
      BY <2>5 DEF FailuresPay, vars, Claims, Exclusive, HandsHold, ClaimsPaid, Trying, InHand
    <3>2. AllSound'
      BY <2>5 DEF FailuresPay, vars, AllSound, Open, Sound, Waits, RowCarries, Carrying,
                  LimitsReached
    <3> QED  BY <3>1, <3>2
  <2> QED  BY <2>1, <2>2, <2>3, <2>4, <2>5 DEF Next
<1>3. FailuresPay => OnlyLimitsStrand
  BY DEF FailuresPay, AllSound, OnlyLimitsStrand, OnItsWay, Sound, Waits, Carrying
<1> QED  BY <1>1, <1>2, <1>3, ConservedHolds, PTL DEF Spec
=============================================================================
