----------------------------- MODULE DeliveryProofs -----------------------------
(***************************************************************************)
(* Theorems about the delivery pipeline, for any number of notifications,  *)
(* publishers, workers, outbox rows and failures.                          *)
(***************************************************************************)
EXTENDS NotificationDelivery, PublisherProofs

-----------------------------------------------------------------------------
\* The backoff of any attempt is one of the configured delays.
LEMMA DelayType == ASSUME NEW a \in Nat, Backoff # <<>> PROVE DelaySeconds(a) \in Nat
<1>1. Backoff \in Seq(Nat) /\ Backoff # <<>>
  BY WorkerAssumption
<1>2. Len(Backoff) \in Nat /\ Len(Backoff) >= 1
  BY <1>1
<1> DEFINE i == IF a <= 1 THEN 1 ELSE IF a > Len(Backoff) THEN Len(Backoff) ELSE a
<1>3. i \in 1..Len(Backoff)  BY <1>2
<1>4. Backoff[i] \in Nat  BY <1>1, <1>3
<1> QED  BY <1>4 DEF DelaySeconds

-----------------------------------------------------------------------------
(* Types. *)

LEMMA InitType == Init => TypeOK
<1> SUFFICES ASSUME Init PROVE TypeOK  OBVIOUS
<1>1. NoEvent \in OutboxEvent  BY StoreAssumption DEF NoEvent, OutboxEvent, EventType
<1>2. NoMessage \in Message  BY StoreAssumption DEF NoMessage, Message
<1>3. IdlePublisher \in PublisherState
  BY StoreAssumption DEF IdlePublisher, PublisherState
<1>4. IdleWorker \in WorkerState
  BY <1>2 DEF IdleWorker, WorkerState, Status, Result
<1>5. StoreTypeOK
  BY <1>1, StoreAssumption DEF Init, StoreInit, StoreTypeOK
<1>6. PublisherTypeOK  BY <1>3 DEF Init, PublisherInit, PublisherTypeOK
<1>7. WorkerTypeOK  BY <1>4 DEF Init, WorkerInit, WorkerTypeOK
<1> QED  BY <1>5, <1>6, <1>7 DEF TypeOK

LEMMA CreateBatchType ==
  ASSUME TypeOK, NEW S \in SUBSET Notification, CreateBatch(S)
  PROVE  TypeOK'
<1> DEFINE id == CHOOSE f \in FreshEvents(S) : TRUE
<1>1. outbox' = [e \in EventId |->
                   IF \E n \in S : id[n] = e
                   THEN NewEvent(CHOOSE n \in S : id[n] = e, "created", 0)
                   ELSE outbox[e]]
  BY DEF CreateBatch
<1>2. ASSUME NEW e \in EventId, \E n \in S : id[n] = e
      PROVE  NewEvent(CHOOSE n \in S : id[n] = e, "created", 0) \in OutboxEvent
  <2>1. (CHOOSE n \in S : id[n] = e) \in Notification  BY <1>2
  <2> QED  BY <2>1 DEF NewEvent, OutboxEvent, EventType, OutboxStatus
<1>3. outbox' \in [EventId -> OutboxEvent]
  BY <1>1, <1>2 DEF TypeOK, StoreTypeOK
<1>4. StoreTypeOK'  BY <1>3 DEF CreateBatch, TypeOK, StoreTypeOK
<1>5. status' \in [Notification -> Status \cup {"absent"}]
  BY DEF CreateBatch, TypeOK, WorkerTypeOK, Status
<1>6. history' \in [Notification -> Seq(Status)]
  <2>1. <<"queued">> \in Seq(Status)  BY DEF Status
  <2> QED  BY <2>1 DEF CreateBatch, TypeOK, WorkerTypeOK
<1>7. WorkerTypeOK'
  BY <1>5, <1>6 DEF CreateBatch, TypeOK, WorkerTypeOK, ghostVars
<1>8. PublisherTypeOK'  BY DEF CreateBatch, TypeOK, PublisherTypeOK
<1> QED  BY <1>4, <1>7, <1>8 DEF TypeOK

LEMMA TickType == ASSUME TypeOK, Tick PROVE TypeOK'
<1>1. outbox' \in [EventId -> OutboxEvent]  BY TickedRow DEF Tick, TypeOK
<1>2. lock' \in [Notification -> Nat]
  BY CountDownType DEF Tick, TickLocks, TypeOK, WorkerTypeOK
<1> QED
  BY <1>1, <1>2 DEF Tick, TypeOK, StoreTypeOK, PublisherTypeOK, WorkerTypeOK, ghostVars

\* A worker that lets its message go, or is done with it.
LEMMA WorkerMoves ==
  ASSUME TypeOK, NEW w \in Worker
  PROVE  /\ worker[w] \in WorkerState /\ worker[w].msg \in Message
         /\ worker[w].msg.n \in Notification /\ IdleWorker \in WorkerState
         /\ LoseMessage(w) => worker' \in [Worker -> WorkerState]
         /\ Done(w) => worker' \in [Worker -> WorkerState]
<1>1. worker[w] \in WorkerState /\ worker[w].msg \in Message
  BY DEF TypeOK, WorkerTypeOK, WorkerState
<1>2. NoMessage \in Message  BY StoreAssumption DEF NoMessage, Message
<1>3. IdleWorker \in WorkerState  BY <1>2 DEF IdleWorker, WorkerState, Status, Result
<1>4. [IdleWorker EXCEPT !.pc = "acking", !.msg = worker[w].msg, !.lost = worker[w].lost]
        \in WorkerState
  BY <1>1, <1>3 DEF WorkerState
<1> QED
  BY <1>1, <1>3, <1>4 DEF LoseMessage, Done, TypeOK, WorkerTypeOK, Message

LEMMA FinishType ==
  ASSUME WorkerTypeOK, NEW n \in Notification, NEW s \in Final, Finish(n, s)
  PROVE  /\ status' \in [Notification -> Status \cup {"absent"}]
         /\ lock' \in [Notification -> Nat]
         /\ history' \in [Notification -> Seq(Status)]
<1>1. s \in Status  BY DEF Final, Status
<1>2. Append(history[n], s) \in Seq(Status)  BY <1>1 DEF WorkerTypeOK
<1> QED  BY <1>1, <1>2 DEF Finish, WorkerTypeOK

LEMMA ReserveType ==
  ASSUME TypeOK, NEW w \in Worker, NEW n \in Notification, Reserve(w, n)
  PROVE  StoreTypeOK' /\ WorkerTypeOK'
<1> USE DEF TypeOK
<1>0. /\ worker[w] \in WorkerState /\ worker[w].msg \in Message
      /\ LoseMessage(w) => worker' \in [Worker -> WorkerState]
      /\ Done(w) => worker' \in [Worker -> WorkerState]
  BY WorkerMoves
<1>1. CASE SkipMessage(w, n) \/ DeferToWaitingRetry(w, n)
  BY <1>0, <1>1 DEF SkipMessage, DeferToWaitingRetry, storeVars, rowVars, ghostVars,
                    StoreTypeOK, WorkerTypeOK
<1>2. CASE DeferWithNewRetry(w, n)
  <2>1. "retry" \in EventType /\ lock[n] \in Nat  BY DEF EventType, WorkerTypeOK
  <2>2. outbox' \in [EventId -> OutboxEvent]
    BY <1>2, <2>1, AddedRow DEF DeferWithNewRetry, AddRetry
  <2> QED  BY <1>0, <1>2, <2>2 DEF DeferWithNewRetry, rowVars, ghostVars, StoreTypeOK, WorkerTypeOK
<1>3. CASE DeferAmbiguous(w, n)
  <2>1. LoseMessage(w) /\ UNCHANGED <<faults, ghostVars>>  BY <1>3 DEF DeferAmbiguous
  <2>2. queue' \in SUBSET Message /\ dlq' \in SUBSET Message
    BY <1>0, <2>1, ReturnType DEF LoseMessage
  <2> QED  BY <1>0, <2>1, <2>2 DEF LoseMessage, rowVars, ghostVars, StoreTypeOK, WorkerTypeOK
<1>4. CASE DropBeforeProvider(w, n)
  <2>1. "failed" \in EventType /\ "dropped" \in Final  BY DEF EventType, Final
  <2>2. outbox' \in [EventId -> OutboxEvent]
    BY <1>4, <2>1, AddedRow DEF DropBeforeProvider, AddFailed
  <2>3. Finish(n, "dropped")  BY <1>4 DEF DropBeforeProvider
  <2> QED
    BY <1>0, <1>4, <2>1, <2>2, <2>3, FinishType
    DEF DropBeforeProvider, ghostVars, StoreTypeOK, WorkerTypeOK
<1>5. CASE BeginAttempt(w, n)
  <2>1. attempts[n] + 1 \in Nat /\ LockTTL \in Nat  BY WorkerAssumption DEF WorkerTypeOK
  <2>2. Append(history[n], "sent") \in Seq(Status)  BY DEF WorkerTypeOK, Status
  <2>3. [worker[w] EXCEPT !.pc = "sending", !.attempt = attempts[n] + 1, !.seen = "sent"]
          \in WorkerState
    BY <1>0, <2>1 DEF WorkerState, Status
  <2>4. worker' = [worker EXCEPT ![w] =
          [worker[w] EXCEPT !.pc = "sending", !.attempt = attempts[n] + 1, !.seen = "sent"]]
    BY <1>0, <1>5 DEF BeginAttempt, WorkerTypeOK, WorkerState
  <2> QED
    BY <1>5, <2>1, <2>2, <2>3, <2>4
    DEF BeginAttempt, storeVars, ghostVars, StoreTypeOK, WorkerTypeOK, Status
<1> QED  BY <1>1, <1>2, <1>3, <1>4, <1>5 DEF Reserve

LEMMA ApplyType ==
  ASSUME TypeOK, NEW w \in Worker, NEW n \in Notification, Apply(w, n)
  PROVE  StoreTypeOK' /\ WorkerTypeOK'
<1> USE DEF TypeOK
<1>0. /\ worker[w] \in WorkerState /\ worker[w].msg \in Message
      /\ LoseMessage(w) => worker' \in [Worker -> WorkerState]
      /\ Done(w) => worker' \in [Worker -> WorkerState]
  BY WorkerMoves
<1>1. CASE MarkDelivered(w, n)
  <2>1. Finish(n, "delivered") /\ "delivered" \in Final  BY <1>1 DEF MarkDelivered, Final
  <2> QED
    BY <1>0, <1>1, <2>1, FinishType
    DEF MarkDelivered, storeVars, ghostVars, StoreTypeOK, WorkerTypeOK
<1>2. CASE ScheduleRetry(w, n)
  <2> DEFINE d == DelaySeconds(RowAttempts(w))
  <2>1. RowAttempts(w) \in Nat  BY <1>0 DEF RowAttempts, WorkerTypeOK, WorkerState
  <2>2. d \in Nat  BY <1>2, <2>1, DelayType DEF ScheduleRetry
  <2>3. "retry" \in EventType  BY DEF EventType
  <2>4. AddOutboxEvent(n, "retry", d) /\ lock' = [lock EXCEPT ![n] = d]
    BY <1>2 DEF ScheduleRetry, AddRetry
  <2> HIDE DEF d
  <2>5. outbox' \in [EventId -> OutboxEvent]  BY <2>2, <2>3, <2>4, AddedRow
  <2> QED
    BY <1>0, <1>2, <2>2, <2>4, <2>5
    DEF ScheduleRetry, ghostVars, StoreTypeOK, WorkerTypeOK
<1>3. CASE Drop(w, n)
  <2>1. "failed" \in EventType /\ "dropped" \in Final  BY DEF EventType, Final
  <2>2. outbox' \in [EventId -> OutboxEvent]  BY <1>3, <2>1, AddedRow DEF Drop, AddFailed
  <2>3. Finish(n, "dropped")  BY <1>3 DEF Drop
  <2> QED
    BY <1>0, <1>3, <2>1, <2>2, <2>3, FinishType
    DEF Drop, ghostVars, StoreTypeOK, WorkerTypeOK
<1>4. CASE RetryUndefined(w, n)
  <2>1. LoseMessage(w) /\ UNCHANGED <<faults, ghostVars>>  BY <1>4 DEF RetryUndefined
  <2>2. queue' \in SUBSET Message /\ dlq' \in SUBSET Message
    BY <1>0, <2>1, ReturnType DEF LoseMessage
  <2> QED  BY <1>0, <2>1, <2>2 DEF LoseMessage, rowVars, ghostVars, StoreTypeOK, WorkerTypeOK
<1> QED  BY <1>1, <1>2, <1>3, <1>4 DEF Apply

LEMMA WorkerKeepsType ==
  ASSUME TypeOK, NEW w \in Worker, WorkerStep(w) \/ WorkerFault(w) \/ ConnectionLost(w)
  PROVE  StoreTypeOK' /\ WorkerTypeOK'
<1> USE DEF TypeOK
<1>0. /\ worker[w] \in WorkerState /\ worker[w].msg \in Message
      /\ worker[w].msg.n \in Notification /\ IdleWorker \in WorkerState
      /\ LoseMessage(w) => worker' \in [Worker -> WorkerState]
  BY WorkerMoves
<1>1. CASE GetMessage(w)
  <2>1. PICK m \in queue :
          /\ queue' = queue \ {m}
          /\ worker' = [worker EXCEPT ![w].pc = "received", ![w].msg = m,
                                    ![w].lost = FALSE]
    BY <1>1 DEF GetMessage
  <2>2. m \in Message  BY DEF StoreTypeOK
  <2>3. [worker[w] EXCEPT !.pc = "received", !.msg = m, !.lost = FALSE] \in WorkerState
    BY <1>0, <2>2 DEF WorkerState
  <2>4. worker' = [worker EXCEPT ![w] =
                      [worker[w] EXCEPT !.pc = "received", !.msg = m, !.lost = FALSE]]
    BY <1>0, <2>1 DEF WorkerTypeOK, WorkerState
  <2>5. worker' \in [Worker -> WorkerState]  BY <2>3, <2>4 DEF WorkerTypeOK
  <2> QED
    BY <1>1, <2>1, <2>5 DEF GetMessage, rowVars, ghostVars, StoreTypeOK, WorkerTypeOK
<1>2. CASE \E n \in Notification : Reserve(w, n)  BY <1>2, ReserveType
<1>3. CASE \E r \in Result : ProviderReturns(w, r)
  <2>1. PICK r \in Result : ProviderReturns(w, r)  BY <1>3
  <2> DEFINE n == worker[w].msg.n
  <2>2. called[n] \cup {worker[w].attempt} \in SUBSET Nat
    BY <1>0 DEF WorkerTypeOK, WorkerState
  <2>3. called' = [called EXCEPT ![n] = called[n] \cup {worker[w].attempt}]
    BY <2>1 DEF ProviderReturns
  <2>4. called' \in [Notification -> SUBSET Nat]  BY <1>0, <2>2, <2>3 DEF WorkerTypeOK
  <2>5. confirmed' \in [Notification -> BOOLEAN]
    <3>1. (confirmed[n] \/ r = "delivered") \in BOOLEAN  OBVIOUS
    <3>2. confirmed' = [confirmed EXCEPT ![n] = confirmed[n] \/ r = "delivered"]
      BY <2>1 DEF ProviderReturns
    <3> QED  BY <1>0, <3>1, <3>2, Zenon DEF WorkerTypeOK
  <2>6. [worker[w] EXCEPT !.pc = "applying", !.result = r] \in WorkerState
    BY <1>0 DEF WorkerState
  <2>7. worker' = [worker EXCEPT ![w] = [worker[w] EXCEPT !.pc = "applying", !.result = r]]
    BY <1>0, <2>1 DEF ProviderReturns, WorkerTypeOK, WorkerState
  <2> QED
    BY <2>1, <2>4, <2>5, <2>6, <2>7
    DEF ProviderReturns, storeVars, rowVars, StoreTypeOK, WorkerTypeOK
<1>4. CASE \E n \in Notification : Apply(w, n)  BY <1>4, ApplyType
<1>5. CASE Ack(w)
  BY <1>0, <1>5 DEF Ack, storeVars, rowVars, ghostVars, StoreTypeOK, WorkerTypeOK
<1>6. CASE WorkerFault(w)
  <2>1. LoseMessage(w) /\ Fault  BY <1>6 DEF WorkerFault
  <2>2. queue' \in SUBSET Message /\ dlq' \in SUBSET Message
    BY <1>0, <2>1, ReturnType DEF LoseMessage
  <2>3. faults' \in 0..MaxFaults  BY <2>1, FaultType DEF StoreTypeOK
  <2>4. confirmed' \in [Notification -> BOOLEAN]
    BY <1>6 DEF WorkerFault, HasConfirmation, WorkerTypeOK
  <2>5. called' \in [Notification -> SUBSET Nat]
    <3> DEFINE n == worker[w].msg.n
    <3>1. called[n] \cup {worker[w].attempt} \in SUBSET Nat
      BY <1>0 DEF WorkerTypeOK, WorkerState
    <3>2. \/ called' = [called EXCEPT ![n] = called[n] \cup {worker[w].attempt}]
          \/ called' = called
      BY <1>6 DEF WorkerFault
    <3> QED  BY <1>0, <3>1, <3>2 DEF WorkerTypeOK
  <2> QED
    BY <1>0, <2>1, <2>2, <2>3, <2>4, <2>5 DEF LoseMessage, rowVars, StoreTypeOK, WorkerTypeOK
<1>7. CASE ConnectionLost(w)
  <2>1. /\ ReturnToQueue(worker[w].msg) /\ Fault
        /\ worker' = [worker EXCEPT ![w].lost = TRUE]
        /\ UNCHANGED <<outbox, emitted, rowVars, ghostVars>>
    BY <1>7 DEF ConnectionLost
  <2>2. queue' \in SUBSET Message /\ dlq' \in SUBSET Message  BY <1>0, <2>1, ReturnType
  <2>3. faults' \in 0..MaxFaults  BY <2>1, FaultType DEF StoreTypeOK
  <2>4. [worker[w] EXCEPT !.lost = TRUE] \in WorkerState  BY <1>0 DEF WorkerState
  <2>5. worker' = [worker EXCEPT ![w] = [worker[w] EXCEPT !.lost = TRUE]]
    BY <1>0, <2>1 DEF WorkerTypeOK, WorkerState
  <2> QED
    BY <2>1, <2>2, <2>3, <2>4, <2>5 DEF rowVars, ghostVars, StoreTypeOK, WorkerTypeOK
<1> QED  BY <1>1, <1>2, <1>3, <1>4, <1>5, <1>6, <1>7 DEF WorkerStep

\* Every variable keeps its type.
THEOREM TypeCorrect == Spec => []TypeOK
<1>1. Init => TypeOK  BY InitType
<1>2. TypeOK /\ [Next]_vars => TypeOK'
  <2> SUFFICES ASSUME TypeOK, [Next]_vars PROVE TypeOK'  OBVIOUS
  <2>1. CASE \E S \in SUBSET Notification : CreateBatch(S)  BY <2>1, CreateBatchType
  <2>2. ASSUME NEW p \in Publisher, Publish(p) PROVE TypeOK'
    <3>1. StoreTypeOK' /\ PublisherTypeOK'
      BY <2>2, PublisherKeepsType DEF Publish, TypeOK
    <3>2. WorkerTypeOK'
      BY <2>2 DEF Publish, TypeOK, rowVars, ghostVars, WorkerTypeOK
    <3> QED  BY <3>1, <3>2 DEF TypeOK
  <2>3. ASSUME NEW w \in Worker, Work(w) PROVE TypeOK'
    <3>1. StoreTypeOK' /\ WorkerTypeOK'  BY <2>3, WorkerKeepsType DEF Work
    <3>2. PublisherTypeOK'  BY <2>3 DEF Work, TypeOK, PublisherTypeOK
    <3> QED  BY <3>1, <3>2 DEF TypeOK
  <2>4. CASE Tick  BY <2>4, TickType
  <2>5. CASE UNCHANGED vars
    BY <2>5 DEF vars, TypeOK, StoreTypeOK, PublisherTypeOK, WorkerTypeOK
  <2> QED  BY <2>1, <2>2, <2>3, <2>4, <2>5 DEF Next
<1> QED  BY <1>1, <1>2, PTL DEF Spec

-----------------------------------------------------------------------------
(***************************************************************************)
(* NotStranded.  By itself it is not inductive: a worker may only leave a  *)
(* notification to a waiting retry row because such a row has not been     *)
(* emitted yet, and a publisher may only mark a row because it has.  The   *)
(* former needs publishers' clocks that are not ahead of the workers'.     *)
(***************************************************************************)

\* A row that is not there, or not due, was never emitted; one that was ever
\* claimed is due, a published one was emitted.
RowsTell ==
  \A e \in EventId :
    /\ ~Exists(e) \/ outbox[e].delay > 0 => emitted[e] = 0
    /\ outbox[e].status \in {"processing", "published", "failed"} => outbox[e].delay = 0
    /\ outbox[e].status = "published" => emitted[e] > 0

\* Publishers hold rows that are due, and mark published what they emitted.
HandsTell ==
  \A p \in Publisher :
    /\ \A e \in InHand(p) : Exists(e) /\ outbox[e].delay = 0
    /\ pub[p].pc = "marking" /\ pub[p].ok => emitted[pub[p].id] > 0

Known(m) == Exists(m.event) /\ outbox[m.event].type # "failed"

\* Workers only ever see messages of rows that ask for a delivery, and apply
\* a result to a row that was not final when they reserved it.
MessagesTell ==
  /\ \A m \in queue : Known(m)
  /\ \A m \in dlq : Exists(m.event)
  /\ \A w \in Worker : worker[w].pc # "idle" => Known(worker[w].msg)
  /\ \A w \in Worker : worker[w].pc \in {"sending", "applying"} => worker[w].seen \notin Final

Conserved == ClockLead = 0 /\ TypeOK /\ RowsTell /\ HandsTell /\ MessagesTell /\ NotStranded

\* What a step does to the outbox when no publisher takes it.
RowsGrow ==
  /\ emitted' = emitted
  /\ \A e \in EventId : Exists(e) => outbox'[e] = outbox[e]
  /\ \A e \in EventId : ~Exists(e) =>
       \/ outbox'[e] = outbox[e]
       \/ outbox'[e].status = "pending" /\ outbox'[e].attempts = 0

LEMMA AddedRowGrows ==
  ASSUME StoreTypeOK, NEW n \in Notification, NEW type \in EventType,
         NEW delay \in Nat, AddOutboxEvent(n, type, delay), emitted' = emitted
  PROVE  RowsGrow /\ FreshEvent \in EventId /\ ~Exists(FreshEvent)
         /\ outbox'[FreshEvent] = NewEvent(n, type, delay)
BY AddedRow DEF RowsGrow, NewEvent

LEMMA GrowingKeeps ==
  ASSUME StoreTypeOK, RowsTell, RowsGrow
  PROVE  /\ RowsTell'
         /\ \A e \in EventId : Exists(e) => Exists(e)'
         /\ HandsTell /\ PublisherTypeOK /\ pub' = pub => HandsTell'
<1>1. RowsTell'  BY DEF RowsTell, RowsGrow, Exists
<1>2. \A e \in EventId : Exists(e) => Exists(e)'  BY DEF RowsGrow, Exists
<1>3. ASSUME HandsTell, PublisherTypeOK, pub' = pub PROVE HandsTell'
  <2> SUFFICES ASSUME NEW p \in Publisher
               PROVE  /\ \A e \in InHand(p) : Exists(e)' /\ outbox'[e].delay = 0
                      /\ pub[p].pc = "marking" /\ pub[p].ok => emitted'[pub[p].id] > 0
    BY <1>3 DEF HandsTell, InHand
  <2>1. InHand(p) \subseteq EventId  BY <1>3 DEF InHand, PublisherTypeOK, PublisherState
  <2> QED  BY <1>2, <1>3, <2>1 DEF HandsTell, RowsGrow
<1> QED  BY <1>1, <1>2, <1>3

-----------------------------------------------------------------------------
(* Workers. *)

Requeued(m) == [m EXCEPT !.deliveries = @ + 1]

Carrying(w, n) ==
  /\ worker[w].pc \in {"received", "sending", "applying"} /\ worker[w].msg.n = n
  /\ ~worker[w].lost

(***************************************************************************)
(* What any step of worker w amounts to: its messages come from the queue  *)
(* and go back there, and what it lets go of is final or carried on.       *)
(***************************************************************************)
HandOver(w) ==
  /\ RowsGrow
  /\ \A v \in Worker : v # w => worker'[v] = worker[v]
  /\ \A m \in queue' :
       m \in queue \/ (worker[w].pc # "idle" /\ m = Requeued(worker[w].msg))
  /\ dlq \subseteq dlq'
  /\ \A m \in dlq' : m \in dlq \/ (worker[w].pc # "idle" /\ m = worker[w].msg)
  /\ worker'[w].pc # "idle" =>
       \/ worker[w].pc # "idle" /\ worker'[w].msg = worker[w].msg
       \/ worker'[w].msg \in queue
  /\ worker'[w].pc \in {"sending", "applying"} => worker'[w].seen \notin Final
  /\ \A m \in queue :
       m \in queue' \/ (worker'[w].pc = "received" /\ worker'[w].msg = m /\ ~worker'[w].lost)
  /\ \A n \in Notification : Open(n)' => Open(n)
  /\ \A n \in Notification : Carrying(w, n) /\ Open(n)' => Carried(n)'

LEMMA HandOverKeepsRest ==
  ASSUME Conserved, NEW w \in Worker, HandOver(w), pub' = pub
  PROVE  RowsTell' /\ HandsTell' /\ MessagesTell'
<1> USE DEF Conserved, TypeOK
<1>1. RowsTell' /\ HandsTell'  BY GrowingKeeps DEF HandOver
<1>2. ASSUME NEW m \in Message, Known(m) PROVE Known(m)' /\ Known(Requeued(m))'
  <2>1. m.event \in EventId /\ Requeued(m).event = m.event  BY DEF Message, Requeued
  <2>2. outbox'[m.event] = outbox[m.event]  BY <1>2, <2>1 DEF HandOver, RowsGrow, Known
  <2> QED  BY <1>2, <2>1, <2>2 DEF Known, Exists
<1>3. ASSUME NEW m \in Message, Exists(m.event) PROVE Exists(m.event)'
  <2>1. m.event \in EventId  BY DEF Message
  <2> QED  BY <1>3, <2>1, GrowingKeeps DEF HandOver
<1>4. \A v \in Worker : worker[v].msg \in Message  BY DEF WorkerTypeOK, WorkerState
<1>5. queue \subseteq Message /\ dlq \subseteq Message  BY DEF StoreTypeOK
<1>6. \A m \in queue' : Known(m)'
  BY <1>2, <1>4, <1>5 DEF HandOver, MessagesTell
<1>7. \A m \in dlq' : Exists(m.event)'
  BY <1>2, <1>3, <1>4, <1>5 DEF HandOver, MessagesTell, Known
<1>8. ASSUME NEW v \in Worker, worker'[v].pc # "idle" PROVE Known(worker[v].msg)'
  <2>1. CASE v = w  BY <1>2, <1>4, <1>5, <1>8, <2>1 DEF HandOver, MessagesTell
  <2>2. CASE v # w  BY <1>2, <1>4, <1>8, <2>2 DEF HandOver, MessagesTell
  <2> QED  BY <2>1, <2>2
<1>9. \A v \in Worker :
        worker'[v].pc \in {"sending", "applying"} => worker'[v].seen \notin Final
  BY DEF HandOver, MessagesTell
<1> QED  BY <1>1, <1>6, <1>7, <1>8, <1>9 DEF MessagesTell

LEMMA HandOverKeepsCarried ==
  ASSUME Conserved, NEW w \in Worker, HandOver(w)
  PROVE  NotStranded'
<1> USE DEF Conserved, TypeOK
<1> SUFFICES ASSUME NEW n \in Notification, Open(n)' PROVE Carried(n)'
  BY DEF NotStranded
<1>1. Carried(n)  BY DEF HandOver, NotStranded
<1>2. CASE \E e \in EventId : RowCarries(e, n)
  <2>1. PICK e \in EventId : RowCarries(e, n)  BY <1>2
  <2>2. RowCarries(e, n)'  BY <2>1 DEF RowCarries, HandOver, RowsGrow, Exists
  <2> QED  BY <2>2 DEF Carried
<1>3. CASE \E m \in queue : m.n = n
  BY <1>3 DEF HandOver, Carried
<1>4. CASE \E m \in dlq : m.n = n /\ outbox[m.event].type # "failed"
  <2>1. PICK m \in dlq : m.n = n /\ outbox[m.event].type # "failed"  BY <1>4
  <2>2. m.event \in EventId  BY DEF StoreTypeOK, Message
  <2>3. outbox'[m.event] = outbox[m.event]
    BY <2>2 DEF MessagesTell, HandOver, RowsGrow
  <2> QED  BY <2>1, <2>3 DEF HandOver, Carried
<1>5. CASE \E v \in Worker : Carrying(v, n)
  <2>1. PICK v \in Worker : Carrying(v, n)  BY <1>5
  <2>2. CASE v = w  BY <2>1, <2>2 DEF HandOver
  <2>3. CASE v # w
    <3>1. worker'[v] = worker[v]  BY <2>3 DEF HandOver
    <3> QED  BY <2>1, <3>1 DEF Carrying, Carried
  <2> QED  BY <2>2, <2>3
<1> QED  BY <1>1, <1>2, <1>3, <1>4, <1>5 DEF Carried, Carrying

\* The part of HandOver that holds whenever w keeps its message, or is done
\* with it, and the queues stay as they are.
LEMMA InPlace ==
  ASSUME Conserved, NEW w \in Worker, RowsGrow, UNCHANGED <<queue, dlq>>,
         worker[w].pc # "idle",
         \A v \in Worker : v # w => worker'[v] = worker[v],
         worker'[w].msg = worker[w].msg,
         worker'[w].pc \in {"sending", "applying"} => worker'[w].seen \notin Final,
         \A n \in Notification : Open(n)' => Open(n),
         Open(worker[w].msg.n)' /\ ~worker[w].lost => Carried(worker[w].msg.n)'
  PROVE  HandOver(w)
BY DEF HandOver, Carrying

LEMMA DoneMoves ==
  ASSUME Conserved, NEW w \in Worker, Done(w)
  PROVE  /\ worker'[w].pc = "acking" /\ worker'[w].msg = worker[w].msg
         /\ \A v \in Worker : v # w => worker'[v] = worker[v]
BY DEF Conserved, TypeOK, WorkerTypeOK, Done, IdleWorker

\* The broker takes the message back, or has done so before.
LEMMA ReturningHandsOver ==
  ASSUME Conserved, NEW w \in Worker, worker[w].pc # "idle",
         UNCHANGED <<outbox, emitted, status>>,
         IF worker[w].lost THEN UNCHANGED <<queue, dlq>> ELSE ReturnToQueue(worker[w].msg),
         worker'[w].pc # "idle" => worker'[w].msg = worker[w].msg,
         worker'[w].pc \in {"sending", "applying"} => worker'[w].seen \notin Final,
         \A v \in Worker : v # w => worker'[v] = worker[v]
  PROVE  HandOver(w)
<1> USE DEF Conserved, TypeOK
<1> DEFINE m == worker[w].msg
<1>1. m \in Message /\ Requeued(m).n = m.n /\ Requeued(m).event = m.event
  BY WorkerMoves DEF Message, Requeued
<1>2. RowsGrow  BY DEF RowsGrow
<1>3. \/ queue' = queue \cup {Requeued(m)} /\ dlq' = dlq
      \/ dlq' = dlq \cup {m} /\ queue' = queue
      \/ worker[w].lost /\ UNCHANGED <<queue, dlq>>
  BY DEF ReturnToQueue, Requeued
<1>4. m.event \in EventId /\ outbox'[m.event].type # "failed"
  BY <1>1 DEF MessagesTell, Known, Message
<1>5. \A n \in Notification : Carrying(w, n) => Carried(n)'
  BY <1>1, <1>3, <1>4 DEF Carrying, Carried
<1>6. \A n \in Notification : Open(n)' => Open(n)  BY DEF Open
<1> QED  BY <1>2, <1>3, <1>5, <1>6 DEF HandOver

LEMMA LosingHandsOver ==
  ASSUME Conserved, NEW w \in Worker, worker[w].pc # "idle", LoseMessage(w)
  PROVE  HandOver(w)
<1> USE DEF Conserved, TypeOK
<1>1. /\ worker'[w].pc = "idle"
      /\ \A v \in Worker : v # w => worker'[v] = worker[v]
  BY DEF LoseMessage, WorkerTypeOK, IdleWorker
<1> QED  BY <1>1, ReturningHandsOver DEF LoseMessage, rowVars

\* A worker that goes on without its message carries nothing.
LEMMA DisconnectingHandsOver ==
  ASSUME Conserved, NEW w \in Worker, ConnectionLost(w)
  PROVE  HandOver(w)
<1> USE DEF Conserved, TypeOK
<1>1. /\ worker[w] \in WorkerState /\ worker[w].pc # "idle" /\ ~worker[w].lost
      /\ worker' = [worker EXCEPT ![w].lost = TRUE]
  BY WorkerMoves DEF ConnectionLost
<1>2. /\ worker'[w].pc = worker[w].pc /\ worker'[w].msg = worker[w].msg
      /\ worker'[w].seen = worker[w].seen
      /\ \A v \in Worker : v # w => worker'[v] = worker[v]
  BY <1>1 DEF WorkerTypeOK, WorkerState
<1>3. worker'[w].pc \in {"sending", "applying"} => worker'[w].seen \notin Final
  BY <1>2 DEF MessagesTell
<1>4. UNCHANGED <<outbox, emitted, status>> /\ ReturnToQueue(worker[w].msg)
  BY DEF ConnectionLost, rowVars
<1> QED  BY <1>1, <1>2, <1>3, <1>4, ReturningHandsOver

\* A new row of a type that asks for a delivery carries its notification.
LEMMA NewRowCarries ==
  ASSUME Conserved, NEW n \in Notification, NEW delay \in Nat,
         AddOutboxEvent(n, "retry", delay), emitted' = emitted
  PROVE  RowsGrow /\ Carried(n)'
<1> USE DEF Conserved, TypeOK
<1>1. /\ RowsGrow /\ FreshEvent \in EventId /\ ~Exists(FreshEvent)
      /\ outbox'[FreshEvent] = NewEvent(n, "retry", delay)
  BY AddedRowGrows DEF EventType
<1>2. \E e \in EventId : RowCarries(e, n)'
  BY <1>1 DEF RowsTell, RowCarries, NewEvent
<1> QED  BY <1>1, <1>2 DEF Carried

LEMMA FinishCloses ==
  ASSUME WorkerTypeOK, NEW n \in Notification, NEW s \in Final, Finish(n, s)
  PROVE  /\ ~Open(n)'
         /\ \A k \in Notification : Open(k)' => Open(k)
BY DEF Finish, WorkerTypeOK, Open, Final

LEMMA ReserveHandsOver ==
  ASSUME Conserved, NEW w \in Worker, NEW n \in Notification, Reserve(w, n)
  PROVE  HandOver(w)
<1> USE DEF Conserved, TypeOK
<1>0. worker[w].pc = "received" /\ worker[w].msg.n = n
  BY DEF Reserve, SkipMessage, DeferToWaitingRetry, DeferWithNewRetry, DeferAmbiguous,
         DropBeforeProvider, BeginAttempt, Reserving
<1>1. CASE SkipMessage(w, n)
  <2>1. Done(w) /\ UNCHANGED <<outbox, emitted, queue, dlq, status>>
    BY <1>1 DEF SkipMessage, storeVars, rowVars
  <2>2. RowsGrow /\ \A k \in Notification : Open(k)' => Open(k)
    BY <2>1 DEF RowsGrow, Open
  <2>3. ~Open(n)'  BY <1>1, <2>1 DEF SkipMessage, MissingOrFinal, Final, Open
  <2> QED  BY <1>0, <2>1, <2>2, <2>3, DoneMoves, InPlace
<1>2. CASE DeferToWaitingRetry(w, n)
  <2>1. Done(w) /\ UNCHANGED <<outbox, emitted, queue, dlq, status>>
    BY <1>2 DEF DeferToWaitingRetry, storeVars, rowVars
  <2>2. RowsGrow /\ \A k \in Notification : Open(k)' => Open(k)
    BY <2>1 DEF RowsGrow, Open
  <2>3. WaitingRetries(n) # {}
    BY <1>2, FS_EmptySet DEF DeferToWaitingRetry
  <2>4. PICK e \in EventId :
          /\ outbox[e].n = n /\ outbox[e].type = "retry"
          /\ outbox[e].status \in {"pending", "processing"}
          /\ outbox[e].delay >= lock[n]
    BY <2>3 DEF WaitingRetries
  <2>5. lock[n] > 0 /\ lock[n] \in Nat /\ outbox[e].delay \in Nat
    BY <1>2 DEF DeferToWaitingRetry, HasActiveProcessingLock, WorkerTypeOK,
                StoreTypeOK, OutboxEvent
  <2>6. RowCarries(e, n)
    BY <2>4, <2>5 DEF RowsTell, RowCarries
  <2>7. Carried(n)'  BY <2>1, <2>6 DEF RowCarries, Carried
  <2> QED  BY <1>0, <2>1, <2>2, <2>7, DoneMoves, InPlace
<1>3. CASE DeferWithNewRetry(w, n)
  <2>1. Done(w) /\ UNCHANGED <<emitted, queue, dlq, status>>
    BY <1>3 DEF DeferWithNewRetry, rowVars
  <2>2. RowsGrow /\ Carried(n)'
    BY <1>3, NewRowCarries DEF DeferWithNewRetry, AddRetry, WorkerTypeOK
  <2>3. \A k \in Notification : Open(k)' => Open(k)  BY <2>1 DEF Open
  <2> QED  BY <1>0, <2>1, <2>2, <2>3, DoneMoves, InPlace
<1>4. CASE DeferAmbiguous(w, n)
  BY <1>0, <1>4, LosingHandsOver DEF DeferAmbiguous
<1>5. CASE DropBeforeProvider(w, n)
  <2>1. Done(w) /\ UNCHANGED <<emitted, queue, dlq>> /\ Finish(n, "dropped")
    BY <1>5 DEF DropBeforeProvider
  <2>2. RowsGrow  BY <1>5, AddedRowGrows DEF DropBeforeProvider, AddFailed, EventType
  <2>3. ~Open(n)' /\ \A k \in Notification : Open(k)' => Open(k)
    BY <2>1, FinishCloses DEF Final
  <2> QED  BY <1>0, <2>1, <2>2, <2>3, DoneMoves, InPlace
<1>6. CASE BeginAttempt(w, n)
  <2>1. UNCHANGED <<outbox, emitted, queue, dlq>>  BY <1>6 DEF BeginAttempt, storeVars
  <2>2. RowsGrow  BY <2>1 DEF RowsGrow
  <2>3. /\ worker'[w].pc = "sending" /\ worker'[w].msg = worker[w].msg
        /\ worker'[w].seen = "sent" /\ worker'[w].lost = worker[w].lost
        /\ \A v \in Worker : v # w => worker'[v] = worker[v]
    BY <1>6 DEF BeginAttempt, WorkerTypeOK, WorkerState
  <2>4. \A k \in Notification : Open(k)' => Open(k)
    BY <1>6 DEF BeginAttempt, MissingOrFinal, Final, Open, WorkerTypeOK, Status
  <2>5. ~worker[w].lost => Carried(n)'  BY <1>0, <2>3 DEF Carried
  <2> QED  BY <1>0, <2>1, <2>2, <2>3, <2>4, <2>5, InPlace DEF Final
<1> QED  BY <1>1, <1>2, <1>3, <1>4, <1>5, <1>6 DEF Reserve

LEMMA ApplyHandsOver ==
  ASSUME Conserved, NEW w \in Worker, NEW n \in Notification, Apply(w, n)
  PROVE  HandOver(w)
<1> USE DEF Conserved, TypeOK
<1>0. worker[w].pc = "applying" /\ worker[w].msg.n = n /\ worker[w] \in WorkerState
  BY WorkerMoves DEF Apply, MarkDelivered, ScheduleRetry, RetryUndefined, Drop, Applying
<1>1. CASE MarkDelivered(w, n)
  <2>1. /\ Done(w) /\ UNCHANGED <<outbox, emitted, queue, dlq>>
        /\ Finish(n, "delivered")
    BY <1>1 DEF MarkDelivered, storeVars
  <2>2. RowsGrow  BY <2>1 DEF RowsGrow
  <2>3. ~Open(n)' /\ \A k \in Notification : Open(k)' => Open(k)
    BY <2>1, FinishCloses DEF Final
  <2> QED  BY <1>0, <2>1, <2>2, <2>3, DoneMoves, InPlace
<1>2. CASE ScheduleRetry(w, n)
  <2> DEFINE d == DelaySeconds(RowAttempts(w))
  <2>1. Done(w) /\ UNCHANGED <<emitted, queue, dlq, status>>
    BY <1>2 DEF ScheduleRetry
  <2>2. d \in Nat
    BY <1>0, <1>2, DelayType DEF ScheduleRetry, RowAttempts, WorkerTypeOK, WorkerState
  <2>3. AddOutboxEvent(n, "retry", d)  BY <1>2 DEF ScheduleRetry, AddRetry
  <2> HIDE DEF d
  <2>4. RowsGrow /\ Carried(n)'  BY <2>1, <2>2, <2>3, NewRowCarries
  <2>5. \A k \in Notification : Open(k)' => Open(k)  BY <2>1 DEF Open
  <2> QED  BY <1>0, <2>1, <2>4, <2>5, DoneMoves, InPlace
<1>3. CASE Drop(w, n)
  <2>1. Done(w) /\ UNCHANGED <<emitted, queue, dlq>> /\ Finish(n, "dropped")
    BY <1>3 DEF Drop
  <2>2. RowsGrow  BY <1>3, AddedRowGrows DEF Drop, AddFailed, EventType
  <2>3. ~Open(n)' /\ \A k \in Notification : Open(k)' => Open(k)
    BY <2>1, FinishCloses DEF Final
  <2> QED  BY <1>0, <2>1, <2>2, <2>3, DoneMoves, InPlace
<1>4. CASE RetryUndefined(w, n)  BY <1>0, <1>4, LosingHandsOver DEF RetryUndefined
<1> QED  BY <1>1, <1>2, <1>3, <1>4 DEF Apply

LEMMA WorkHandsOver ==
  ASSUME Conserved, NEW w \in Worker, WorkerStep(w) \/ WorkerFault(w) \/ ConnectionLost(w)
  PROVE  HandOver(w)
<1> USE DEF Conserved, TypeOK
<1>0. worker[w] \in WorkerState  BY WorkerMoves
<1>1. CASE GetMessage(w)
  <2>1. PICK m \in queue :
          /\ queue' = queue \ {m}
          /\ worker' = [worker EXCEPT ![w].pc = "received", ![w].msg = m,
                                    ![w].lost = FALSE]
    BY <1>1 DEF GetMessage
  <2>2. worker[w].pc = "idle" /\ UNCHANGED <<outbox, emitted, dlq, status>>
    BY <1>1 DEF GetMessage, rowVars
  <2>3. /\ worker'[w].pc = "received" /\ worker'[w].msg = m /\ ~worker'[w].lost
        /\ \A v \in Worker : v # w => worker'[v] = worker[v]
    BY <1>0, <2>1 DEF WorkerTypeOK, WorkerState
  <2>4. RowsGrow /\ \A k \in Notification : Open(k)' => Open(k)
    BY <2>2 DEF RowsGrow, Open
  <2> QED  BY <2>1, <2>2, <2>3, <2>4 DEF HandOver, Carrying
<1>2. CASE \E n \in Notification : Reserve(w, n)  BY <1>2, ReserveHandsOver
<1>3. CASE \E r \in Result : ProviderReturns(w, r)
  <2>1. PICK r \in Result : ProviderReturns(w, r)  BY <1>3
  <2>2. /\ worker[w].pc = "sending"
        /\ UNCHANGED <<outbox, emitted, queue, dlq, status>>
    BY <2>1 DEF ProviderReturns, storeVars, rowVars
  <2>3. /\ worker'[w].pc = "applying" /\ worker'[w].msg = worker[w].msg
        /\ worker'[w].seen = worker[w].seen /\ worker'[w].lost = worker[w].lost
        /\ \A v \in Worker : v # w => worker'[v] = worker[v]
    BY <1>0, <2>1 DEF ProviderReturns, WorkerTypeOK, WorkerState
  <2>4. RowsGrow /\ \A k \in Notification : Open(k)' => Open(k)
    BY <2>2 DEF RowsGrow, Open
  <2>5. worker[w].seen \notin Final  BY <2>2 DEF MessagesTell
  <2>6. ~worker[w].lost => Carried(worker[w].msg.n)'  BY <2>3 DEF Carried
  <2> QED  BY <2>2, <2>3, <2>4, <2>5, <2>6, InPlace
<1>4. CASE \E n \in Notification : Apply(w, n)  BY <1>4, ApplyHandsOver
<1>5. CASE Ack(w)
  <2>1. worker[w].pc = "acking" /\ UNCHANGED <<outbox, emitted, queue, dlq, status>>
    BY <1>5 DEF Ack, storeVars, rowVars
  <2>2. worker'[w].pc = "idle" /\ \A v \in Worker : v # w => worker'[v] = worker[v]
    BY <1>5 DEF Ack, WorkerTypeOK, IdleWorker
  <2>3. RowsGrow /\ \A k \in Notification : Open(k)' => Open(k)
    BY <2>1 DEF RowsGrow, Open
  <2> QED  BY <2>1, <2>2, <2>3 DEF HandOver, Carrying
<1>6. CASE WorkerFault(w)  BY <1>6, LosingHandsOver DEF WorkerFault
<1>7. CASE ConnectionLost(w)  BY <1>7, DisconnectingHandsOver
<1> QED  BY <1>1, <1>2, <1>3, <1>4, <1>5, <1>6, <1>7 DEF WorkerStep

-----------------------------------------------------------------------------
(* Publishers, requests and the clock. *)

\* What a publisher's step does: no row and no message goes away, no row
\* changes its notification or type, and what is no longer waiting to be
\* emitted is a message.
Relayed ==
  /\ \A e \in EventId :
       /\ outbox'[e].n = outbox[e].n /\ outbox'[e].type = outbox[e].type
       /\ Exists(e) => Exists(e)'
       /\ emitted'[e] >= emitted[e]
       /\ RowCarries(e, outbox[e].n) =>
            RowCarries(e, outbox[e].n)' \/ \E m \in queue' : m.n = outbox[e].n
  /\ queue \subseteq queue' /\ dlq \subseteq dlq'
  /\ UNCHANGED <<status, worker>>

LEMMA RelayedKeepsCarried ==
  ASSUME Conserved, Relayed
  PROVE  NotStranded'
<1> USE DEF Conserved, TypeOK
<1> SUFFICES ASSUME NEW n \in Notification, Open(n)' PROVE Carried(n)'
  BY DEF NotStranded
<1>1. Carried(n)  BY DEF Relayed, NotStranded, Open
<1>2. CASE \E e \in EventId : RowCarries(e, n)
  <2>1. PICK e \in EventId : RowCarries(e, n)  BY <1>2
  <2>2. outbox[e].n = n  BY <2>1 DEF RowCarries
  <2> QED  BY <2>1, <2>2 DEF Relayed, Carried
<1>3. CASE \E m \in queue : m.n = n  BY <1>3 DEF Relayed, Carried
<1>4. CASE \E m \in dlq : m.n = n /\ outbox[m.event].type # "failed"
  BY <1>4 DEF Relayed, Carried, StoreTypeOK, Message
<1>5. CASE \E v \in Worker : Carrying(v, n)
  BY <1>5 DEF Relayed, Carrying, Carried
<1> QED  BY <1>1, <1>2, <1>3, <1>4, <1>5 DEF Carried, Carrying

LEMMA RelayedKeepsMessages ==
  ASSUME Conserved, Relayed,
         \A m \in queue' : m \in queue \/ Known(m)',
         \A m \in dlq' : m \in dlq \/ Exists(m.event)'
  PROVE  MessagesTell'
<1> USE DEF Conserved, TypeOK
<1>1. \A m \in Message : Exists(m.event) => Exists(m.event)'
  BY DEF Relayed, Message
<1>2. \A m \in Message : Known(m) => Known(m)'
  BY <1>1 DEF Relayed, Known, Message
<1>3. \A w \in Worker : worker[w].msg \in Message  BY WorkerMoves
<1>4. \A m \in queue' : Known(m)'  BY <1>2 DEF MessagesTell, StoreTypeOK
<1>5. \A m \in dlq' : Exists(m.event)'  BY <1>1 DEF MessagesTell, StoreTypeOK
<1>6. \A w \in Worker : worker'[w].pc # "idle" => Known(worker[w].msg)'
  BY <1>2, <1>3 DEF MessagesTell, Relayed
<1>7. \A w \in Worker :
        worker'[w].pc \in {"sending", "applying"} => worker'[w].seen \notin Final
  BY DEF MessagesTell, Relayed
<1> QED  BY <1>4, <1>5, <1>6, <1>7 DEF MessagesTell

\* The effect of accepting a message for a row that exists and is due.
LEMMA EmittingRelays ==
  ASSUME Conserved, NEW e \in EventId, Exists(e), outbox[e].delay = 0, Emit(e),
         UNCHANGED <<outbox, status, worker>>
  PROVE  /\ Relayed /\ RowsTell' /\ MessagesTell'
         /\ emitted'[e] > 0
<1> USE DEF Conserved, TypeOK
<1> DEFINE m == [n |-> outbox[e].n, event |-> e, copy |-> emitted[e] + 1, deliveries |-> 0]
<1>1. emitted[e] \in Nat /\ emitted' = [emitted EXCEPT ![e] = emitted[e] + 1]
  BY DEF Emit, StoreTypeOK
<1>2. /\ \A f \in EventId : emitted'[f] = IF f = e THEN emitted[e] + 1 ELSE emitted[f]
      /\ \A f \in EventId : emitted[f] \in Nat
  BY <1>1 DEF StoreTypeOK
<1>3. \/ outbox[e].type = "failed" /\ dlq' = dlq \cup {m} /\ queue' = queue
      \/ outbox[e].type # "failed" /\ queue' = queue \cup {m} /\ dlq' = dlq
  BY DEF Emit
<1>4. RowsTell'  BY <1>2 DEF RowsTell, Exists
<1>5. Relayed
  <2>1. ASSUME NEW f \in EventId, RowCarries(f, outbox[f].n)
        PROVE  RowCarries(f, outbox[f].n)' \/ \E k \in queue' : k.n = outbox[f].n
    <3>1. CASE f = e
      <4>1. m.n = outbox[f].n /\ m \in queue'
        BY <1>3, <2>1, <3>1 DEF RowCarries
      <4> QED  BY <4>1
    <3>2. CASE f # e
      <4>1. emitted'[f] = emitted[f] /\ outbox' = outbox  BY <1>2, <3>2
      <4> QED  BY <2>1, <4>1 DEF RowCarries
    <3> QED  BY <3>1, <3>2
  <2>2. \A f \in EventId : emitted'[f] >= emitted[f]  BY <1>2
  <2> QED  BY <1>3, <2>1, <2>2 DEF Relayed, Exists
<1>6. \A k \in queue' : k \in queue \/ Known(k)'
  BY <1>3 DEF Known, Exists
<1>7. \A k \in dlq' : k \in dlq \/ Exists(k.event)'
  BY <1>3 DEF Exists
<1> QED  BY <1>1, <1>2, <1>4, <1>5, <1>6, <1>7, RelayedKeepsMessages

LEMMA PublisherRelays ==
  ASSUME Conserved, NEW p \in Publisher, PublisherStep(p) \/ PublisherFault(p),
         UNCHANGED <<status, worker>>
  PROVE  Relayed /\ RowsTell' /\ HandsTell' /\ MessagesTell'
<1> USE DEF Conserved, TypeOK
<1>0. /\ pub[p] \in PublisherState /\ pub[p].id \in EventId
      /\ \A q \in Publisher : InHand(q) \subseteq EventId
  BY DEF PublisherTypeOK, PublisherState, InHand
<1>1. CASE ClaimPending(p)
  <2>1. PICK B \in SUBSET Claimable :
          /\ outbox' = [e \in EventId |-> IF e \in B THEN Claimed(e) ELSE outbox[e]]
          /\ pub' = [pub EXCEPT ![p].pc = "batch", ![p].batch = B]
    BY <1>1 DEF ClaimPending
  <2>2. pub[p].pc = "idle" /\ UNCHANGED <<emitted, queue, dlq>>
    BY <1>1 DEF ClaimPending
  <2>3. \A e \in B : /\ e \in EventId /\ Exists(e) /\ outbox[e].delay = 0
                     /\ outbox[e].status \in {"pending", "processing"}
    BY DEF Claimable, Exists, RowsTell, StoreTypeOK, OutboxEvent
  <2>4. \A e \in EventId :
          /\ outbox'[e].n = outbox[e].n /\ outbox'[e].type = outbox[e].type
          /\ outbox'[e].delay = outbox[e].delay
          /\ outbox'[e].status = IF e \in B THEN "processing" ELSE outbox[e].status
    BY <2>1, ClaimedRow
  <2>5. \A e \in EventId : emitted[e] >= emitted[e]  BY DEF StoreTypeOK
  <2>6. Relayed
    BY <2>2, <2>3, <2>4, <2>5 DEF Relayed, RowCarries, Exists
  <2>7. RowsTell'  BY <2>2, <2>3, <2>4 DEF RowsTell, Exists
  <2>8. /\ pub'[p].pc = "batch" /\ pub'[p].batch = B
        /\ \A q \in Publisher : q # p => pub'[q] = pub[q]
    BY <1>0, <2>1 DEF PublisherTypeOK, PublisherState
  <2>9. InHand(p)' = B /\ \A q \in Publisher : q # p => InHand(q)' = InHand(q)
    BY <2>8 DEF InHand
  <2>10. HandsTell'
    BY <1>0, <2>2, <2>3, <2>4, <2>8, <2>9 DEF HandsTell, Exists
  <2> QED  BY <2>2, <2>6, <2>7, <2>10, RelayedKeepsMessages
<1>2. CASE LoadEvent(p)
  <2>1. PICK i \in FirstOf(pub[p].batch) :
          pub' = [pub EXCEPT ![p] =
                    [pc |-> "publishing", batch |-> pub[p].batch \ {i}, id |-> i,
                     status |-> outbox[i].status, attempts |-> outbox[i].attempts,
                     locked |-> outbox[i].locked, ok |-> FALSE]]
    BY <1>2 DEF LoadEvent
  <2>2. UNCHANGED <<outbox, emitted, queue, dlq>>  BY <1>2 DEF LoadEvent, storeVars
  <2>3. /\ pub'[p].pc = "publishing" /\ InHand(p)' \subseteq InHand(p)
        /\ \A q \in Publisher : q # p => pub'[q] = pub[q] /\ InHand(q)' = InHand(q)
    BY <2>1 DEF PublisherTypeOK, InHand, FirstOf
  <2>4. \A e \in EventId : emitted[e] >= emitted[e]  BY DEF StoreTypeOK
  <2>5. Relayed /\ RowsTell'  BY <2>2, <2>4 DEF Relayed, RowsTell, Exists, RowCarries
  <2>6. HandsTell'  BY <2>2, <2>3 DEF HandsTell, Exists
  <2> QED  BY <2>2, <2>5, <2>6, RelayedKeepsMessages
<1>3. CASE PublishSucceeds(p) \/ PublishFails(p)
  <2>1. /\ pub[p].pc = "publishing" /\ UNCHANGED outbox
        /\ \/ Emit(pub[p].id)
           \/ PublishFails(p) /\ UNCHANGED <<emitted, queue, dlq>>
    BY <1>3 DEF PublishSucceeds, PublishFails
  <2>2. Exists(pub[p].id) /\ outbox[pub[p].id].delay = 0
    BY <2>1 DEF HandsTell, InHand
  <2>3. /\ pub'[p].pc = "marking" /\ pub'[p].id = pub[p].id
        /\ InHand(p)' = InHand(p)
        /\ PublishFails(p) => ~pub'[p].ok
        /\ \A q \in Publisher : q # p => pub'[q] = pub[q] /\ InHand(q)' = InHand(q)
    BY <1>0, <1>3 DEF PublishSucceeds, PublishFails, PublisherTypeOK, PublisherState, InHand
  <2>4. \A e \in EventId : emitted[e] \in Nat  BY DEF StoreTypeOK
  <2>5. /\ Relayed /\ RowsTell' /\ MessagesTell'
        /\ emitted'[pub[p].id] > 0 \/ PublishFails(p)
    <3>1. CASE Emit(pub[p].id)  BY <1>0, <2>1, <2>2, <3>1, EmittingRelays
    <3>2. CASE PublishFails(p) /\ UNCHANGED <<emitted, queue, dlq>>
      <4>1. Relayed /\ RowsTell'
        BY <2>1, <2>4, <3>2 DEF Relayed, RowsTell, Exists, RowCarries
      <4> QED  BY <3>2, <4>1, RelayedKeepsMessages
    <3> QED  BY <2>1, <3>1, <3>2
  <2>6. HandsTell'
    <3>1. \A e \in EventId : emitted[e] > 0 => emitted'[e] > 0
      <4>1. \A e \in EventId : emitted'[e] \in Nat
        BY PublisherKeepsType DEF StoreTypeOK
      <4> QED  BY <2>4, <2>5, <4>1 DEF Relayed
    <3>2. \A q \in Publisher : pub[q].id \in EventId
      BY DEF PublisherTypeOK, PublisherState
    <3> QED  BY <1>0, <2>1, <2>3, <2>5, <3>1, <3>2 DEF HandsTell, Exists
  <2> QED  BY <2>5, <2>6
<1>4. CASE MarkPublished(p) \/ MarkPublishFailed(p)
  <2>1. PICK target \in OutboxStatus :
          /\ WriteRow(p, target)
          /\ target # "processing"
          /\ target = "published" => pub[p].ok
    BY <1>4 DEF MarkPublished, MarkPublishFailed, OutboxStatus
  <2>2. /\ pub[p].pc = "marking" /\ NextInBatch(p)
        /\ UNCHANGED <<emitted, queue, dlq>>
    BY <1>4 DEF MarkPublished, MarkPublishFailed
  <2> DEFINE i == pub[p].id
  <2>3. Exists(i) /\ outbox[i].delay = 0 /\ (pub[p].ok => emitted[i] > 0)
    BY <2>2 DEF HandsTell, InHand
  <2>4. \A e \in EventId :
          /\ outbox'[e].n = outbox[e].n /\ outbox'[e].type = outbox[e].type
          /\ outbox'[e].delay = outbox[e].delay
          /\ outbox'[e].status \in {outbox[e].status, target}
          /\ e # i => outbox'[e] = outbox[e]
    BY <2>1, WrittenRow
  <2>5. \A e \in EventId : emitted[e] \in Nat  BY DEF StoreTypeOK
  <2>6. target \in {"pending", "published", "failed"}  BY <2>1 DEF OutboxStatus
  <2>7. \A e \in EventId : Exists(e) <=> Exists(e)'
    BY <2>3, <2>4, <2>6 DEF Exists
  <2>8. Relayed
    <3>1. ASSUME NEW e \in EventId, RowCarries(e, outbox[e].n)
          PROVE  RowCarries(e, outbox[e].n)'
      BY <2>1, <2>2, <2>3, <2>4, <2>6, <3>1 DEF RowCarries
    <3> QED  BY <2>2, <2>4, <2>5, <2>7, <3>1 DEF Relayed
  <2>9. RowsTell'
    BY <2>1, <2>2, <2>3, <2>4, <2>7 DEF RowsTell
  <2>10. /\ pub'[p].pc # "marking" /\ InHand(p)' \subseteq InHand(p)
         /\ \A q \in Publisher : q # p => pub'[q] = pub[q] /\ InHand(q)' = InHand(q)
    BY <1>0, <2>2 DEF NextInBatch, IdlePublisher, PublisherTypeOK, PublisherState, InHand
  <2>11. HandsTell'  BY <1>0, <2>2, <2>4, <2>7, <2>10 DEF HandsTell
  <2> QED  BY <2>2, <2>8, <2>9, <2>11, RelayedKeepsMessages
<1>5. CASE PublisherCrash(p)
  <2>1. UNCHANGED <<outbox, emitted, queue, dlq>>  BY <1>5 DEF PublisherCrash
  <2>2. /\ pub'[p].pc = "idle" /\ InHand(p)' = {}
        /\ \A q \in Publisher : q # p => pub'[q] = pub[q] /\ InHand(q)' = InHand(q)
    BY <1>5 DEF PublisherCrash, PublisherTypeOK, IdlePublisher, InHand
  <2>3. \A e \in EventId : emitted[e] >= emitted[e]  BY DEF StoreTypeOK
  <2>4. Relayed /\ RowsTell'  BY <2>1, <2>3 DEF Relayed, RowsTell, Exists, RowCarries
  <2>5. HandsTell'  BY <2>1, <2>2 DEF HandsTell, Exists
  <2> QED  BY <2>1, <2>4, <2>5, RelayedKeepsMessages
<1> QED  BY <1>1, <1>2, <1>3, <1>4, <1>5 DEF PublisherStep, PublisherFault

\* Every notification of a request gets a row of its own.
LEMMA CreateBatchGrows ==
  ASSUME NEW S \in SUBSET Notification, CreateBatch(S)
  PROVE  /\ RowsGrow
         /\ UNCHANGED <<emitted, queue, dlq, faults, pub, worker>>
         /\ \A n \in Notification : status'[n] = IF n \in S THEN "queued" ELSE status[n]
         /\ \A n \in S : \E e \in EventId :
              ~Exists(e) /\ outbox'[e] = NewEvent(n, "created", 0)
<1> DEFINE id == CHOOSE f \in FreshEvents(S) : TRUE
<1>1. /\ id \in [S -> EventId] /\ \A n \in S : ~Exists(id[n])
      /\ \A m, n \in S : id[m] = id[n] => m = n
  <2>1. id \in FreshEvents(S)  BY DEF CreateBatch
  <2>2. id \in [S -> {e \in EventId : ~Exists(e)}]
        /\ \A m, n \in S : id[m] = id[n] => m = n
    BY <2>1 DEF FreshEvents
  <2> HIDE DEF id
  <2> QED  BY <2>2
<1>2. outbox' = [e \in EventId |->
                   IF \E n \in S : id[n] = e
                   THEN NewEvent(CHOOSE n \in S : id[n] = e, "created", 0)
                   ELSE outbox[e]]
  BY DEF CreateBatch
<1>3. UNCHANGED <<emitted, queue, dlq, faults, pub, worker>>  BY DEF CreateBatch
<1>4. \A n \in Notification : status'[n] = IF n \in S THEN "queued" ELSE status[n]
  BY DEF CreateBatch
<1> HIDE DEF id
<1>5. ASSUME NEW n \in S PROVE ~Exists(id[n]) /\ outbox'[id[n]] = NewEvent(n, "created", 0)
  <2>1. id[n] \in EventId /\ \E k \in S : id[k] = id[n]  BY <1>1
  <2>2. (CHOOSE k \in S : id[k] = id[n]) = n  BY <1>1
  <2> QED  BY <1>1, <1>2, <2>1, <2>2
<1>6. RowsGrow
  <2>1. \A e \in EventId : Exists(e) => outbox'[e] = outbox[e]  BY <1>1, <1>2
  <2>2. \A e \in EventId : \/ outbox'[e] = outbox[e]
                           \/ outbox'[e].status = "pending" /\ outbox'[e].attempts = 0
    BY <1>2 DEF NewEvent
  <2> QED  BY <1>3, <2>1, <2>2 DEF RowsGrow
<1> QED  BY <1>1, <1>3, <1>4, <1>5, <1>6

LEMMA CreateBatchKeeps ==
  ASSUME Conserved, NEW S \in SUBSET Notification, CreateBatch(S)
  PROVE  RowsTell' /\ HandsTell' /\ MessagesTell' /\ NotStranded'
<1> USE DEF Conserved, TypeOK
<1>1. /\ RowsGrow /\ UNCHANGED <<emitted, queue, dlq, pub, worker>>
      /\ \A n \in Notification : status'[n] = IF n \in S THEN "queued" ELSE status[n]
      /\ \A n \in S : \E e \in EventId :
           ~Exists(e) /\ outbox'[e] = NewEvent(n, "created", 0)
  BY CreateBatchGrows
<1>2. RowsTell' /\ HandsTell'  BY <1>1, GrowingKeeps
<1>3. \A m \in Message : Exists(m.event) => /\ Exists(m.event)'
                                            /\ outbox'[m.event] = outbox[m.event]
  BY <1>1, GrowingKeeps DEF Message, RowsGrow
<1>4. queue \subseteq Message /\ dlq \subseteq Message
      /\ \A w \in Worker : worker[w].msg \in Message
  BY WorkerMoves DEF StoreTypeOK
<1>5. MessagesTell'  BY <1>1, <1>3, <1>4 DEF MessagesTell, Known
<1>6. ASSUME NEW n \in Notification, Open(n)' PROVE Carried(n)'
  <2>1. CASE n \in S
    <3>1. PICK e \in EventId : ~Exists(e) /\ outbox'[e] = NewEvent(n, "created", 0)
      BY <1>1, <2>1
    <3>2. emitted'[e] = 0  BY <1>1, <3>1 DEF RowsTell
    <3> QED  BY <3>1, <3>2 DEF RowCarries, NewEvent, Carried
  <2>2. CASE n \notin S
    <3>1. Carried(n)  BY <1>1, <1>6, <2>2 DEF Open, NotStranded
    <3>2. \A e \in EventId : RowCarries(e, n) => RowCarries(e, n)'
      BY <1>1 DEF RowCarries, RowsGrow, Exists
    <3>3. \A m \in dlq : outbox'[m.event] = outbox[m.event]
      BY <1>3, <1>4 DEF MessagesTell
    <3> QED  BY <1>1, <3>1, <3>2, <3>3 DEF Carried
  <2> QED  BY <2>1, <2>2
<1>7. NotStranded'  BY <1>6 DEF NotStranded
<1> QED  BY <1>2, <1>5, <1>7

LEMMA TickKeeps ==
  ASSUME Conserved, Tick
  PROVE  RowsTell' /\ HandsTell' /\ MessagesTell' /\ NotStranded'
<1> USE DEF Conserved, TypeOK
<1>1. UNCHANGED <<emitted, queue, dlq, pub, worker, status>>  BY DEF Tick
<1>2. \A e \in EventId : outbox[e].delay \in Nat  BY DEF StoreTypeOK, OutboxEvent
<1>3. \A e \in EventId :
        /\ outbox'[e].n = outbox[e].n /\ outbox'[e].type = outbox[e].type
        /\ outbox'[e].status = outbox[e].status
        /\ outbox[e].delay = 0 => outbox'[e].delay = 0
        /\ outbox'[e].delay > 0 => outbox[e].delay > 0
  <2>1. StoreTypeOK /\ TickOutbox  BY DEF Tick
  <2> QED  BY <1>2, <2>1, TickedRow DEF CountDown
<1>4. RowsTell'  BY <1>1, <1>3 DEF RowsTell, Exists
<1>5. \A p \in Publisher : pub[p].id \in EventId /\ InHand(p) \subseteq EventId
  BY DEF PublisherTypeOK, PublisherState, InHand
<1>6. HandsTell'  BY <1>1, <1>3, <1>5 DEF HandsTell, Exists, InHand
<1>7. queue \subseteq Message /\ dlq \subseteq Message
      /\ \A w \in Worker : worker[w].msg \in Message
  BY WorkerMoves DEF StoreTypeOK
<1>8. \A m \in Message : m.event \in EventId  BY DEF Message
<1>9. MessagesTell'  BY <1>1, <1>3, <1>7, <1>8 DEF MessagesTell, Known, Exists
<1>10. ASSUME NEW n \in Notification, Open(n)' PROVE Carried(n)'
  <2>1. Carried(n)  BY <1>1, <1>10 DEF Open, NotStranded
  <2>2. \A e \in EventId : RowCarries(e, n) => RowCarries(e, n)'
    BY <1>1, <1>3 DEF RowCarries
  <2>3. \A m \in dlq : outbox'[m.event].type = outbox[m.event].type
    BY <1>3, <1>7, <1>8
  <2> QED  BY <1>1, <2>1, <2>2, <2>3 DEF Carried
<1>11. NotStranded'  BY <1>10 DEF NotStranded
<1> QED  BY <1>4, <1>6, <1>9, <1>11

LEMMA ConservedHolds == ASSUME ClockLead = 0 PROVE Spec => []Conserved
<1>1. Init => Conserved
  <2> SUFFICES ASSUME Init PROVE Conserved  OBVIOUS
  <2>1. TypeOK  BY InitType
  <2>2. RowsTell
    BY DEF Init, StoreInit, RowsTell, Exists, NoEvent
  <2>3. HandsTell
    BY DEF Init, PublisherInit, HandsTell, InHand, IdlePublisher
  <2>4. MessagesTell
    BY DEF Init, StoreInit, WorkerInit, MessagesTell, IdleWorker
  <2>5. NotStranded  BY DEF Init, WorkerInit, NotStranded, Open
  <2> QED  BY <2>1, <2>2, <2>3, <2>4, <2>5 DEF Conserved
<1>2. TypeOK' /\ Conserved /\ [Next]_vars => Conserved'
  <2> SUFFICES ASSUME TypeOK', Conserved, [Next]_vars PROVE Conserved'  OBVIOUS
  <2>1. CASE \E S \in SUBSET Notification : CreateBatch(S)
    BY <2>1, CreateBatchKeeps DEF Conserved
  <2>2. ASSUME NEW p \in Publisher, Publish(p) PROVE Conserved'
    BY <2>2, PublisherRelays, RelayedKeepsCarried DEF Publish, rowVars, Conserved
  <2>3. ASSUME NEW w \in Worker, Work(w) PROVE Conserved'
    BY <2>3, WorkHandsOver, HandOverKeepsRest, HandOverKeepsCarried DEF Work, Conserved
  <2>4. CASE Tick  BY <2>4, TickKeeps DEF Conserved
  <2>5. CASE UNCHANGED vars
    <3>1. NotStranded'
      BY <2>5 DEF vars, Conserved, NotStranded, Open, Carried, RowCarries
    <3> QED
      BY <2>5, <3>1 DEF vars, Conserved, RowsTell, HandsTell, MessagesTell, Exists,
                        InHand, Known
  <2> QED  BY <2>1, <2>2, <2>3, <2>4, <2>5 DEF Next
<1> QED  BY <1>1, <1>2, TypeCorrect, PTL DEF Spec

(***************************************************************************)
(* No notification that is not final is ever lost, for any number of       *)
(* workers, publishers, failures and ticks, however slow a publisher or a  *)
(* provider may be, unless the publishers' clocks are ahead.               *)
(***************************************************************************)
THEOREM NothingStranded == ASSUME ClockLead = 0 PROVE Spec => []NotStranded
<1>1. Conserved => NotStranded  BY DEF Conserved
<1> QED  BY <1>1, ConservedHolds, PTL
=============================================================================
