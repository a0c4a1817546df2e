----------------------------- MODULE AttemptProofs -----------------------------
(***************************************************************************)
(* Proofs about messages that are delivered again, for any number of       *)
(* workers, duplicates, failures and ticks: an attempt number stands for   *)
(* one provider call at most; and a message that finds the lock taken is   *)
(* never rejected, if every backoff is longer than the lock of an attempt. *)
(***************************************************************************)
EXTENDS LifecycleProofs

(***************************************************************************)
(* OneCallPerAttempt bounds attempt numbers by max_retries; what keeps     *)
(* them apart is the counter in the row, which runs ahead of every number  *)
(* handed out.                                                             *)
(***************************************************************************)
Sending(w, n) == worker[w].pc = "sending" /\ worker[w].msg.n = n

CallsCounted ==
  \A n \in Notification :
    /\ attempts[n] <= MaxRetries
    /\ called[n] \subseteq 1..attempts[n]
    /\ \A w \in Worker :
         Sending(w, n) => worker[w].attempt \in (1..attempts[n]) \ called[n]
    /\ \A v, w \in Worker :
         Sending(v, n) /\ Sending(w, n) /\ worker[v].attempt = worker[w].attempt => v = w

\* A step that neither reserves an attempt nor makes a call.
Quiet ==
  /\ UNCHANGED <<attempts, called>>
  /\ \A w \in Worker : worker'[w].pc = "sending" => worker'[w] = worker[w]

LEMMA QuietKeepsCount == ASSUME CallsCounted, Quiet PROVE CallsCounted'
<1>1. \A w \in Worker, n \in Notification :
        Sending(w, n)' => Sending(w, n) /\ worker'[w] = worker[w]
  BY DEF Quiet, Sending
<1> QED  BY <1>1 DEF CallsCounted, Quiet

\* The number of a new attempt is one that nobody has had.
LEMMA BeginKeepsCount ==
  ASSUME TypeOK, CallsCounted, NEW w \in Worker, NEW n \in Notification, BeginAttempt(w, n)
  PROVE  CallsCounted'
<1> USE DEF TypeOK
<1>1. worker[w].msg.n = n /\ attempts[n] \in Nat /\ attempts[n] < MaxRetries
  <2>1. worker[w].msg.n = n /\ ~(attempts[n] >= MaxRetries)
    BY DEF BeginAttempt, Reserving, AttemptsExhausted
  <2>2. attempts[n] \in Nat /\ MaxRetries \in Nat  BY WorkerAssumption DEF WorkerTypeOK
  <2> QED  BY <2>1, <2>2
<1>2. /\ worker'[w].pc = "sending" /\ worker'[w].attempt = attempts[n] + 1
      /\ worker'[w].msg = worker[w].msg
      /\ \A v \in Worker : v # w => worker'[v] = worker[v]
  BY WorkerMoves DEF BeginAttempt, WorkerTypeOK, WorkerState
<1>3. /\ called' = called
      /\ \A k \in Notification :
           attempts'[k] = IF k = n THEN attempts[n] + 1 ELSE attempts[k]
  BY DEF BeginAttempt, ghostVars, WorkerTypeOK
<1>4. \A k \in Notification : attempts[k] \in Nat  BY DEF WorkerTypeOK
<1> SUFFICES ASSUME NEW k \in Notification
    PROVE  /\ attempts'[k] <= MaxRetries
           /\ called'[k] \subseteq 1..attempts'[k]
           /\ \A v \in Worker :
                Sending(v, k)' => worker'[v].attempt \in (1..attempts'[k]) \ called'[k]
           /\ \A u, v \in Worker :
                Sending(u, k)' /\ Sending(v, k)' /\ worker'[u].attempt = worker'[v].attempt
                => u = v
  BY DEF CallsCounted
<1>5. CASE k # n
  <2>1. \A v \in Worker : Sending(v, k)' => Sending(v, k) /\ worker'[v] = worker[v]
    BY <1>1, <1>2, <1>5 DEF Sending
  <2> QED  BY <1>3, <1>5, <2>1 DEF CallsCounted
<1>6. CASE k = n
  <2>1. attempts'[n] <= MaxRetries  BY <1>1, <1>3, WorkerAssumption
  <2>2. called'[n] \subseteq 1..attempts'[n] /\ attempts[n] + 1 \notin called'[n]
    BY <1>1, <1>3 DEF CallsCounted
  <2>3. \A v \in Worker : v # w /\ Sending(v, n)' =>
          /\ Sending(v, n) /\ worker'[v] = worker[v]
          /\ worker[v].attempt \in (1..attempts[n]) \ called[n]
    BY <1>2 DEF Sending, CallsCounted
  <2>4. \A v \in Worker :
          Sending(v, n)' => worker'[v].attempt \in (1..attempts'[n]) \ called'[n]
    BY <1>1, <1>2, <1>3, <2>2, <2>3
  <2>5. \A u, v \in Worker :
          Sending(u, n)' /\ Sending(v, n)' /\ worker'[u].attempt = worker'[v].attempt
          => u = v
    BY <1>1, <1>2, <2>3 DEF CallsCounted
  <2> QED  BY <1>6, <2>1, <2>2, <2>4, <2>5
<1> QED  BY <1>5, <1>6

\* A call that ends, by its answer or by a crash, uses its number up, and
\* nobody else holds it.
LEMMA EndOfCallKeepsCount ==
  ASSUME TypeOK, CallsCounted, NEW w \in Worker, worker[w].pc = "sending",
         worker'[w].pc # "sending", \A v \in Worker : v # w => worker'[v] = worker[v],
         attempts' = attempts,
         called' = [called EXCEPT ![worker[w].msg.n] = @ \cup {worker[w].attempt}]
  PROVE  CallsCounted'
<1> DEFINE m == worker[w].msg.n
           a == worker[w].attempt
<1>1. m \in Notification /\ Sending(w, m)
  BY WorkerMoves DEF Sending
<1>2. \A k \in Notification : called'[k] = IF k = m THEN called[k] \cup {a} ELSE called[k]
  BY DEF TypeOK, WorkerTypeOK
<1>3. \A v \in Worker, k \in Notification :
        Sending(v, k)' => v # w /\ Sending(v, k) /\ worker'[v] = worker[v]
  BY DEF Sending
<1>4. a \in 1..attempts[m]  BY <1>1 DEF CallsCounted
<1> HIDE DEF m, a
<1> SUFFICES ASSUME NEW k \in Notification
    PROVE  /\ attempts'[k] <= MaxRetries
           /\ called'[k] \subseteq 1..attempts'[k]
           /\ \A v \in Worker :
                Sending(v, k)' => worker'[v].attempt \in (1..attempts'[k]) \ called'[k]
           /\ \A u, v \in Worker :
                Sending(u, k)' /\ Sending(v, k)' /\ worker'[u].attempt = worker'[v].attempt
                => u = v
  BY DEF CallsCounted
<1>5. called'[k] \subseteq 1..attempts'[k]
  <2>1. called[k] \subseteq 1..attempts[k]  BY DEF CallsCounted
  <2>2. CASE k = m
    <3>1. called'[k] = called[k] \cup {a}  BY <1>2, <2>2
    <3> QED  BY <1>4, <2>1, <2>2, <3>1
  <2>3. CASE k # m
    <3>1. called'[k] = called[k]  BY <1>2, <2>3
    <3> QED  BY <2>1, <3>1
  <2> QED  BY <2>2, <2>3
<1>6. ASSUME NEW v \in Worker, Sending(v, k)'
      PROVE  worker'[v].attempt \in (1..attempts'[k]) \ called'[k]
  <2>1. v # w /\ Sending(v, k) /\ worker'[v] = worker[v]  BY <1>3, <1>6
  <2>2. worker[v].attempt # a \/ k # m  BY <1>1, <2>1 DEF CallsCounted, a
  <2>3. worker[v].attempt \in 1..attempts[k] /\ worker[v].attempt \notin called[k]
    BY <2>1 DEF CallsCounted
  <2>4. worker[v].attempt \notin called'[k]
    <3>1. called'[k] = IF k = m THEN called[k] \cup {a} ELSE called[k]  BY <1>2
    <3> QED  BY <2>2, <2>3, <3>1
  <2> QED  BY <2>1, <2>3, <2>4
<1> QED  BY <1>2, <1>3, <1>5, <1>6 DEF CallsCounted

\* Losing the connection moves no count and no number.
LEMMA DisconnectingKeepsCount ==
  ASSUME TypeOK, CallsCounted, NEW w \in Worker, ConnectionLost(w)
  PROVE  CallsCounted'
<1>1. worker[w] \in WorkerState /\ worker' = [worker EXCEPT ![w].lost = TRUE]
  BY WorkerMoves DEF ConnectionLost
<1>2. /\ worker'[w].pc = worker[w].pc /\ worker'[w].msg = worker[w].msg
      /\ worker'[w].attempt = worker[w].attempt
      /\ \A v \in Worker : v # w => worker'[v] = worker[v]
  BY <1>1 DEF WorkerState, TypeOK, WorkerTypeOK
<1>3. UNCHANGED <<attempts, called>>  BY DEF ConnectionLost, rowVars, ghostVars
<1>4. \A v \in Worker, n \in Notification :
        Sending(v, n)' => Sending(v, n) /\ worker'[v].attempt = worker[v].attempt
  BY <1>2 DEF Sending
<1> QED  BY <1>3, <1>4 DEF CallsCounted

\* All other steps of a worker are quiet.
LEMMA WorkKeepsCount ==
  ASSUME TypeOK, CallsCounted, NEW w \in Worker, WorkerStep(w) \/ WorkerFault(w) \/ ConnectionLost(w)
  PROVE  CallsCounted'
<1> USE DEF TypeOK, WorkerTypeOK
<1>1. CASE \E n \in Notification : BeginAttempt(w, n)  BY <1>1, BeginKeepsCount
<1>2. CASE \E r \in Result : ProviderReturns(w, r)
  <2>1. PICK r \in Result : ProviderReturns(w, r)  BY <1>2
  <2>2. /\ worker[w].pc = "sending" /\ worker'[w].pc = "applying"
        /\ \A v \in Worker : v # w => worker'[v] = worker[v]
    BY <2>1, WorkerMoves DEF ProviderReturns, WorkerState
  <2> QED  BY <2>1, <2>2, EndOfCallKeepsCount DEF ProviderReturns, rowVars
<1>3. ASSUME UNCHANGED <<attempts, called>>, worker'[w].pc # "sending",
             \A v \in Worker : v # w => worker'[v] = worker[v]
      PROVE  CallsCounted'
  BY <1>3, QuietKeepsCount DEF Quiet
<1>4. CASE GetMessage(w)
  BY <1>3, <1>4, WorkerMoves DEF GetMessage, rowVars, ghostVars, WorkerState
<1>5. ASSUME Done(w), UNCHANGED <<attempts, called>> PROVE CallsCounted'
  BY <1>3, <1>5 DEF Done, IdleWorker
<1>6. ASSUME LoseMessage(w)
      PROVE  /\ attempts' = attempts /\ worker'[w].pc = "idle"
             /\ \A v \in Worker : v # w => worker'[v] = worker[v]
  BY <1>6 DEF LoseMessage, IdleWorker, rowVars
<1>7. CASE \E n \in Notification : SkipMessage(w, n) \/ DeferToWaitingRetry(w, n)
                                    \/ DeferWithNewRetry(w, n) \/ DropBeforeProvider(w, n)
  BY <1>5, <1>7 DEF SkipMessage, DeferToWaitingRetry, DeferWithNewRetry,
                    DropBeforeProvider, rowVars, ghostVars
<1>8. CASE \E n \in Notification : DeferAmbiguous(w, n)
  BY <1>3, <1>6, <1>8 DEF DeferAmbiguous, ghostVars
<1>9. CASE \E n \in Notification : Apply(w, n)
  BY <1>3, <1>5, <1>6, <1>9 DEF Apply, MarkDelivered, ScheduleRetry,
                          RetryUndefined, Drop, rowVars, ghostVars
<1>10. CASE Ack(w)  BY <1>3, <1>10 DEF Ack, IdleWorker, rowVars, ghostVars
<1>11. CASE WorkerFault(w)
  <2>1. CASE worker[w].pc = "sending"
    BY <1>6, <1>11, <2>1, EndOfCallKeepsCount DEF WorkerFault
  <2>2. CASE worker[w].pc # "sending"  BY <1>3, <1>6, <1>11, <2>2 DEF WorkerFault
  <2> QED  BY <2>1, <2>2
<1>12. CASE ConnectionLost(w)  BY <1>12, DisconnectingKeepsCount
<1> QED
  BY <1>1, <1>2, <1>4, <1>7, <1>8, <1>9, <1>10, <1>11, <1>12
     DEF WorkerStep, Reserve

(***************************************************************************)
(* The provider is called at most once for an attempt number, and          *)
(* max_retries times at most for a notification.                           *)
(***************************************************************************)
THEOREM CalledOnce == Spec => []OneCallPerAttempt
<1>1. Init => CallsCounted
  BY WorkerAssumption DEF Init, WorkerInit, CallsCounted, Sending, IdleWorker
<1>2. TypeOK /\ CallsCounted /\ [Next]_vars => CallsCounted'
  <2> SUFFICES ASSUME TypeOK, CallsCounted, [Next]_vars PROVE CallsCounted'  OBVIOUS
  <2>1. CASE UNCHANGED <<attempts, called, worker>>
    BY <2>1, QuietKeepsCount DEF Quiet
  <2>2. CASE \E S \in SUBSET Notification : CreateBatch(S)
    BY <2>1, <2>2 DEF CreateBatch, ghostVars
  <2>3. CASE \E p \in Publisher : Publish(p)
    BY <2>1, <2>3 DEF Publish, rowVars, ghostVars
  <2>4. CASE \E w \in Worker : Work(w)  BY <2>4, WorkKeepsCount DEF Work
  <2>5. CASE Tick  BY <2>1, <2>5 DEF Tick, ghostVars
  <2>6. CASE UNCHANGED vars  BY <2>1, <2>6 DEF vars
  <2> QED  BY <2>2, <2>3, <2>4, <2>5, <2>6 DEF Next
<1>3. TypeOK /\ CallsCounted => OneCallPerAttempt
  <2> SUFFICES ASSUME TypeOK, CallsCounted, NEW n \in Notification
               PROVE  /\ called[n] \subseteq 1..MaxRetries
                      /\ \A w \in Worker : InAttempt(w, n) /\ worker[w].pc = "sending" =>
                           worker[w].attempt \in (1..MaxRetries) \ called[n]
    BY DEF OneCallPerAttempt
  <2>1. 1..attempts[n] \subseteq 1..MaxRetries
    BY WorkerAssumption DEF CallsCounted, TypeOK, WorkerTypeOK
  <2>2. \A w \in Worker : InAttempt(w, n) /\ worker[w].pc = "sending" => Sending(w, n)
    BY DEF InAttempt, Sending
  <2> QED  BY <2>1, <2>2 DEF CallsCounted
<1> QED  BY <1>1, <1>2, <1>3, TypeCorrect, PTL DEF Spec

-----------------------------------------------------------------------------
(***************************************************************************)
(* Deferrals.  A second waiting row is what makes a deferral ambiguous.    *)
(* One that was deferred during an attempt is due before the retry of that *)
(* attempt only if the backoff outlasts the lock of the attempt.           *)
(***************************************************************************)
BackoffOutlastsLock == \A i \in DOMAIN Backoff : Backoff[i] > LockTTL

RetryRow(e, n) == Exists(e) /\ outbox[e].n = n /\ outbox[e].type = "retry"

\* Retries follow a first attempt, are due before the lock expires, and only
\* one of them is due at the very moment it does.
RetriesTell(n) ==
  /\ status[n] \in {"absent", "queued"} => \A e \in EventId : ~RetryRow(e, n)
  /\ status[n] = "sent" =>
       /\ \A e \in EventId : RetryRow(e, n) => outbox[e].delay <= lock[n]
       /\ \A e, f \in EventId :
            /\ RetryRow(e, n) /\ RetryRow(f, n) /\ lock[n] > 0
            /\ outbox[e].delay = lock[n] /\ outbox[f].delay = lock[n]
            => e = f
  /\ \A w \in Worker : InAttempt(w, n) => lock[n] <= LockTTL

AllRetriesTell == \A n \in Notification : RetriesTell(n)

LEMMA LongDelay ==
  ASSUME BackoffOutlastsLock, NEW a \in Nat, Backoff # <<>>
  PROVE  DelaySeconds(a) \in Nat /\ DelaySeconds(a) > LockTTL
<1>1. Backoff \in Seq(Nat) /\ Backoff # <<>>  BY WorkerAssumption
<1>2. Len(Backoff) \in Nat /\ Len(Backoff) >= 1 /\ DOMAIN Backoff = 1..Len(Backoff)
  BY <1>1
<1> DEFINE i == IF a <= 1 THEN 1 ELSE IF a > Len(Backoff) THEN Len(Backoff) ELSE a
<1>3. i \in DOMAIN Backoff  BY <1>2
<1>4. Backoff[i] > LockTTL  BY <1>3 DEF BackoffOutlastsLock
<1> QED  BY <1>4, DelayType DEF DelaySeconds

\* A notification whose status, lock and retry rows a step leaves alone, and
\* for which no attempt begins.
Spared(n) ==
  /\ status'[n] = status[n] /\ lock'[n] = lock[n]
  /\ \A e \in EventId : RetryRow(e, n)' => RetryRow(e, n) /\ outbox'[e] = outbox[e]
  /\ \A w \in Worker : InAttempt(w, n)' => InAttempt(w, n)

LEMMA SparedKeeps ==
  ASSUME NEW n \in Notification, RetriesTell(n), Spared(n) PROVE RetriesTell(n)'
BY DEF RetriesTell, Spared

\* What is final needs no retry.
LEMMA FinalKeeps ==
  ASSUME NEW n \in Notification, status'[n] \in Final, lock'[n] = 0
  PROVE  RetriesTell(n)'
<1>1. 0 <= LockTTL  BY WorkerAssumption
<1> QED  BY <1>1 DEF RetriesTell, Final

\* The steps of a worker that insert no row and write none.
LEMMA IdleStepSpares ==
  ASSUME NEW n \in Notification, UNCHANGED <<outbox, status, lock>>,
         \A v \in Worker : worker'[v].pc \in {"sending", "applying"} =>
           /\ worker[v].pc \in {"sending", "applying"}
           /\ worker'[v].msg = worker[v].msg
  PROVE  Spared(n)
BY DEF Spared, RetryRow, Exists, InAttempt

\* Inserting a row for n is nothing to any other notification, and a failure
\* notice is nothing to n itself.
LEMMA InsertSpares ==
  ASSUME TypeOK, NEW n \in Notification, NEW type \in EventType, NEW delay \in Nat,
         AddOutboxEvent(n, type, delay), NEW w \in Worker, Done(w)
  PROVE  /\ \A k \in Notification :
              k # n /\ status'[k] = status[k] /\ lock'[k] = lock[k] => Spared(k)
         /\ \A k \in Notification, v \in Worker : InAttempt(v, k)' => InAttempt(v, k) /\ v # w
         /\ \A e \in EventId :
              RetryRow(e, n)' =>
                \/ RetryRow(e, n) /\ outbox'[e] = outbox[e]
                \/ e = FreshEvent /\ outbox'[e].delay = delay
<1>1. PICK f \in EventId :
        /\ f = FreshEvent /\ ~Exists(f) /\ outbox'[f] = NewEvent(n, type, delay)
        /\ \A e \in EventId : e # f => outbox'[e] = outbox[e]
  BY AddedRow DEF TypeOK
<1>2. outbox'[f].n = n /\ outbox'[f].delay = delay  BY <1>1 DEF NewEvent
<1>3. \A k \in Notification, v \in Worker : InAttempt(v, k)' => InAttempt(v, k) /\ v # w
  BY EndsOfStep DEF OthersKeep, InAttempt
<1>4. ASSUME NEW k \in Notification, NEW e \in EventId, RetryRow(e, k)'
      PROVE  \/ RetryRow(e, k) /\ outbox'[e] = outbox[e]
             \/ k = n /\ e = f
  BY <1>1, <1>2, <1>4 DEF RetryRow, Exists
<1> QED  BY <1>1, <1>2, <1>3, <1>4 DEF Spared

\* A deferral inserts a row only where none waits for the end of the lock.
LEMMA DeferralKeeps ==
  ASSUME Conserved, AllRetriesTell, NEW w \in Worker, NEW n \in Notification,
         DeferWithNewRetry(w, n)
  PROVE  RetriesTell(n)'
<1> USE DEF Conserved, TypeOK
<1>1. /\ AddOutboxEvent(n, "retry", lock[n]) /\ Done(w) /\ WaitingRetries(n) = {}
      /\ status[n] = "sent" /\ lock[n] > 0 /\ lock[n] \in Nat
      /\ status' = status /\ lock' = lock
  BY DEF DeferWithNewRetry, AddRetry, HasActiveProcessingLock, rowVars, WorkerTypeOK
<1>2. /\ \A v \in Worker : InAttempt(v, n)' => InAttempt(v, n)
      /\ \A e \in EventId :
           RetryRow(e, n)' => \/ RetryRow(e, n) /\ outbox'[e] = outbox[e]
                              \/ e = FreshEvent /\ outbox'[e].delay = lock[n]
  BY <1>1, InsertSpares DEF EventType
<1>3. ASSUME NEW e \in EventId, RetryRow(e, n) PROVE outbox[e].delay < lock[n]
  <2>1. outbox[e].delay \in Nat /\ outbox[e].status \in OutboxStatus \cup {"absent"}
    BY DEF StoreTypeOK, OutboxEvent
  <2>2. CASE outbox[e].status \in {"pending", "processing"}
    <3>1. e \notin WaitingRetries(n)  BY <1>1
    <3> QED  BY <1>1, <1>3, <2>1, <2>2, <3>1 DEF WaitingRetries, RetryRow
  <2>3. CASE outbox[e].status \in {"published", "failed"}
    BY <1>1, <2>3 DEF RowsTell
  <2> QED  BY <1>3, <2>1, <2>2, <2>3 DEF OutboxStatus, RetryRow, Exists
<1>4. RetriesTell(n)  BY DEF AllRetriesTell
<1>5. \A e \in EventId : RetryRow(e, n)' => outbox'[e].delay <= lock[n]
  BY <1>1, <1>2, <1>4 DEF RetriesTell
<1>6. ASSUME NEW e \in EventId, RetryRow(e, n)', outbox'[e].delay = lock[n]
      PROVE  e = FreshEvent
  <2>1. CASE RetryRow(e, n) /\ outbox'[e] = outbox[e]
    <3>1. outbox[e].delay < lock[n] /\ outbox[e].delay = lock[n]  BY <1>3, <1>6, <2>1
    <3> QED  BY <1>1, <3>1
  <2> QED  BY <1>2, <1>6, <2>1
<1> QED  BY <1>1, <1>2, <1>4, <1>5, <1>6 DEF RetriesTell

\* An attempt begins when every earlier retry is due.
LEMMA BeginningKeeps ==
  ASSUME TypeOK, AllRetriesTell, NEW w \in Worker, NEW n \in Notification,
         BeginAttempt(w, n), NEW k \in Notification
  PROVE  RetriesTell(k)'
<1>0. RetriesTell(k)  BY DEF AllRetriesTell
<1>1. /\ outbox' = outbox /\ LockTTL \in Nat /\ LockTTL > 0
      /\ status'[n] = "sent" /\ lock'[n] = LockTTL
      /\ k # n => status'[k] = status[k] /\ lock'[k] = lock[k]
      /\ worker'[w].msg = worker[w].msg /\ worker[w].msg.n = n
      /\ \A v \in Worker : v # w => worker'[v] = worker[v]
  <2>0. worker[w] \in WorkerState  BY WorkerMoves
  <2>1. outbox' = outbox /\ worker[w].msg.n = n  BY DEF BeginAttempt, Reserving, storeVars
  <2>2. /\ status'[n] = "sent" /\ lock'[n] = LockTTL
        /\ k # n => status'[k] = status[k] /\ lock'[k] = lock[k]
    BY DEF BeginAttempt, TypeOK, WorkerTypeOK
  <2>3. /\ worker'[w].msg = worker[w].msg
        /\ \A v \in Worker : v # w => worker'[v] = worker[v]
    BY <2>0 DEF BeginAttempt, TypeOK, WorkerTypeOK, WorkerState
  <2>4. LockTTL \in Nat /\ LockTTL > 0  BY WorkerAssumption
  <2> QED  BY <2>1, <2>2, <2>3, <2>4
<1>2. \A e \in EventId : RetryRow(e, k)' <=> RetryRow(e, k)  BY <1>1 DEF RetryRow, Exists
<1>3. CASE k # n
  <2>1. \A v \in Worker : InAttempt(v, k)' => InAttempt(v, k)
    BY <1>1, <1>3 DEF InAttempt
  <2> QED  BY <1>0, <1>1, <1>2, <1>3, <2>1, SparedKeeps DEF Spared
<1>4. CASE k = n
  <2>1. \/ status[n] = "queued"
        \/ status[n] = "sent" /\ lock[n] = 0
    BY DEF BeginAttempt, MissingOrFinal, Final, HasActiveProcessingLock, TypeOK,
           WorkerTypeOK, Status
  <2>2. ASSUME NEW e \in EventId, RetryRow(e, n) PROVE outbox[e].delay = 0
    <3>1. outbox[e].delay \in Nat  BY DEF TypeOK, StoreTypeOK, OutboxEvent
    <3> QED  BY <1>0, <1>4, <2>1, <2>2, <3>1 DEF RetriesTell
  <2> QED  BY <1>1, <1>2, <1>4, <2>2 DEF RetriesTell
<1> QED  BY <1>3, <1>4

\* The retry of an attempt outlasts every deferral made during the attempt.
LEMMA SchedulingKeeps ==
  ASSUME ProviderTimely, BackoffOutlastsLock, TypeOK, AttemptsTell, AllRetriesTell,
         NEW w \in Worker, NEW n \in Notification, ScheduleRetry(w, n),
         NEW k \in Notification
  PROVE  RetriesTell(k)'
<1>0. RetriesTell(k)  BY DEF AllRetriesTell
<1> DEFINE d == DelaySeconds(RowAttempts(w))
<1>1. /\ AddOutboxEvent(n, "retry", d) /\ Done(w) /\ lock' = [lock EXCEPT ![n] = d]
      /\ status' = status /\ Backoff # <<>> /\ InAttempt(w, n)
  BY DEF ScheduleRetry, AddRetry, Applying, InAttempt
<1>2. d \in Nat /\ d > LockTTL
  <2>1. RowAttempts(w) \in Nat
    BY WorkerMoves DEF RowAttempts, TypeOK, WorkerTypeOK, WorkerState
  <2> QED  BY <1>1, <2>1, LongDelay
<1> HIDE DEF d
<1>3. /\ lock'[n] = d
      /\ \A j \in Notification : j # n => lock'[j] = lock[j]
  BY <1>1 DEF TypeOK, WorkerTypeOK
<1>4. CASE k # n
  <2>1. Spared(k)  BY <1>1, <1>2, <1>3, <1>4, InsertSpares DEF EventType
  <2> QED  BY <1>0, <2>1, SparedKeeps
<1>5. CASE k = n
  <2>1. /\ status[n] = "sent" /\ lock[n] <= LockTTL /\ lock[n] \in Nat /\ LockTTL \in Nat
        /\ \A v \in Worker : InAttempt(v, n) => v = w
    BY <1>0, <1>1, <1>5, WorkerAssumption DEF AttemptsTell, RetriesTell, TypeOK, WorkerTypeOK
  <2>2. /\ \A v \in Worker : InAttempt(v, n)' => InAttempt(v, n) /\ v # w
        /\ \A e \in EventId :
             RetryRow(e, n)' => \/ RetryRow(e, n) /\ outbox'[e] = outbox[e]
                                \/ e = FreshEvent /\ outbox'[e].delay = d
    BY <1>1, <1>2, InsertSpares DEF EventType
  <2>3. ASSUME NEW e \in EventId, RetryRow(e, n) PROVE outbox[e].delay < d
    <3>1. outbox[e].delay <= lock[n]  BY <1>0, <1>5, <2>1, <2>3 DEF RetriesTell
    <3>2. outbox[e].delay \in Nat  BY DEF TypeOK, StoreTypeOK, OutboxEvent
    <3> QED  BY <1>2, <2>1, <3>1, <3>2
  <2>4. ASSUME NEW e \in EventId, RetryRow(e, n)'
        PROVE  outbox'[e].delay <= d /\ (outbox'[e].delay = d => e = FreshEvent)
    <3>1. CASE RetryRow(e, n) /\ outbox'[e] = outbox[e]
      <4>1. outbox'[e].delay < d /\ outbox'[e].delay \in Nat
        BY <2>3, <3>1 DEF TypeOK, StoreTypeOK, OutboxEvent
      <4> QED  BY <1>2, <4>1
    <3>2. CASE e = FreshEvent /\ outbox'[e].delay = d  BY <1>2, <3>2
    <3> QED  BY <2>2, <2>4, <3>1, <3>2
  <2>5. \A v \in Worker : ~InAttempt(v, n)'  BY <2>1, <2>2
  <2> QED  BY <1>1, <1>3, <1>5, <2>1, <2>4, <2>5 DEF RetriesTell
<1> QED  BY <1>4, <1>5

LEMMA FinishingKeeps ==
  ASSUME TypeOK, AllRetriesTell, NEW w \in Worker, NEW n \in Notification,
         MarkDelivered(w, n) \/ Drop(w, n) \/ DropBeforeProvider(w, n),
         NEW k \in Notification
  PROVE  RetriesTell(k)'
<1>0. RetriesTell(k)  BY DEF AllRetriesTell
<1>1. PICK s \in Final : Finish(n, s) /\ Done(w)
  BY DEF MarkDelivered, Drop, DropBeforeProvider, Final
<1>2. /\ status'[n] \in Final /\ lock'[n] = 0
      /\ \A j \in Notification : j # n => status'[j] = status[j] /\ lock'[j] = lock[j]
  BY <1>1 DEF Finish, TypeOK, WorkerTypeOK
<1>3. CASE k = n  BY <1>2, <1>3, FinalKeeps
<1>4. CASE k # n
  <2>1. CASE AddOutboxEvent(n, "failed", 0)
    BY <1>0, <1>1, <1>2, <1>4, <2>1, InsertSpares, SparedKeeps DEF EventType
  <2>2. CASE outbox' = outbox
    <3>1. \A e \in EventId : RetryRow(e, k)' <=> RetryRow(e, k)
      BY <2>2 DEF RetryRow, Exists
    <3>2. \A v \in Worker : InAttempt(v, k)' => InAttempt(v, k)
      BY <1>1, EndsOfStep DEF OthersKeep, InAttempt
    <3> QED  BY <1>0, <1>2, <1>4, <2>2, <3>1, <3>2, SparedKeeps DEF Spared
  <2> QED
    BY <2>1, <2>2 DEF MarkDelivered, Drop, DropBeforeProvider, AddFailed, storeVars
<1> QED  BY <1>3, <1>4

\* Whatever else a worker does.
LEMMA OtherWorkSpares ==
  ASSUME TypeOK, NEW w \in Worker,
         \/ GetMessage(w) \/ Ack(w) \/ WorkerFault(w) \/ ConnectionLost(w)
         \/ \E r \in Result : ProviderReturns(w, r)
         \/ \E n \in Notification :
              \/ SkipMessage(w, n) \/ DeferToWaitingRetry(w, n) \/ DeferAmbiguous(w, n)
              \/ RetryUndefined(w, n)
  PROVE  \A k \in Notification : Spared(k)
<1>0. worker[w] \in WorkerState  BY WorkerMoves
<1>1. CASE GetMessage(w) \/ Ack(w)
  <2>1. CASE GetMessage(w)
    <3>1. /\ UNCHANGED <<outbox, status, lock>>
          /\ \E m \in queue : worker' = [worker EXCEPT ![w].pc = "received", ![w].msg = m,
                                                      ![w].lost = FALSE]
      BY <2>1 DEF GetMessage, rowVars
    <3>2. worker'[w].pc = "received" /\ OthersKeep(w)
      BY <1>0, <3>1 DEF OthersKeep, TypeOK, WorkerTypeOK, WorkerState
    <3> QED  BY <3>1, <3>2, IdleStepSpares DEF OthersKeep
  <2>2. CASE Ack(w)
    <3>1. UNCHANGED <<outbox, status, lock>>  BY <2>2 DEF Ack, storeVars, rowVars
    <3>2. worker'[w].pc = "idle" /\ OthersKeep(w)
      BY <2>2 DEF Ack, IdleWorker, OthersKeep, TypeOK, WorkerTypeOK
    <3> QED  BY <3>1, <3>2, IdleStepSpares DEF OthersKeep
  <2> QED  BY <1>1, <2>1, <2>2
<1>2. CASE ConnectionLost(w) \/ \E r \in Result : ProviderReturns(w, r)
  <2>1. /\ worker'[w].msg = worker[w].msg /\ OthersKeep(w)
        /\ worker'[w].pc \in {"sending", "applying"} =>
             worker[w].pc \in {"sending", "applying"}
        /\ UNCHANGED <<outbox, status, lock>>
    <3>1. CASE ConnectionLost(w)
      BY <1>0, <3>1 DEF ConnectionLost, OthersKeep, storeVars, rowVars,
                        TypeOK, WorkerTypeOK, WorkerState
    <3>2. ASSUME NEW r \in Result, ProviderReturns(w, r)
          PROVE  /\ worker' = [worker EXCEPT ![w].pc = "applying", ![w].result = r]
                 /\ worker[w].pc = "sending" /\ UNCHANGED <<outbox, status, lock>>
      BY <3>2 DEF ProviderReturns, storeVars, rowVars
    <3>3. CASE \E r \in Result : ProviderReturns(w, r)
      BY <1>0, <3>2, <3>3 DEF OthersKeep, TypeOK, WorkerTypeOK, WorkerState
    <3> QED  BY <1>2, <3>1, <3>3
  <2> QED  BY <2>1, IdleStepSpares DEF OthersKeep
<1>3. CASE \/ WorkerFault(w)
           \/ \E n \in Notification :
                \/ SkipMessage(w, n) \/ DeferToWaitingRetry(w, n) \/ DeferAmbiguous(w, n)
                \/ RetryUndefined(w, n)
  <2>1. (Done(w) \/ LoseMessage(w)) /\ UNCHANGED <<outbox, status, lock>>
    BY <1>3 DEF WorkerFault, SkipMessage, DeferToWaitingRetry, DeferAmbiguous,
                RetryUndefined, LoseMessage, storeVars, rowVars
  <2> QED  BY <2>1, EndsOfStep, IdleStepSpares DEF OthersKeep
<1> QED  BY <1>1, <1>2, <1>3

LEMMA WorkKeepsRetries ==
  ASSUME ProviderTimely, BackoffOutlastsLock, Conserved, AttemptsTell, AllRetriesTell,
         NEW w \in Worker, WorkerStep(w) \/ WorkerFault(w) \/ ConnectionLost(w)
  PROVE  AllRetriesTell'
<1> SUFFICES ASSUME NEW k \in Notification PROVE RetriesTell(k)'
  BY DEF AllRetriesTell
<1>0. RetriesTell(k) /\ TypeOK  BY DEF AllRetriesTell, Conserved
<1>1. CASE \E n \in Notification : DeferWithNewRetry(w, n)
  <2>1. PICK n \in Notification : DeferWithNewRetry(w, n)  BY <1>1
  <2>2. CASE k = n  BY <2>1, <2>2, DeferralKeeps
  <2>3. CASE k # n
    <3>1. /\ AddOutboxEvent(n, "retry", lock[n]) /\ Done(w) /\ lock[n] \in Nat
          /\ status' = status /\ lock' = lock
      BY <1>0, <2>1 DEF DeferWithNewRetry, AddRetry, rowVars, TypeOK, WorkerTypeOK
    <3>2. Spared(k)  BY <1>0, <2>3, <3>1, InsertSpares DEF EventType
    <3> QED  BY <1>0, <3>2, SparedKeeps
  <2> QED  BY <2>2, <2>3
<1>2. CASE \E n \in Notification : BeginAttempt(w, n)  BY <1>0, <1>2, BeginningKeeps
<1>3. CASE \E n \in Notification : ScheduleRetry(w, n)  BY <1>0, <1>3, SchedulingKeeps
<1>4. CASE \E n \in Notification :
             MarkDelivered(w, n) \/ Drop(w, n) \/ DropBeforeProvider(w, n)
  BY <1>0, <1>4, FinishingKeeps
<1>5. CASE \/ GetMessage(w) \/ Ack(w) \/ WorkerFault(w) \/ ConnectionLost(w)
           \/ \E r \in Result : ProviderReturns(w, r)
           \/ \E n \in Notification :
                \/ SkipMessage(w, n) \/ DeferToWaitingRetry(w, n) \/ DeferAmbiguous(w, n)
                \/ RetryUndefined(w, n)
  BY <1>0, <1>5, OtherWorkSpares, SparedKeeps
<1> QED  BY <1>1, <1>2, <1>3, <1>4, <1>5 DEF WorkerStep, Reserve, Apply

\* Time passes for delays and locks alike.
LEMMA TickKeepsRetries ==
  ASSUME TypeOK, AllRetriesTell, Tick, NEW n \in Notification
  PROVE  RetriesTell(n)'
<1>0. RetriesTell(n)  BY DEF AllRetriesTell
<1>1. /\ worker' = worker /\ status' = status
      /\ lock[n] \in Nat /\ lock'[n] = CountDown(lock[n])
      /\ LockTTL \in Nat
  BY WorkerAssumption DEF Tick, TickLocks, TypeOK, WorkerTypeOK
<1>2. ASSUME NEW e \in EventId
      PROVE  /\ RetryRow(e, n)' <=> RetryRow(e, n)
             /\ outbox'[e].delay = CountDown(outbox[e].delay)
             /\ outbox[e].delay \in Nat
  BY TickedRow DEF Tick, RetryRow, Exists, TypeOK, StoreTypeOK, OutboxEvent
<1>3. \A w \in Worker : InAttempt(w, n)' => lock'[n] <= LockTTL
  BY <1>0, <1>1 DEF InAttempt, RetriesTell, CountDown
<1>4. ASSUME status[n] = "sent", NEW e \in EventId, RetryRow(e, n)
      PROVE  /\ outbox'[e].delay <= lock'[n]
             /\ lock'[n] > 0 /\ outbox'[e].delay = lock'[n] =>
                  lock[n] > 0 /\ outbox[e].delay = lock[n]
  <2>1. outbox[e].delay <= lock[n]  BY <1>0, <1>4 DEF RetriesTell
  <2> QED  BY <1>1, <1>2, <2>1 DEF CountDown
<1> QED  BY <1>0, <1>1, <1>2, <1>3, <1>4 DEF RetriesTell

\* Publishers leave alone what makes a row a retry, and its delay.
LEMMA PublishKeepsRetries ==
  ASSUME Conserved, AllRetriesTell, NEW p \in Publisher, Publish(p), NEW n \in Notification
  PROVE  RetriesTell(n)'
<1> USE DEF Conserved, TypeOK
<1>0. RetriesTell(n)  BY DEF AllRetriesTell
<1>1. UNCHANGED <<worker, status, lock>>  BY DEF Publish, rowVars
<1>2. ASSUME NEW e \in EventId
      PROVE  /\ outbox'[e].n = outbox[e].n /\ outbox'[e].type = outbox[e].type
             /\ outbox'[e].delay = outbox[e].delay
             /\ Exists(e)' => Exists(e)
  <2>1. CASE ClaimPending(p)
    <3>1. PICK B \in SUBSET Claimable :
            outbox'[e] = IF e \in B THEN Claimed(e) ELSE outbox[e]
      BY <2>1 DEF ClaimPending
    <3>2. e \in B => Exists(e)  BY DEF Claimable, Exists
    <3> QED  BY <3>1, <3>2, ClaimedRow DEF Exists
  <2>2. CASE MarkPublished(p) \/ MarkPublishFailed(p)
    <3>1. PICK target \in OutboxStatus : WriteRow(p, target)
      BY <2>2 DEF MarkPublished, MarkPublishFailed, OutboxStatus
    <3>2. Exists(pub[p].id)
      BY <2>2 DEF MarkPublished, MarkPublishFailed, HandsTell, InHand
    <3> QED  BY <3>1, <3>2, WrittenRow DEF Exists
  <2>3. CASE LoadEvent(p) \/ PublishSucceeds(p) \/ PublisherFault(p)
    <3>1. outbox' = outbox
      BY <2>3 DEF LoadEvent, PublishSucceeds, PublisherFault, PublishFails,
                  PublisherCrash, storeVars
    <3> QED  BY <3>1 DEF Exists
  <2> QED  BY <2>1, <2>2, <2>3 DEF Publish, PublisherStep
<1>3. \A e \in EventId : RetryRow(e, n)' => RetryRow(e, n)  BY <1>2 DEF RetryRow
<1> QED  BY <1>0, <1>1, <1>2, <1>3 DEF RetriesTell, InAttempt

\* Requests insert first messages, for notifications that have no rows yet.
LEMMA CreateKeepsRetries ==
  ASSUME TypeOK, AttemptsTell, AllRetriesTell, NEW S \in SUBSET Notification, CreateBatch(S),
         NEW n \in Notification
  PROVE  RetriesTell(n)'
<1>0. RetriesTell(n)  BY DEF AllRetriesTell
<1>1. /\ worker' = worker /\ lock' = lock
      /\ n \in S => status[n] = "absent" /\ status'[n] = "queued"
      /\ n \notin S => status'[n] = status[n]
  BY DEF CreateBatch
<1>2. ASSUME NEW e \in EventId, RetryRow(e, n)'
      PROVE  RetryRow(e, n) /\ outbox'[e] = outbox[e]
  <2>1. outbox'[e] = outbox[e] \/ outbox'[e].type = "created"
    BY DEF CreateBatch, NewEvent
  <2> QED  BY <1>2, <2>1 DEF RetryRow, Exists
<1> QED  BY <1>0, <1>1, <1>2 DEF RetriesTell, InAttempt

LEMMA RetriesAreTold ==
  ASSUME ProviderTimely, BackoffOutlastsLock, ClockLead = 0
  PROVE  Spec => [](Conserved /\ AllRetriesTell)
<1>1. Init => AllRetriesTell
  BY WorkerAssumption
     DEF Init, StoreInit, WorkerInit, NoEvent, IdleWorker, AllRetriesTell, RetriesTell,
         RetryRow, Exists, InAttempt
<1>2. Conserved /\ AttemptsTell /\ AllRetriesTell /\ [Next]_vars => AllRetriesTell'
  <2> SUFFICES ASSUME Conserved, AttemptsTell, AllRetriesTell, [Next]_vars
               PROVE  AllRetriesTell'
    OBVIOUS
  <2>0. TypeOK  BY DEF Conserved
  <2>1. CASE \E S \in SUBSET Notification : CreateBatch(S)
    BY <2>0, <2>1, CreateKeepsRetries DEF AllRetriesTell
  <2>2. CASE \E p \in Publisher : Publish(p)
    BY <2>2, PublishKeepsRetries DEF AllRetriesTell
  <2>3. CASE \E w \in Worker : Work(w)  BY <2>3, WorkKeepsRetries DEF Work
  <2>4. CASE Tick  BY <2>0, <2>4, TickKeepsRetries DEF AllRetriesTell
  <2>5. CASE UNCHANGED vars
    BY <2>5 DEF vars, AllRetriesTell, RetriesTell, RetryRow, Exists, InAttempt
  <2> QED  BY <2>1, <2>2, <2>3, <2>4, <2>5 DEF Next
<1> QED  BY <1>1, <1>2, ConservedHolds, AttemptsAreTold, PTL DEF Spec

\* Two waiting rows would both be due the moment the lock expires.
LEMMA OneWaitingRetry ==
  ASSUME TypeOK, NEW n \in Notification, RetriesTell(n), HasActiveProcessingLock(n)
  PROVE  ~(Cardinality(WaitingRetries(n)) > 1)
<1>1. status[n] = "sent" /\ lock[n] > 0 /\ lock[n] \in Nat
  BY DEF HasActiveProcessingLock, TypeOK, WorkerTypeOK
<1>2. \A e \in WaitingRetries(n) :
        e \in EventId /\ RetryRow(e, n) /\ outbox[e].delay = lock[n]
  BY <1>1 DEF WaitingRetries, RetryRow, Exists, RetriesTell, TypeOK, StoreTypeOK, OutboxEvent
<1>3. \A e, f \in WaitingRetries(n) : e = f  BY <1>1, <1>2 DEF RetriesTell
<1>4. CASE WaitingRetries(n) = {}  BY <1>4, FS_EmptySet
<1>5. CASE WaitingRetries(n) # {}
  <2>1. PICK e : WaitingRetries(n) = {e}  BY <1>3, <1>5
  <2> QED  BY <2>1, FS_Singleton
<1> QED  BY <1>4, <1>5

(***************************************************************************)
(* With backoffs longer than processing_lock_ttl_seconds and timely        *)
(* providers a message that finds the processing lock taken is deferred    *)
(* and acknowledged, for any number of duplicates, workers and failures:   *)
(* _ensure_deferred_redelivery never meets two waiting rows.               *)
(***************************************************************************)
THEOREM DeferralIsDefined ==
  ASSUME ProviderTimely, BackoffOutlastsLock, ClockLead = 0
  PROVE  Spec => DuplicateIsDeferred
<1>1. ASSUME Conserved, AllRetriesTell, [Next]_vars,
             NEW w \in Worker, NEW n \in Notification,
             Reserving(w, n), HasActiveProcessingLock(n),
             worker'[w] # worker[w], faults' = faults
      PROVE  worker'[w].pc = "acking"
  <2>0. TypeOK /\ RetriesTell(n) /\ worker[w].pc = "received" /\ worker[w].msg.n = n
    BY <1>1 DEF Conserved, AllRetriesTell, Reserving
  <2>1. PICK v \in Worker : Work(v)
    BY <1>1 DEF Next, CreateBatch, Publish, Tick, vars
  <2>2. v = w
    <3>1. HandOver(v)  BY <1>1, <2>1, WorkHandsOver DEF Work
    <3> QED  BY <1>1, <3>1 DEF HandOver
  <2>3. ~Fault  BY <1>1, <2>0 DEF Fault, TypeOK, StoreTypeOK
  <2>4. PICK k \in Notification : Reserve(w, k)
    <3>1. ~WorkerFault(w) /\ ~ConnectionLost(w)
      BY <2>3 DEF WorkerFault, ConnectionLost
    <3>2. /\ ~GetMessage(w) /\ ~Ack(w)
          /\ \A r \in Result : ~ProviderReturns(w, r)
          /\ \A k \in Notification : ~Apply(w, k)
      BY <2>0 DEF GetMessage, Ack, ProviderReturns, Apply, MarkDelivered,
                  ScheduleRetry, RetryUndefined, Drop, Applying
    <3> QED  BY <2>1, <2>2, <3>1, <3>2 DEF Work, WorkerStep
  <2>5. k = n
    BY <2>0, <2>4 DEF Reserve, SkipMessage, DeferToWaitingRetry, DeferWithNewRetry,
                      DeferAmbiguous, DropBeforeProvider, BeginAttempt, Reserving
  <2>6. ~DeferAmbiguous(w, n)  BY <1>1, <2>0, OneWaitingRetry DEF DeferAmbiguous
  <2>7. ~DropBeforeProvider(w, n) /\ ~BeginAttempt(w, n)
    BY <1>1 DEF DropBeforeProvider, BeginAttempt
  <2>8. Done(w)
    BY <2>4, <2>5, <2>6, <2>7 DEF Reserve, SkipMessage, DeferToWaitingRetry, DeferWithNewRetry
  <2> QED  BY <1>1, <2>8, DoneMoves
<1>2. Conserved /\ AllRetriesTell /\ [Next]_vars =>
        [\A w \in Worker, n \in Notification :
           /\ Reserving(w, n) /\ HasActiveProcessingLock(n)
           /\ worker'[w] # worker[w] /\ faults' = faults
           => worker'[w].pc = "acking"]_vars
  BY <1>1
<1> QED  BY <1>2, RetriesAreTold, PTL DEF Spec, DuplicateIsDeferred
=============================================================================
