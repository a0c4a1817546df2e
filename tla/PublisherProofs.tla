---------------------------- MODULE PublisherProofs ----------------------------
(***************************************************************************)
(* Lemmas about the outbox table and the publisher's steps, for the proofs *)
(* about the pipeline and about the relay.                                 *)
(***************************************************************************)
EXTENDS OutboxPublisher, FiniteSetTheorems, TLAPS

-----------------------------------------------------------------------------
(* The operators of NotificationStore. *)

\* add_outbox_event inserts one new row and leaves every other as it is.
LEMMA AddedRow ==
  ASSUME StoreTypeOK, NEW n \in Notification, NEW type \in EventType,
         NEW delay \in Nat, AddOutboxEvent(n, type, delay)
  PROVE  /\ FreshEvent \in EventId /\ ~Exists(FreshEvent)
         /\ outbox' \in [EventId -> OutboxEvent]
         /\ outbox'[FreshEvent] = NewEvent(n, type, delay)
         /\ \A e \in EventId : e # FreshEvent => outbox'[e] = outbox[e]
<1>1. FreshEvent \in EventId /\ ~Exists(FreshEvent)
  BY DEF AddOutboxEvent, HasRoom, FreshEvent
<1>2. NewEvent(n, type, delay) \in OutboxEvent
  BY DEF NewEvent, OutboxEvent, OutboxStatus
<1>3. outbox' = [outbox EXCEPT ![FreshEvent] = NewEvent(n, type, delay)]
  BY DEF AddOutboxEvent
<1> QED  BY <1>1, <1>2, <1>3 DEF StoreTypeOK

\* A publish adds at most one message, for the row it was meant for.
LEMMA EmitType ==
  ASSUME StoreTypeOK, NEW e \in EventId, Emit(e)
  PROVE  /\ emitted' \in [EventId -> Nat]
         /\ queue' \in SUBSET Message /\ dlq' \in SUBSET Message
<1> DEFINE m == [n |-> outbox[e].n, event |-> e, copy |-> emitted[e] + 1, deliveries |-> 0]
<1>1. outbox[e].n \in Notification  BY DEF StoreTypeOK, OutboxEvent
<1>2. emitted[e] + 1 \in Nat  BY DEF StoreTypeOK
<1>3. m \in Message  BY <1>1, <1>2 DEF Message
<1>4. emitted' = [emitted EXCEPT ![e] = emitted[e] + 1]  BY DEF Emit
<1>5. /\ queue' = queue \/ queue' = queue \cup {m}
      /\ dlq' = dlq \/ dlq' = dlq \cup {m}
  BY DEF Emit
<1> QED  BY <1>2, <1>3, <1>4, <1>5 DEF StoreTypeOK

LEMMA ReturnType ==
  ASSUME StoreTypeOK, NEW m \in Message,
         ReturnToQueue(m) \/ UNCHANGED <<queue, dlq>>
  PROVE  queue' \in SUBSET Message /\ dlq' \in SUBSET Message
<1>1. [m EXCEPT !.deliveries = @ + 1] \in Message  BY DEF Message
<1> QED  BY <1>1 DEF ReturnToQueue, StoreTypeOK

LEMMA FaultType == ASSUME faults \in 0..MaxFaults, Fault PROVE faults' \in 0..MaxFaults
BY StoreAssumption DEF Fault

LEMMA CountDownType == ASSUME NEW t \in Nat PROVE CountDown(t) \in Nat /\ CountDown(t) <= t
BY DEF CountDown

LEMMA TickedRow ==
  ASSUME StoreTypeOK, TickOutbox
  PROVE  /\ outbox' \in [EventId -> OutboxEvent]
         /\ \A e \in EventId :
              /\ outbox'[e].n = outbox[e].n /\ outbox'[e].type = outbox[e].type
              /\ outbox'[e].status = outbox[e].status
              /\ outbox'[e].attempts = outbox[e].attempts
              /\ outbox'[e].delay = CountDown(outbox[e].delay)
              /\ outbox'[e].lease = CountDown(outbox[e].lease)
<1> DEFINE row(e) == [outbox[e] EXCEPT !.delay = CountDown(@), !.lease = CountDown(@)]
<1>1. \A e \in EventId : outbox[e] \in OutboxEvent  BY DEF StoreTypeOK
<1>2. ASSUME NEW e \in EventId
      PROVE  /\ row(e) \in OutboxEvent
             /\ row(e).n = outbox[e].n /\ row(e).type = outbox[e].type
             /\ row(e).status = outbox[e].status
             /\ row(e).attempts = outbox[e].attempts
             /\ row(e).delay = CountDown(outbox[e].delay)
             /\ row(e).lease = CountDown(outbox[e].lease)
  <2>1. CountDown(outbox[e].delay) \in Nat /\ CountDown(outbox[e].lease) \in Nat
    BY <1>1, CountDownType DEF OutboxEvent
  <2> QED  BY <1>1, <2>1 DEF OutboxEvent
<1>3. outbox' = [e \in EventId |-> row(e)]  BY DEF TickOutbox
<1> HIDE DEF row
<1> QED  BY <1>2, <1>3

-----------------------------------------------------------------------------
(* The steps of a publisher. *)

LEMMA NextInBatchType ==
  ASSUME StoreTypeOK, PublisherTypeOK, NEW p \in Publisher, NextInBatch(p)
  PROVE  PublisherTypeOK'
<1>1. IdlePublisher \in PublisherState
  BY StoreAssumption DEF IdlePublisher, PublisherState
<1>2. pub[p].batch \in SUBSET EventId  BY DEF PublisherTypeOK, PublisherState
<1>3. [IdlePublisher EXCEPT !.pc = "batch", !.batch = pub[p].batch] \in PublisherState
  BY <1>1, <1>2 DEF PublisherState
<1> QED  BY <1>1, <1>3 DEF NextInBatch, PublisherTypeOK

\* Recording an outcome keeps the row, its notification, type and delay.
LEMMA WrittenRow ==
  ASSUME StoreTypeOK, PublisherTypeOK, NEW p \in Publisher,
         NEW target \in OutboxStatus, WriteRow(p, target)
  PROVE  /\ outbox' \in [EventId -> OutboxEvent]
         /\ \A e \in EventId :
              /\ outbox'[e].n = outbox[e].n
              /\ outbox'[e].type = outbox[e].type
              /\ outbox'[e].delay = outbox[e].delay
              /\ outbox'[e].attempts = outbox[e].attempts
              /\ outbox'[e].status \in {outbox[e].status, target}
              /\ e # pub[p].id => outbox'[e] = outbox[e]
<1> DEFINE i == pub[p].id
           row == [outbox[i] EXCEPT
                     !.status = IF target = pub[p].status THEN @ ELSE target,
                     !.locked = @ /\ ~pub[p].locked,
                     !.lease = IF pub[p].locked THEN 0 ELSE @]
<1>1. i \in EventId  BY DEF PublisherTypeOK, PublisherState
<1>2. outbox[i] \in OutboxEvent  BY <1>1 DEF StoreTypeOK
<1>3. row \in OutboxEvent
  <2>1. (outbox[i].locked /\ ~pub[p].locked) \in BOOLEAN  OBVIOUS
  <2> QED  BY <1>2, <2>1 DEF OutboxEvent
<1>4. outbox' = [outbox EXCEPT ![i] = row]
  BY <1>1, <1>2 DEF WriteRow, StoreTypeOK, OutboxEvent
<1>5. /\ row.n = outbox[i].n /\ row.type = outbox[i].type
      /\ row.delay = outbox[i].delay /\ row.attempts = outbox[i].attempts
      /\ row.status \in {outbox[i].status, target}
  BY <1>2 DEF OutboxEvent
<1> HIDE DEF row
<1> QED  BY <1>1, <1>3, <1>4, <1>5 DEF StoreTypeOK

LEMMA ClaimedRow ==
  ASSUME StoreTypeOK, NEW e \in EventId
  PROVE  /\ Claimed(e) \in OutboxEvent
         /\ Claimed(e).n = outbox[e].n /\ Claimed(e).type = outbox[e].type
         /\ Claimed(e).delay = outbox[e].delay
         /\ Claimed(e).status = "processing" /\ Claimed(e).lease = ClaimTimeout
         /\ Claimed(e).attempts = outbox[e].attempts + 1
<1>1. outbox[e] \in OutboxEvent  BY DEF StoreTypeOK
<1>2. outbox[e].attempts + 1 \in Nat  BY <1>1 DEF OutboxEvent
<1>3. ClaimTimeout \in Nat  BY PublisherAssumption
<1> QED  BY <1>1, <1>2, <1>3 DEF Claimed, OutboxEvent, OutboxStatus

LEMMA PublisherKeepsType ==
  ASSUME StoreTypeOK, PublisherTypeOK, NEW p \in Publisher,
         PublisherStep(p) \/ PublisherFault(p)
  PROVE  StoreTypeOK' /\ PublisherTypeOK'
<1> DEFINE s == pub[p]
<1>0. /\ s \in PublisherState /\ s.id \in EventId
      /\ IdlePublisher \in PublisherState
  BY StoreAssumption DEF PublisherTypeOK, PublisherState, IdlePublisher
<1>1. CASE ClaimPending(p)
  <2>1. PICK B \in SUBSET Claimable :
          /\ outbox' = [e \in EventId |-> IF e \in B THEN Claimed(e) ELSE outbox[e]]
          /\ pub' = [pub EXCEPT ![p].pc = "batch", ![p].batch = B]
    BY <1>1 DEF ClaimPending
  <2>2. B \in SUBSET EventId  BY DEF Claimable
  <2>3. \A e \in EventId : Claimed(e) \in OutboxEvent
    BY ClaimedRow
  <2>4. outbox' \in [EventId -> OutboxEvent]  BY <2>1, <2>3 DEF StoreTypeOK
  <2>5. [s EXCEPT !.pc = "batch", !.batch = B] \in PublisherState
    BY <1>0, <2>2 DEF PublisherState
  <2>6. pub' = [pub EXCEPT ![p] = [s EXCEPT !.pc = "batch", !.batch = B]]
    BY <2>1 DEF PublisherTypeOK, PublisherState
  <2>7. PublisherTypeOK'  BY <2>5, <2>6 DEF PublisherTypeOK
  <2> QED  BY <1>1, <2>4, <2>7 DEF ClaimPending, StoreTypeOK
<1>2. CASE LoadEvent(p)
  <2>1. PICK e \in FirstOf(s.batch) :
          pub' = [pub EXCEPT ![p] =
                    [pc |-> "publishing", batch |-> s.batch \ {e}, id |-> e,
                     status |-> outbox[e].status, attempts |-> outbox[e].attempts,
                     locked |-> outbox[e].locked, ok |-> FALSE]]
    BY <1>2 DEF LoadEvent
  <2>2. e \in EventId /\ s.batch \ {e} \in SUBSET EventId
    BY <1>0 DEF FirstOf, PublisherState
  <2>3. /\ outbox[e].status \in OutboxStatus \cup {"absent"}
        /\ outbox[e].attempts \in Nat /\ outbox[e].locked \in BOOLEAN
    BY <2>2 DEF StoreTypeOK, OutboxEvent
  <2>4. PublisherTypeOK'  BY <2>1, <2>2, <2>3 DEF PublisherTypeOK, PublisherState
  <2> QED  BY <1>2, <2>4 DEF LoadEvent, storeVars, StoreTypeOK
<1>3. CASE PublishSucceeds(p)
  <2>1. Emit(s.id) /\ UNCHANGED <<outbox, faults>>  BY <1>3 DEF PublishSucceeds
  <2>2. [s EXCEPT !.pc = "marking", !.ok = TRUE] \in PublisherState
    BY <1>0 DEF PublisherState
  <2>3. pub' = [pub EXCEPT ![p] = [s EXCEPT !.pc = "marking", !.ok = TRUE]]
    BY <1>3 DEF PublishSucceeds, PublisherTypeOK, PublisherState
  <2> QED  BY <1>0, <2>1, <2>2, <2>3, EmitType DEF StoreTypeOK, PublisherTypeOK
<1>4. CASE PublishFails(p)
  <2>1. Emit(s.id) \/ UNCHANGED <<emitted, queue, dlq>>  BY <1>4 DEF PublishFails
  <2>2. Fault /\ UNCHANGED outbox  BY <1>4 DEF PublishFails
  <2>3. [s EXCEPT !.pc = "marking", !.ok = FALSE] \in PublisherState
    BY <1>0 DEF PublisherState
  <2>4. pub' = [pub EXCEPT ![p] = [s EXCEPT !.pc = "marking", !.ok = FALSE]]
    BY <1>4 DEF PublishFails, PublisherTypeOK, PublisherState
  <2>5. faults' \in 0..MaxFaults  BY <2>2, FaultType DEF StoreTypeOK
  <2> QED  BY <1>0, <2>1, <2>2, <2>3, <2>4, <2>5, EmitType DEF StoreTypeOK, PublisherTypeOK
<1>5. CASE MarkPublished(p) \/ MarkPublishFailed(p)
  <2>1. PICK target \in OutboxStatus : WriteRow(p, target)
    BY <1>5 DEF MarkPublished, MarkPublishFailed, OutboxStatus
  <2>2. NextInBatch(p) /\ UNCHANGED <<emitted, queue, dlq, faults>>
    BY <1>5 DEF MarkPublished, MarkPublishFailed
  <2> QED  BY <2>1, <2>2, WrittenRow, NextInBatchType DEF StoreTypeOK
<1>6. CASE PublisherCrash(p)
  <2>1. faults' \in 0..MaxFaults  BY <1>6, FaultType DEF PublisherCrash, StoreTypeOK
  <2> QED  BY <1>0, <1>6, <2>1 DEF PublisherCrash, StoreTypeOK, PublisherTypeOK
<1> QED  BY <1>1, <1>2, <1>3, <1>4, <1>5, <1>6 DEF PublisherStep, PublisherFault

-----------------------------------------------------------------------------
(* What each step of a publisher does, in terms of fields and rows. *)

PublishersKeep(p) == \A q \in Publisher : q # p => pub'[q] = pub[q]

LEMMA ClaimEffect ==
  ASSUME StoreTypeOK, PublisherTypeOK, NEW p \in Publisher, ClaimPending(p)
  PROVE  /\ pub[p].pc = "idle" /\ PublishersKeep(p)
         /\ emitted' = emitted /\ faults' = faults
         /\ \E B \in SUBSET Claimable :
              /\ pub'[p].pc = "batch" /\ pub'[p].batch = B
              /\ \A e \in EventId :
                   outbox'[e] = IF e \in B THEN Claimed(e) ELSE outbox[e]
<1>1. PICK B \in SUBSET Claimable :
        /\ outbox' = [e \in EventId |-> IF e \in B THEN Claimed(e) ELSE outbox[e]]
        /\ pub' = [pub EXCEPT ![p].pc = "batch", ![p].batch = B]
  BY DEF ClaimPending
<1>2. pub' = [pub EXCEPT ![p] = [pub[p] EXCEPT !.pc = "batch", !.batch = B]]
  BY <1>1 DEF PublisherTypeOK, PublisherState
<1>3. pub'[p].pc = "batch" /\ pub'[p].batch = B /\ PublishersKeep(p)
  BY <1>2 DEF PublisherTypeOK, PublisherState, PublishersKeep
<1> QED  BY <1>1, <1>3 DEF ClaimPending

LEMMA LoadEffect ==
  ASSUME StoreTypeOK, PublisherTypeOK, NEW p \in Publisher, LoadEvent(p)
  PROVE  /\ pub[p].pc = "batch" /\ PublishersKeep(p)
         /\ outbox' = outbox /\ emitted' = emitted /\ faults' = faults
         /\ \E e \in pub[p].batch :
              pub'[p] = [pc |-> "publishing", batch |-> pub[p].batch \ {e}, id |-> e,
                         status |-> outbox[e].status, attempts |-> outbox[e].attempts,
                         locked |-> outbox[e].locked, ok |-> FALSE]
BY DEF LoadEvent, FirstOf, PublishersKeep, storeVars, PublisherTypeOK

\* Without a failure the message is in the broker; with one it may be.
LEMMA TryEffect ==
  ASSUME StoreTypeOK, PublisherTypeOK, NEW p \in Publisher, PublishSucceeds(p) \/ PublishFails(p)
  PROVE  /\ pub[p].pc = "publishing" /\ pub'[p].pc = "marking" /\ PublishersKeep(p)
         /\ outbox' = outbox
         /\ pub'[p].batch = pub[p].batch /\ pub'[p].id = pub[p].id
         /\ pub'[p].status = pub[p].status /\ pub'[p].attempts = pub[p].attempts
         /\ \A e \in EventId : e # pub[p].id => emitted'[e] = emitted[e]
         /\ \/ /\ pub'[p].ok /\ faults' = faults
               /\ emitted'[pub[p].id] = emitted[pub[p].id] + 1
            \/ /\ ~pub'[p].ok /\ faults' = faults + 1
               /\ emitted'[pub[p].id] \in {emitted[pub[p].id], emitted[pub[p].id] + 1}
<1>1. pub[p] \in PublisherState /\ pub[p].id \in EventId
  BY DEF PublisherTypeOK, PublisherState
<1>2. Emit(pub[p].id) => emitted' = [emitted EXCEPT ![pub[p].id] = emitted[pub[p].id] + 1]
  BY DEF Emit
<1>3. PICK ok \in BOOLEAN :
        pub' = [pub EXCEPT ![p] = [pub[p] EXCEPT !.pc = "marking", !.ok = ok]]
  <2>1. CASE PublishSucceeds(p)
    <3>1. pub' = [pub EXCEPT ![p] = [pub[p] EXCEPT !.pc = "marking", !.ok = TRUE]]
      BY <2>1 DEF PublishSucceeds, PublisherTypeOK, PublisherState
    <3> QED  BY <3>1
  <2>2. CASE PublishFails(p)
    <3>1. pub' = [pub EXCEPT ![p] = [pub[p] EXCEPT !.pc = "marking", !.ok = FALSE]]
      BY <2>2 DEF PublishFails, PublisherTypeOK, PublisherState
    <3> QED  BY <3>1
  <2> QED  BY <2>1, <2>2
<1>4. /\ pub'[p].pc = "marking" /\ pub'[p].batch = pub[p].batch /\ pub'[p].id = pub[p].id
      /\ pub'[p].status = pub[p].status /\ pub'[p].attempts = pub[p].attempts
      /\ PublishersKeep(p)
  BY <1>1, <1>3 DEF PublisherTypeOK, PublisherState, PublishersKeep
<1>5. CASE PublishSucceeds(p)
  <2>1. pub'[p].ok
    BY <1>1, <1>5 DEF PublishSucceeds, PublisherTypeOK, PublisherState
  <2> QED
    BY <1>1, <1>2, <1>4, <1>5, <2>1 DEF PublishSucceeds, StoreTypeOK
<1>6. CASE PublishFails(p)
  <2>1. ~pub'[p].ok
    BY <1>1, <1>6 DEF PublishFails, PublisherTypeOK, PublisherState
  <2>2. emitted' = emitted \/ Emit(pub[p].id)  BY <1>6 DEF PublishFails
  <2> QED
    BY <1>1, <1>2, <1>4, <1>6, <2>1, <2>2 DEF PublishFails, Fault, StoreTypeOK
<1> QED  BY <1>5, <1>6

LEMMA MarkEffect ==
  ASSUME StoreTypeOK, PublisherTypeOK, NEW p \in Publisher, MarkPublished(p) \/ MarkPublishFailed(p)
  PROVE  /\ pub[p].pc = "marking" /\ PublishersKeep(p)
         /\ emitted' = emitted /\ faults' = faults
         /\ pub'[p].batch = pub[p].batch
         /\ pub'[p].pc = IF pub[p].batch = {} THEN "idle" ELSE "batch"
         /\ \E target \in {"published", "failed", "pending"} :
              /\ WriteRow(p, target)
              /\ target = "published" <=> pub[p].ok
              /\ target = "failed" => pub[p].attempts >= OutboxMaxAttempts
<1>1. NextInBatch(p) /\ pub[p].pc = "marking" /\ emitted' = emitted /\ faults' = faults
  BY DEF MarkPublished, MarkPublishFailed
<1>2. /\ pub'[p].batch = pub[p].batch
      /\ pub'[p].pc = IF pub[p].batch = {} THEN "idle" ELSE "batch"
      /\ PublishersKeep(p)
  BY <1>1 DEF NextInBatch, IdlePublisher, PublishersKeep, PublisherTypeOK
<1>3. CASE MarkPublished(p)
  BY <1>1, <1>2, <1>3 DEF MarkPublished
<1>4. CASE MarkPublishFailed(p)
  BY <1>1, <1>2, <1>4 DEF MarkPublishFailed, AttemptsUsedUp
<1> QED  BY <1>3, <1>4

LEMMA CrashEffect ==
  ASSUME StoreTypeOK, PublisherTypeOK, NEW p \in Publisher, PublisherCrash(p)
  PROVE  /\ PublishersKeep(p) /\ pub'[p] = IdlePublisher
         /\ outbox' = outbox /\ emitted' = emitted /\ faults' = faults + 1
BY DEF PublisherCrash, Fault, PublishersKeep, PublisherTypeOK

-----------------------------------------------------------------------------
(***************************************************************************)
(* Claims, while none times out in a publisher's hand: a row in hand stays *)
(* claimed, nobody else has it, and of the claims that a row was given     *)
(* every one but the last was paid for by a failure.                       *)
(***************************************************************************)
LEMMA HandTypes ==
  ASSUME StoreTypeOK, PublisherTypeOK
  PROVE  /\ faults \in Nat
         /\ \A e \in EventId :
              /\ emitted[e] \in Nat /\ outbox[e].attempts \in Nat
              /\ outbox[e].delay \in Nat /\ outbox[e].lease \in Nat
         /\ \A p \in Publisher :
              /\ pub[p].id \in EventId /\ pub[p].attempts \in Nat
              /\ pub[p].batch \subseteq EventId /\ InHand(p) \subseteq EventId
BY StoreAssumption
   DEF StoreTypeOK, OutboxEvent, PublisherTypeOK, PublisherState, InHand


Exclusive == \A p, q \in Publisher : p # q => InHand(p) \cap InHand(q) = {}

HandsHold ==
  \A p \in Publisher :
    /\ pub[p].pc = "idle" => pub[p].batch = {}
    /\ \A e \in InHand(p) : outbox[e].status = "processing" /\ outbox[e].lease > 0
    /\ pub[p].pc \in {"publishing", "marking"} =>
         /\ pub[p].status = "processing" /\ pub[p].id \notin pub[p].batch
         /\ pub[p].attempts <= outbox[pub[p].id].attempts

\* A publisher has claimed e and not yet tried to publish it.
Trying(e) ==
  \E p \in Publisher :
    e \in pub[p].batch \/ (pub[p].pc = "publishing" /\ pub[p].id = e)

ClaimsPaid ==
  \A e \in EventId : emitted[e] = 0 =>
    /\ outbox[e].attempts <= faults + 1
    /\ outbox[e].attempts <= faults \/ Trying(e)
    /\ outbox[e].status = "failed" => faults >= OutboxMaxAttempts

Claims == Exclusive /\ HandsHold /\ ClaimsPaid

\* Rows inserted, and failures elsewhere.
LEMMA InsertingKeepsClaims ==
  ASSUME StoreTypeOK, PublisherTypeOK, Claims, pub' = pub, emitted' = emitted,
         faults' \in Nat, faults' >= faults,
         \A e \in EventId :
           \/ outbox'[e] = outbox[e]
           \/ /\ ~Exists(e)
              /\ outbox'[e].attempts = 0 /\ outbox'[e].status = "pending"
  PROVE  Claims'
<1> USE DEF Claims
<1>1. \A p \in Publisher : InHand(p)' = InHand(p)  BY DEF InHand
<1>2. \A p \in Publisher : \A e \in InHand(p) : e \in EventId /\ outbox'[e] = outbox[e]
  BY HandTypes DEF HandsHold, Exists
<1>3. \A p \in Publisher :
        pub[p].pc \in {"publishing", "marking"} => pub[p].id \in InHand(p)
  BY DEF InHand
<1>4. Exclusive'  BY <1>1 DEF Exclusive
<1>5. HandsHold'  BY <1>1, <1>2, <1>3 DEF HandsHold
<1>6. ClaimsPaid'
  <2> SUFFICES ASSUME NEW e \in EventId, emitted[e] = 0
               PROVE  /\ outbox'[e].attempts <= faults' + 1
                      /\ outbox'[e].attempts <= faults' \/ Trying(e)'
                      /\ outbox'[e].status = "failed" => faults' >= OutboxMaxAttempts
    BY DEF ClaimsPaid
  <2>1. /\ faults \in Nat /\ outbox[e].attempts \in Nat
        /\ outbox[e].attempts <= faults + 1
        /\ outbox[e].attempts <= faults \/ Trying(e)
        /\ outbox[e].status = "failed" => faults >= OutboxMaxAttempts
    BY HandTypes DEF ClaimsPaid
  <2>2. Trying(e)' <=> Trying(e)  BY DEF Trying
  <2>3. CASE outbox'[e] = outbox[e]
    <3>1. outbox[e].attempts <= faults' + 1  BY <2>1
    <3>2. outbox[e].attempts <= faults => outbox[e].attempts <= faults'  BY <2>1
    <3>3. faults >= OutboxMaxAttempts => faults' >= OutboxMaxAttempts
      BY <2>1, PublisherAssumption
    <3> QED  BY <2>1, <2>2, <2>3, <3>1, <3>2, <3>3
  <2>4. CASE outbox'[e].attempts = 0 /\ outbox'[e].status = "pending"
    <3>1. faults' \in Nat  OBVIOUS
    <3>2. outbox'[e].status # "failed"  BY <2>4
    <3>3. \A k \in Nat : 0 <= k /\ 0 <= k + 1  OBVIOUS
    <3>4. 0 <= faults' /\ 0 <= faults' + 1  BY <3>1, <3>3, Zenon
    <3> QED  BY <2>4, <3>2, <3>4, Zenon
  <2> QED  BY <2>3, <2>4
<1> QED  BY <1>4, <1>5, <1>6

\* Time that does not outlast a claim in hand.
LEMMA TickingKeepsClaims ==
  ASSUME StoreTypeOK, PublisherTypeOK, Claims, TickOutbox,
         UNCHANGED <<pub, emitted, faults>>,
         \A p \in Publisher : \A e \in InHand(p) : outbox[e].lease > 1
  PROVE  Claims'
<1> USE DEF Claims
<1>1. \A p \in Publisher : InHand(p)' = InHand(p)  BY DEF InHand
<1>2. ASSUME NEW e \in EventId
      PROVE  /\ outbox'[e].status = outbox[e].status
             /\ outbox'[e].attempts = outbox[e].attempts
             /\ outbox'[e].lease = CountDown(outbox[e].lease)
  BY TickedRow
<1>3. ASSUME NEW p \in Publisher, NEW e \in InHand(p) PROVE outbox'[e].lease > 0
  <2>1. e \in EventId /\ outbox[e].lease \in Nat /\ outbox[e].lease > 1  BY HandTypes
  <2> QED  BY <1>2, <2>1 DEF CountDown
<1>4. Exclusive'  BY <1>1 DEF Exclusive
<1>5. HandsHold'  BY <1>1, <1>2, <1>3, HandTypes DEF HandsHold
<1>6. \A e \in EventId : Trying(e)' <=> Trying(e)  BY DEF Trying
<1>7. ClaimsPaid'  BY <1>2, <1>6 DEF ClaimsPaid
<1> QED  BY <1>4, <1>5, <1>7

\* What is claimable is in nobody's hand, and a claim leaves time on the row.
LEMMA ClaimingKeepsClaims ==
  ASSUME StoreTypeOK, PublisherTypeOK, Claims, ClaimTimeout > 0,
         NEW p \in Publisher, ClaimPending(p)
  PROVE  Claims' /\ \A q \in Publisher : Claimable \cap InHand(q) = {}
<1> USE DEF Claims
<1>1. PICK B \in SUBSET Claimable :
        /\ pub'[p].pc = "batch" /\ pub'[p].batch = B
        /\ \A e \in EventId : outbox'[e] = IF e \in B THEN Claimed(e) ELSE outbox[e]
  BY ClaimEffect
<1>2. /\ pub[p].pc = "idle" /\ PublishersKeep(p)
      /\ emitted' = emitted /\ faults' = faults
  BY ClaimEffect
<1>3. B \subseteq EventId  BY DEF Claimable
<1>4. ASSUME NEW q \in Publisher, NEW e \in Claimable PROVE e \notin InHand(q)
  <2>1. outbox[e].lease \in Nat  BY HandTypes DEF Claimable
  <2> QED  BY <2>1 DEF Claimable, HandsHold
<1>5. InHand(p)' = B  BY <1>1 DEF InHand
<1>6. \A q \in Publisher : q # p => InHand(q)' = InHand(q)
  BY <1>2 DEF InHand, PublishersKeep
<1>7. Exclusive'  BY <1>4, <1>5, <1>6 DEF Exclusive
<1>8. \A e \in B : outbox'[e].status = "processing" /\ outbox'[e].lease > 0
  BY <1>1, <1>3, ClaimedRow
<1>9. HandsHold'
  <2> SUFFICES ASSUME NEW q \in Publisher
               PROVE  /\ pub'[q].pc = "idle" => pub'[q].batch = {}
                      /\ \A e \in InHand(q)' : /\ outbox'[e].status = "processing"
                                               /\ outbox'[e].lease > 0
                      /\ pub'[q].pc \in {"publishing", "marking"} =>
                           /\ pub'[q].status = "processing"
                           /\ pub'[q].id \notin pub'[q].batch
                           /\ pub'[q].attempts <= outbox'[pub'[q].id].attempts
    BY DEF HandsHold
  <2>1. CASE q = p  BY <1>1, <1>5, <1>8, <2>1
  <2>2. CASE q # p
    <3>1. pub'[q] = pub[q] /\ InHand(q)' = InHand(q)
      BY <1>2, <1>6, <2>2 DEF PublishersKeep
    <3>2. \A e \in InHand(q) : outbox'[e] = outbox[e]  BY <1>1, <1>4, HandTypes
    <3>3. pub[q].pc \in {"publishing", "marking"} => pub[q].id \in InHand(q)  BY DEF InHand
    <3> QED  BY <3>1, <3>2, <3>3 DEF HandsHold
  <2> QED  BY <2>1, <2>2
<1>10. ClaimsPaid'
  <2> SUFFICES ASSUME NEW e \in EventId, emitted[e] = 0
               PROVE  /\ outbox'[e].attempts <= faults + 1
                      /\ outbox'[e].attempts <= faults \/ Trying(e)'
                      /\ outbox'[e].status = "failed" => faults >= OutboxMaxAttempts
    BY <1>2 DEF ClaimsPaid
  <2>1. /\ faults \in Nat /\ outbox[e].attempts \in Nat
        /\ outbox[e].attempts <= faults + 1
        /\ outbox[e].attempts <= faults \/ Trying(e)
        /\ outbox[e].status = "failed" => faults >= OutboxMaxAttempts
    BY HandTypes DEF ClaimsPaid
  <2>2. CASE e \notin B
    <3>1. Trying(e) => Trying(e)'
      BY <1>2 DEF Trying, PublishersKeep, HandsHold
    <3> QED  BY <1>1, <2>1, <2>2, <3>1
  <2>3. CASE e \in B
    <3>1. ~Trying(e)  BY <1>4, <2>3 DEF Trying, InHand
    <3>2. Trying(e)'  BY <1>1, <2>3 DEF Trying
    <3>3. outbox'[e].attempts = outbox[e].attempts + 1 /\ outbox'[e].status = "processing"
      BY <1>1, <2>3, ClaimedRow
    <3> QED  BY <2>1, <3>1, <3>2, <3>3
  <2> QED  BY <2>2, <2>3
<1> QED  BY <1>4, <1>7, <1>9, <1>10

\* A row stays in hand when it is read.
LEMMA LoadingKeepsClaims ==
  ASSUME StoreTypeOK, PublisherTypeOK, Claims, NEW p \in Publisher, LoadEvent(p)
  PROVE  Claims'
<1> USE DEF Claims
<1>1. PICK f \in pub[p].batch :
        pub'[p] = [pc |-> "publishing", batch |-> pub[p].batch \ {f}, id |-> f,
                   status |-> outbox[f].status, attempts |-> outbox[f].attempts,
                   locked |-> outbox[f].locked, ok |-> FALSE]
  BY LoadEffect
<1>2. /\ pub[p].pc = "batch" /\ PublishersKeep(p)
      /\ outbox' = outbox /\ emitted' = emitted /\ faults' = faults
  BY LoadEffect
<1>3. /\ pub'[p].pc = "publishing" /\ pub'[p].batch = pub[p].batch \ {f} /\ pub'[p].id = f
      /\ pub'[p].status = outbox[f].status /\ pub'[p].attempts = outbox[f].attempts
  BY <1>1
<1>4. \A q \in Publisher : InHand(q)' = InHand(q)
  BY <1>2, <1>3 DEF InHand, PublishersKeep
<1>5. Exclusive'  BY <1>4 DEF Exclusive
<1>6. f \in EventId /\ outbox[f].attempts \in Nat /\ outbox[f].status = "processing"
  BY HandTypes DEF HandsHold, InHand
<1>7. HandsHold'
  BY <1>2, <1>3, <1>4, <1>6 DEF HandsHold, PublishersKeep
<1>8. \A e \in EventId : Trying(e) => Trying(e)'
  BY <1>2, <1>3 DEF Trying, PublishersKeep
<1>9. ClaimsPaid'  BY <1>2, <1>8 DEF ClaimsPaid
<1> QED  BY <1>5, <1>7, <1>9

\* A try that puts no message in the broker is paid for by a failure.
LEMMA TryingKeepsClaims ==
  ASSUME StoreTypeOK, PublisherTypeOK, Claims, NEW p \in Publisher,
         PublishSucceeds(p) \/ PublishFails(p)
  PROVE  Claims'
<1> USE DEF Claims
<1> DEFINE f == pub[p].id
<1>1. /\ pub[p].pc = "publishing" /\ pub'[p].pc = "marking" /\ PublishersKeep(p)
      /\ outbox' = outbox
      /\ pub'[p].batch = pub[p].batch /\ pub'[p].id = f
      /\ pub'[p].status = pub[p].status /\ pub'[p].attempts = pub[p].attempts
  BY TryEffect
<1>2. \A e \in EventId : e # f => emitted'[e] = emitted[e]  BY TryEffect
<1>3. \/ faults' = faults /\ emitted'[f] = emitted[f] + 1
      \/ faults' = faults + 1 /\ emitted'[f] \in {emitted[f], emitted[f] + 1}
  BY TryEffect
<1>4. \A q \in Publisher : InHand(q)' = InHand(q)
  BY <1>1 DEF InHand, PublishersKeep
<1>5. Exclusive'  BY <1>4 DEF Exclusive
<1>6. HandsHold'  BY <1>1, <1>4 DEF HandsHold, PublishersKeep
<1>7. faults \in Nat /\ faults' \in Nat /\ faults' >= faults  BY <1>3, HandTypes
<1>8. ClaimsPaid'
  <2> SUFFICES ASSUME NEW e \in EventId, emitted'[e] = 0
               PROVE  /\ outbox[e].attempts <= faults' + 1
                      /\ outbox[e].attempts <= faults' \/ Trying(e)'
                      /\ outbox[e].status = "failed" => faults' >= OutboxMaxAttempts
    BY <1>1 DEF ClaimsPaid
  <2>1. emitted[e] = 0
    <3>1. CASE e # f  BY <1>2, <3>1
    <3>2. CASE e = f  BY <1>3, <3>2, HandTypes
    <3> QED  BY <3>1, <3>2
  <2>2. /\ outbox[e].attempts \in Nat
        /\ outbox[e].attempts <= faults + 1
        /\ outbox[e].attempts <= faults \/ Trying(e)
        /\ outbox[e].status = "failed" => faults >= OutboxMaxAttempts
    BY <2>1, HandTypes DEF ClaimsPaid
  <2>3. OutboxMaxAttempts \in Nat  BY PublisherAssumption
  <2>4. CASE e # f
    <3>1. Trying(e) => Trying(e)'  BY <1>1, <2>4 DEF Trying, PublishersKeep
    <3> QED  BY <1>7, <2>2, <2>3, <3>1
  <2>5. CASE e = f
    <3>1. faults' = faults + 1  BY <1>3, <2>1, <2>5
    <3> QED  BY <1>7, <2>2, <2>3, <3>1
  <2> QED  BY <2>4, <2>5
<1> QED  BY <1>5, <1>6, <1>8

\* The outcome that is recorded is that of the row in hand, which nobody else
\* has; a row given up without a message has been claimed for failures only.
LEMMA MarkingKeepsClaims ==
  ASSUME StoreTypeOK, PublisherTypeOK, Claims, NEW p \in Publisher,
         MarkPublished(p) \/ MarkPublishFailed(p)
  PROVE  /\ Claims'
         /\ outbox[pub[p].id].status = "processing"
         /\ outbox'[pub[p].id].status = "published" <=> pub[p].ok
         /\ \A q \in Publisher : q # p => pub[p].id \notin InHand(q)
         /\ \A e \in EventId : e # pub[p].id => outbox'[e] = outbox[e]
<1> USE DEF Claims
<1> DEFINE f == pub[p].id
<1>1. PICK target \in {"published", "failed", "pending"} :
        /\ WriteRow(p, target)
        /\ target = "published" <=> pub[p].ok
        /\ target = "failed" => pub[p].attempts >= OutboxMaxAttempts
  BY MarkEffect
<1>2. /\ pub[p].pc = "marking" /\ PublishersKeep(p)
      /\ emitted' = emitted /\ faults' = faults
      /\ pub'[p].batch = pub[p].batch
      /\ pub'[p].pc = IF pub[p].batch = {} THEN "idle" ELSE "batch"
  BY MarkEffect
<1>3. f \in EventId /\ f \in InHand(p)  BY <1>2, HandTypes DEF InHand
<1>4. /\ outbox[f].status = "processing" /\ pub[p].status = "processing"
      /\ f \notin pub[p].batch /\ pub[p].attempts <= outbox[f].attempts
  BY <1>2, <1>3 DEF HandsHold
<1>5. outbox'[f].status = target
  BY <1>1, <1>3, <1>4 DEF WriteRow, StoreTypeOK, OutboxEvent
<1>6. /\ \A e \in EventId : e # f => outbox'[e] = outbox[e]
      /\ outbox'[f].attempts = outbox[f].attempts
  <2>1. target \in OutboxStatus  BY DEF OutboxStatus
  <2> QED  BY <1>1, <1>3, <2>1, WrittenRow
<1>7. InHand(p)' = InHand(p) \ {f}  BY <1>2, <1>4 DEF InHand
<1>8. \A q \in Publisher : q # p => InHand(q)' = InHand(q) /\ f \notin InHand(q)
  BY <1>2, <1>3 DEF InHand, PublishersKeep, Exclusive
<1>9. Exclusive'  BY <1>7, <1>8 DEF Exclusive
<1>10. HandsHold'
  <2> SUFFICES ASSUME NEW q \in Publisher
               PROVE  /\ pub'[q].pc = "idle" => pub'[q].batch = {}
                      /\ \A e \in InHand(q)' : /\ outbox'[e].status = "processing"
                                               /\ outbox'[e].lease > 0
                      /\ pub'[q].pc \in {"publishing", "marking"} =>
                           /\ pub'[q].status = "processing"
                           /\ pub'[q].id \notin pub'[q].batch
                           /\ pub'[q].attempts <= outbox'[pub'[q].id].attempts
    BY DEF HandsHold
  <2>1. \A e \in InHand(q)' : e \in InHand(q) /\ e # f  BY <1>7, <1>8
  <2>2. \A e \in InHand(q)' : outbox'[e] = outbox[e]  BY <1>6, <2>1, HandTypes
  <2>3. CASE q = p  BY <1>2, <2>1, <2>2, <2>3 DEF HandsHold
  <2>4. CASE q # p
    <3>1. pub'[q] = pub[q]  BY <1>2, <2>4 DEF PublishersKeep
    <3>2. pub[q].pc \in {"publishing", "marking"} =>
            outbox'[pub[q].id] = outbox[pub[q].id]
      BY <1>6, <1>8, <2>4, HandTypes DEF InHand
    <3> QED  BY <2>1, <2>2, <3>1, <3>2 DEF HandsHold
  <2> QED  BY <2>3, <2>4
<1>11. ClaimsPaid'
  <2> SUFFICES ASSUME NEW e \in EventId, emitted[e] = 0
               PROVE  /\ outbox'[e].attempts <= faults + 1
                      /\ outbox'[e].attempts <= faults \/ Trying(e)'
                      /\ outbox'[e].status = "failed" => faults >= OutboxMaxAttempts
    BY <1>2 DEF ClaimsPaid
  <2>1. /\ faults \in Nat /\ outbox[e].attempts \in Nat
        /\ outbox[e].attempts <= faults + 1
        /\ outbox[e].attempts <= faults \/ Trying(e)
        /\ outbox[e].status = "failed" => faults >= OutboxMaxAttempts
    BY HandTypes DEF ClaimsPaid
  <2>2. Trying(e) => Trying(e)'  BY <1>2 DEF Trying, PublishersKeep
  <2>3. CASE e # f  BY <1>6, <2>1, <2>2, <2>3
  <2>4. CASE e = f
    <3>1. ~Trying(f)  BY <1>2, <1>4, <1>8 DEF Trying, InHand
    <3>2. outbox[f].attempts <= faults  BY <2>1, <2>4, <3>1
    <3>3. target = "failed" => faults >= OutboxMaxAttempts
      <4>1. pub[p].attempts \in Nat /\ OutboxMaxAttempts \in Nat
        BY HandTypes, PublisherAssumption
      <4> QED  BY <1>1, <1>4, <2>1, <2>4, <3>2, <4>1
    <3> QED  BY <1>5, <1>6, <2>1, <2>4, <3>2, <3>3
  <2> QED  BY <2>3, <2>4
<1> QED  BY <1>1, <1>4, <1>5, <1>6, <1>8, <1>9, <1>10, <1>11

\* What a publisher had claimed is paid for by its crash.
LEMMA CrashingKeepsClaims ==
  ASSUME StoreTypeOK, PublisherTypeOK, Claims, NEW p \in Publisher, PublisherCrash(p)
  PROVE  Claims'
<1> USE DEF Claims
<1>1. /\ PublishersKeep(p) /\ pub'[p] = IdlePublisher
      /\ outbox' = outbox /\ emitted' = emitted /\ faults' = faults + 1
  BY CrashEffect
<1>2. pub'[p].pc = "idle" /\ pub'[p].batch = {}  BY <1>1 DEF IdlePublisher
<1>3. InHand(p)' = {} /\ \A q \in Publisher : q # p => InHand(q)' = InHand(q)
  BY <1>1, <1>2 DEF InHand, PublishersKeep
<1>4. Exclusive'  BY <1>3 DEF Exclusive
<1>5. HandsHold'  BY <1>1, <1>2, <1>3 DEF HandsHold, PublishersKeep
<1>6. ClaimsPaid'
  <2>1. \A e \in EventId : outbox[e].attempts \in Nat  BY HandTypes
  <2>2. faults \in Nat /\ OutboxMaxAttempts \in Nat  BY HandTypes, PublisherAssumption
  <2> QED  BY <1>1, <2>1, <2>2 DEF ClaimsPaid
<1> QED  BY <1>4, <1>5, <1>6

LEMMA PublishingKeepsClaims ==
  ASSUME StoreTypeOK, PublisherTypeOK, Claims, ClaimTimeout > 0, NEW p \in Publisher,
         PublisherStep(p) \/ PublisherFault(p)
  PROVE  Claims'
BY ClaimingKeepsClaims, LoadingKeepsClaims, TryingKeepsClaims, MarkingKeepsClaims,
   CrashingKeepsClaims DEF PublisherStep, PublisherFault

LEMMA InitClaimed ==
  ASSUME \A e \in EventId : outbox[e].status = "absent" /\ outbox[e].attempts = 0,
         \A p \in Publisher : pub[p].pc = "idle" /\ pub[p].batch = {}, faults = 0
  PROVE  Claims
BY DEF Claims, Exclusive, HandsHold, ClaimsPaid, InHand
=============================================================================
