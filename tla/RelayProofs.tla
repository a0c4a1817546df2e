------------------------------ MODULE RelayProofs ------------------------------
(***************************************************************************)
(* Theorems about several publishers on one outbox table, for any number   *)
(* of publishers, rows, ticks and failures.                                *)
(***************************************************************************)
EXTENDS OutboxRelay, PublisherProofs

-----------------------------------------------------------------------------
(***************************************************************************)
(* What makes the counts add up.  Every claim of a row is a licence to     *)
(* send one message; a publisher holds the licence until it has tried.     *)
(***************************************************************************)
Licence(e) ==
  {p \in Publisher :
     e \in pub[p].batch \/ (pub[p].pc = "publishing" /\ pub[p].id = e)}

RowsTell ==
  \A e \in EventId :
    /\ outbox[e].status = "absent" => outbox[e].attempts = 0
    /\ outbox[e].delay > ClockLead =>
         outbox[e].attempts = 0 /\ outbox[e].status \in {"absent", "pending"}
    /\ outbox[e].status = "failed" => outbox[e].attempts >= OutboxMaxAttempts
    /\ outbox[e].status = "published" => emitted[e] > 0
    /\ emitted[e] + Cardinality(Licence(e)) <= outbox[e].attempts

HandsTell ==
  \A p \in Publisher :
    /\ pub[p].pc = "idle" => pub[p].batch = {}
    /\ pub[p].pc \in {"publishing", "marking"} => pub[p].id \notin pub[p].batch
    /\ \A e \in InHand(p) : outbox[e].attempts > 0
    /\ pub[p].pc \in {"publishing", "marking"} =>
         pub[p].attempts <= outbox[pub[p].id].attempts
    /\ pub[p].pc = "marking" /\ pub[p].ok => emitted[pub[p].id] > 0

-----------------------------------------------------------------------------
(* Types. *)

LEMMA InitType == Init => TypeOK
<1> SUFFICES ASSUME Init PROVE TypeOK  OBVIOUS
<1>1. NoEvent \in OutboxEvent  BY StoreAssumption DEF NoEvent, OutboxEvent, EventType
<1>2. IdlePublisher \in PublisherState
  BY StoreAssumption DEF IdlePublisher, PublisherState
<1>3. StoreTypeOK
  BY <1>1, StoreAssumption DEF Init, StoreInit, StoreTypeOK
<1> QED
  BY <1>2, <1>3 DEF Init, PublisherInit, PublisherTypeOK, TypeOK

LEMMA StepType == ASSUME TypeOK, [Next]_relayVars PROVE TypeOK'
<1>1. CASE Insert
  <2>1. PICK n \in Notification, t \in Kinds, d \in 0..MaxDelay : AddOutboxEvent(n, t, d)
    BY <1>1 DEF Insert
  <2>2. t \in EventType /\ d \in Nat  BY RelayAssumption
  <2>3. outbox' \in [EventId -> OutboxEvent]  BY <2>1, <2>2, AddedRow DEF TypeOK
  <2> QED  BY <1>1, <2>3 DEF Insert, TypeOK, StoreTypeOK, PublisherTypeOK
<1>2. CASE \E p \in Publisher : Publish(p)
  BY <1>2, PublisherKeepsType DEF Publish, TypeOK
<1>3. CASE Tick
  <2>1. outbox' \in [EventId -> OutboxEvent]  BY <1>3, TickedRow DEF Tick, TypeOK
  <2>2. late' \in BOOLEAN  BY <1>3, Zenon DEF Tick, TypeOK
  <2> QED  BY <1>3, <2>1, <2>2 DEF Tick, TypeOK, StoreTypeOK, PublisherTypeOK
<1>4. CASE UNCHANGED relayVars
  BY <1>4 DEF relayVars, pubVars, storeVars, TypeOK, StoreTypeOK, PublisherTypeOK
<1> QED  BY <1>1, <1>2, <1>3, <1>4 DEF Next

\* Every variable keeps its type, whatever the publishers, the failures and
\* the clock do.
THEOREM TypeCorrect == Spec => []TypeOK
<1> QED  BY InitType, StepType, PTL DEF Spec

-----------------------------------------------------------------------------
(* Counting. *)

\* A licence is used or lost, never shared: its number bounds the messages.
LEMMA Licences ==
  ASSUME NEW e
  PROVE  /\ IsFiniteSet(Licence(e)) /\ Cardinality(Licence(e)) \in Nat
         /\ \A S \in SUBSET Licence(e) : Cardinality(S) <= Cardinality(Licence(e))
         /\ \A p \in Licence(e) :
              Cardinality(Licence(e) \ {p}) = Cardinality(Licence(e)) - 1
         /\ \A p \in Publisher :
              Cardinality(Licence(e) \cup {p}) <= Cardinality(Licence(e)) + 1
<1>1. IsFiniteSet(Licence(e))
  BY FS_Subset, PublisherAssumption DEF Licence
<1> QED  BY <1>1, FS_Subset, FS_CardinalityType, FS_AddElement, FS_RemoveElement

LEMMA InitCounts == Init => RowsTell /\ HandsTell
<1> SUFFICES ASSUME Init PROVE RowsTell /\ HandsTell  OBVIOUS
<1>1. \A e \in EventId :
        /\ outbox[e].status = "absent" /\ outbox[e].attempts = 0 /\ outbox[e].delay = 0
        /\ emitted[e] = 0
  BY DEF Init, StoreInit, NoEvent
<1>2. \A p \in Publisher : pub[p].pc = "idle" /\ pub[p].batch = {}
  BY DEF Init, PublisherInit, IdlePublisher
<1>3. \A e \in EventId : Licence(e) = {}  BY <1>2 DEF Licence
<1>4. Cardinality({}) = 0  BY FS_EmptySet
<1>5. RowsTell
  BY <1>1, <1>3, <1>4, PublisherAssumption DEF RowsTell
<1>6. HandsTell  BY <1>2 DEF HandsTell, InHand
<1> QED  BY <1>5, <1>6

LEMMA InsertCounts ==
  ASSUME TypeOK, RowsTell, HandsTell, Insert PROVE RowsTell' /\ HandsTell'
<1>1. PICK n \in Notification, t \in Kinds, d \in 0..MaxDelay : AddOutboxEvent(n, t, d)
  BY DEF Insert
<1> DEFINE f == FreshEvent
<1>2. t \in EventType /\ d \in Nat  BY RelayAssumption
<1>3. /\ f \in EventId /\ outbox[f].status = "absent" /\ outbox'[f] = NewEvent(n, t, d)
      /\ \A e \in EventId : e # f => outbox'[e] = outbox[e]
  BY <1>1, <1>2, AddedRow DEF TypeOK, Exists
<1>4. /\ outbox'[f].attempts = 0 /\ outbox'[f].status = "pending" /\ outbox[f].attempts = 0
  BY <1>3 DEF NewEvent, RowsTell
<1>5. emitted' = emitted /\ pub' = pub  BY DEF Insert
<1>6. \A e \in EventId : Licence(e)' = Licence(e)  BY <1>5 DEF Licence
<1>7. RowsTell'
  BY <1>3, <1>4, <1>5, <1>6 DEF RowsTell
<1>8. HandsTell'
  <2>1. \A p \in Publisher : f \notin InHand(p)  BY <1>3, <1>4 DEF HandsTell
  <2>2. \A p \in Publisher : InHand(p)' = InHand(p)  BY <1>5 DEF InHand
  <2>3. \A p \in Publisher : pub[p].pc \in {"publishing", "marking"} => pub[p].id \in InHand(p)
    BY DEF InHand
  <2>4. \A p \in Publisher : InHand(p) \subseteq EventId
    BY DEF InHand, TypeOK, PublisherTypeOK, PublisherState
  <2> QED  BY <1>3, <1>5, <2>1, <2>2, <2>3, <2>4 DEF HandsTell
<1> QED  BY <1>7, <1>8

LEMMA TickCounts ==
  ASSUME TypeOK, RowsTell, HandsTell, Tick PROVE RowsTell' /\ HandsTell'
<1>1. emitted' = emitted /\ pub' = pub  BY DEF Tick
<1>2. ASSUME NEW e \in EventId
      PROVE  /\ outbox'[e].status = outbox[e].status
             /\ outbox'[e].attempts = outbox[e].attempts
             /\ outbox'[e].delay > ClockLead => outbox[e].delay > ClockLead
  <2>1. outbox[e].delay \in Nat  BY DEF TypeOK, StoreTypeOK, OutboxEvent
  <2>2. CountDown(outbox[e].delay) \in Nat /\ CountDown(outbox[e].delay) <= outbox[e].delay
    BY <2>1, CountDownType
  <2>3. ClockLead \in Nat  BY PublisherAssumption
  <2> QED  BY <2>1, <2>2, <2>3, TickedRow DEF Tick, TypeOK
<1>3. \A e \in EventId : Licence(e)' = Licence(e)  BY <1>1 DEF Licence
<1>4. RowsTell'  BY <1>1, <1>2, <1>3 DEF RowsTell
<1>5. \A p \in Publisher : InHand(p)' = InHand(p)  BY <1>1 DEF InHand
<1>6. \A p \in Publisher : InHand(p) \subseteq EventId /\ pub[p].id \in EventId
  BY DEF InHand, TypeOK, PublisherTypeOK, PublisherState
<1>7. HandsTell'  BY <1>1, <1>2, <1>5, <1>6 DEF HandsTell
<1> QED  BY <1>4, <1>7

\* A claim adds one licence, and counts one attempt for it.
LEMMA ClaimCounts ==
  ASSUME TypeOK, RowsTell, HandsTell, NEW p \in Publisher, ClaimPending(p)
  PROVE  RowsTell' /\ HandsTell'
<1>1. PICK B \in SUBSET Claimable :
        /\ pub'[p].pc = "batch" /\ pub'[p].batch = B
        /\ \A e \in EventId : outbox'[e] = IF e \in B THEN Claimed(e) ELSE outbox[e]
  BY ClaimEffect DEF TypeOK
<1>2. /\ pub[p].pc = "idle" /\ PublishersKeep(p)
      /\ emitted' = emitted /\ faults' = faults
  BY ClaimEffect DEF TypeOK
<1>3. B \subseteq EventId  BY DEF Claimable
<1>4. pub[p].batch = {}  BY <1>2 DEF HandsTell
<1>5. ASSUME NEW e \in EventId
      PROVE  Licence(e)' = IF e \in B THEN Licence(e) \cup {p} ELSE Licence(e)
  BY <1>1, <1>2, <1>4 DEF Licence, PublishersKeep
<1>6. ASSUME NEW e \in EventId
      PROVE  outbox'[e].attempts = IF e \in B THEN outbox[e].attempts + 1
                                             ELSE outbox[e].attempts
  BY <1>1, ClaimedRow DEF TypeOK
<1>7. RowsTell'
  <2> SUFFICES ASSUME NEW e \in EventId
               PROVE  /\ outbox'[e].status = "absent" => outbox'[e].attempts = 0
                      /\ outbox'[e].delay > ClockLead =>
                           /\ outbox'[e].attempts = 0
                           /\ outbox'[e].status \in {"absent", "pending"}
                      /\ outbox'[e].status = "failed" =>
                           outbox'[e].attempts >= OutboxMaxAttempts
                      /\ outbox'[e].status = "published" => emitted'[e] > 0
                      /\ emitted'[e] + Cardinality(Licence(e)') <= outbox'[e].attempts
    BY DEF RowsTell
  <2>1. CASE e \notin B
    BY <1>1, <1>2, <1>5, <2>1 DEF RowsTell
  <2>2. CASE e \in B
    <3>1. /\ outbox'[e].status = "processing" /\ outbox'[e].delay = outbox[e].delay
          /\ outbox'[e].attempts = outbox[e].attempts + 1
      BY <1>1, <2>2, ClaimedRow DEF TypeOK
    <3>2. ~(outbox[e].delay > ClockLead)
      <4>1. e \in Claimable  BY <2>2
      <4>2. ClockLead \in Nat /\ outbox[e].delay \in Nat
        BY HandTypes, PublisherAssumption DEF TypeOK
      <4> QED  BY <4>1, <4>2 DEF Claimable, RowsTell
    <3>3. emitted[e] + Cardinality(Licence(e)) <= outbox[e].attempts  BY DEF RowsTell
    <3>4. Cardinality(Licence(e) \cup {p}) <= Cardinality(Licence(e)) + 1  BY Licences
    <3>5. Cardinality(Licence(e)) \in Nat /\ Cardinality(Licence(e) \cup {p}) \in Nat
      BY Licences, FS_AddElement, FS_CardinalityType
    <3>6. emitted[e] + Cardinality(Licence(e) \cup {p}) <= outbox[e].attempts + 1
      BY <3>3, <3>4, <3>5, HandTypes DEF TypeOK
    <3>7. Licence(e)' = Licence(e) \cup {p}  BY <1>5, <2>2
    <3> QED  BY <1>2, <3>1, <3>2, <3>6, <3>7
  <2> QED  BY <2>1, <2>2
<1>8. HandsTell'
  <2> SUFFICES ASSUME NEW q \in Publisher
               PROVE  /\ pub'[q].pc = "idle" => pub'[q].batch = {}
                      /\ pub'[q].pc \in {"publishing", "marking"} =>
                           pub'[q].id \notin pub'[q].batch
                      /\ \A e \in InHand(q)' : outbox'[e].attempts > 0
                      /\ pub'[q].pc \in {"publishing", "marking"} =>
                           pub'[q].attempts <= outbox'[pub'[q].id].attempts
                      /\ pub'[q].pc = "marking" /\ pub'[q].ok => emitted'[pub'[q].id] > 0
    BY DEF HandsTell
  <2>1. \A e \in EventId : outbox'[e].attempts >= outbox[e].attempts
    BY <1>6, HandTypes DEF TypeOK
  <2>2. \A e \in B : outbox'[e].attempts > 0  BY <1>3, <1>6, HandTypes DEF TypeOK
  <2>3. CASE q = p
    <3>1. InHand(q)' = B  BY <1>1, <2>3 DEF InHand
    <3> QED  BY <1>1, <2>2, <2>3, <3>1
  <2>4. CASE q # p
    <3>1. pub'[q] = pub[q]  BY <1>2, <2>4 DEF PublishersKeep
    <3>2. InHand(q)' = InHand(q)  BY <3>1 DEF InHand
    <3>3. \A e \in InHand(q) : outbox'[e].attempts > 0
      BY <1>6, HandTypes DEF TypeOK, HandsTell
    <3>4. pub[q].pc \in {"publishing", "marking"} =>
            pub[q].attempts <= outbox'[pub[q].id].attempts
      BY <1>6, HandTypes DEF TypeOK, HandsTell
    <3> QED  BY <1>2, <3>1, <3>2, <3>3, <3>4 DEF HandsTell
  <2> QED  BY <2>3, <2>4
<1> QED  BY <1>7, <1>8

\* Rows that keep their columns and lose no message keep what they tell.
LEMMA SameRowsCount ==
  ASSUME TypeOK, RowsTell, outbox' = outbox,
         \A e \in EventId :
           /\ emitted'[e] >= emitted[e]
           /\ emitted'[e] + Cardinality(Licence(e)') <= emitted[e] + Cardinality(Licence(e)),
         \A e \in EventId : emitted'[e] \in Nat /\ Cardinality(Licence(e)') \in Nat
  PROVE  RowsTell'
<1> SUFFICES ASSUME NEW e \in EventId
             PROVE  /\ outbox[e].status = "absent" => outbox[e].attempts = 0
                    /\ outbox[e].delay > ClockLead =>
                         outbox[e].attempts = 0 /\ outbox[e].status \in {"absent", "pending"}
                    /\ outbox[e].status = "failed" => outbox[e].attempts >= OutboxMaxAttempts
                    /\ outbox[e].status = "published" => emitted'[e] > 0
                    /\ emitted'[e] + Cardinality(Licence(e)') <= outbox[e].attempts
  BY DEF RowsTell
<1>1. Cardinality(Licence(e)) \in Nat  BY Licences
<1>2. emitted'[e] + Cardinality(Licence(e)') <= outbox[e].attempts
  BY <1>1, HandTypes DEF TypeOK, RowsTell
<1>3. outbox[e].status = "published" => emitted'[e] > 0  BY HandTypes DEF TypeOK, RowsTell
<1> QED  BY <1>2, <1>3 DEF RowsTell

LEMMA LoadCounts ==
  ASSUME TypeOK, RowsTell, HandsTell, NEW p \in Publisher, LoadEvent(p)
  PROVE  RowsTell' /\ HandsTell'
<1>1. PICK f \in pub[p].batch :
        pub'[p] = [pc |-> "publishing", batch |-> pub[p].batch \ {f}, id |-> f,
                   status |-> outbox[f].status, attempts |-> outbox[f].attempts,
                   locked |-> outbox[f].locked, ok |-> FALSE]
  BY LoadEffect DEF TypeOK
<1>2. /\ pub[p].pc = "batch" /\ PublishersKeep(p)
      /\ outbox' = outbox /\ emitted' = emitted /\ faults' = faults
  BY LoadEffect DEF TypeOK
<1>3. /\ pub'[p].pc = "publishing" /\ pub'[p].batch = pub[p].batch \ {f} /\ pub'[p].id = f
      /\ pub'[p].attempts = outbox[f].attempts /\ f \in EventId
  BY <1>1, HandTypes DEF TypeOK
<1>4. \A e \in EventId : Licence(e)' = Licence(e)
  BY <1>2, <1>3 DEF Licence, PublishersKeep
<1>5. RowsTell'  BY <1>2, <1>4 DEF RowsTell
<1>6. \A q \in Publisher : InHand(q)' = InHand(q)
  BY <1>2, <1>3 DEF InHand, PublishersKeep
<1>7. HandsTell'
  <2> SUFFICES ASSUME NEW q \in Publisher
               PROVE  /\ pub'[q].pc = "idle" => pub'[q].batch = {}
                      /\ pub'[q].pc \in {"publishing", "marking"} =>
                           pub'[q].id \notin pub'[q].batch
                      /\ pub'[q].pc \in {"publishing", "marking"} =>
                           pub'[q].attempts <= outbox'[pub'[q].id].attempts
                      /\ pub'[q].pc = "marking" /\ pub'[q].ok => emitted'[pub'[q].id] > 0
    BY <1>2, <1>6 DEF HandsTell
  <2>1. CASE q = p  BY <1>2, <1>3, <2>1, HandTypes DEF TypeOK
  <2>2. CASE q # p
    <3>1. pub'[q] = pub[q]  BY <1>2, <2>2 DEF PublishersKeep
    <3> QED  BY <1>2, <3>1 DEF HandsTell
  <2> QED  BY <2>1, <2>2
<1> QED  BY <1>5, <1>7

\* A licence is spent on the message it allows.
LEMMA TryCounts ==
  ASSUME TypeOK, RowsTell, HandsTell, NEW p \in Publisher,
         PublishSucceeds(p) \/ PublishFails(p)
  PROVE  RowsTell' /\ HandsTell'
<1> DEFINE f == pub[p].id
<1>1. /\ pub[p].pc = "publishing" /\ pub'[p].pc = "marking" /\ PublishersKeep(p)
      /\ outbox' = outbox
      /\ pub'[p].batch = pub[p].batch /\ pub'[p].id = f
      /\ pub'[p].attempts = pub[p].attempts
      /\ \A e \in EventId : e # f => emitted'[e] = emitted[e]
      /\ emitted'[f] \in {emitted[f], emitted[f] + 1}
      /\ pub'[p].ok => emitted'[f] = emitted[f] + 1
  BY TryEffect DEF TypeOK
<1>2. f \in EventId /\ f \notin pub[p].batch  BY <1>1, HandTypes DEF TypeOK, HandsTell
<1>3. p \in Licence(f)  BY <1>1 DEF Licence
<1>4. Licence(f)' = Licence(f) \ {p}
  BY <1>1, <1>2 DEF Licence, PublishersKeep
<1>5. ASSUME NEW e \in EventId, e # f PROVE Licence(e)' = Licence(e)
  BY <1>1, <1>5 DEF Licence, PublishersKeep
<1>6. Cardinality(Licence(f)') = Cardinality(Licence(f)) - 1 /\ Cardinality(Licence(f)') \in Nat
  <2>1. Cardinality(Licence(f) \ {p}) = Cardinality(Licence(f)) - 1  BY <1>3, Licences
  <2>2. Cardinality(Licence(f) \ {p}) \in Nat
    BY Licences, FS_RemoveElement, FS_CardinalityType
  <2> QED  BY <1>4, <2>1, <2>2
<1>7. ASSUME NEW e \in EventId
      PROVE  /\ emitted'[e] >= emitted[e] /\ emitted'[e] \in Nat
             /\ Cardinality(Licence(e)') \in Nat
             /\ emitted'[e] + Cardinality(Licence(e)') <= emitted[e] + Cardinality(Licence(e))
  <2>1. Cardinality(Licence(e)) \in Nat  BY Licences
  <2>2. CASE e = f  BY <1>1, <1>6, <2>1, <2>2, HandTypes DEF TypeOK
  <2>3. CASE e # f  BY <1>1, <1>5, <2>1, <2>3, HandTypes DEF TypeOK
  <2> QED  BY <2>2, <2>3
<1>8. RowsTell'  BY <1>1, <1>7, SameRowsCount
<1>9. \A q \in Publisher : InHand(q)' = InHand(q)
  BY <1>1 DEF InHand, PublishersKeep
<1>10. HandsTell'
  <2> SUFFICES ASSUME NEW q \in Publisher
               PROVE  /\ pub'[q].pc = "idle" => pub'[q].batch = {}
                      /\ pub'[q].pc \in {"publishing", "marking"} =>
                           pub'[q].id \notin pub'[q].batch
                      /\ pub'[q].pc \in {"publishing", "marking"} =>
                           pub'[q].attempts <= outbox'[pub'[q].id].attempts
                      /\ pub'[q].pc = "marking" /\ pub'[q].ok => emitted'[pub'[q].id] > 0
    BY <1>1, <1>9 DEF HandsTell
  <2>1. CASE q = p
    <3>1. pub'[p].ok => emitted'[f] > 0  BY <1>1, <1>2, HandTypes DEF TypeOK
    <3> QED  BY <1>1, <1>2, <2>1, <3>1 DEF HandsTell
  <2>2. CASE q # p
    <3>1. pub'[q] = pub[q]  BY <1>1, <2>2 DEF PublishersKeep
    <3>2. pub[q].pc = "marking" /\ pub[q].ok => emitted'[pub[q].id] > 0
      BY <1>7, HandTypes DEF TypeOK, HandsTell
    <3> QED  BY <1>1, <3>1, <3>2 DEF HandsTell
  <2> QED  BY <2>1, <2>2
<1> QED  BY <1>8, <1>10

\* Recording an outcome spends no licence, and what it records is true of the
\* row: its own attempts have only grown since they were read.
LEMMA MarkCounts ==
  ASSUME TypeOK, RowsTell, HandsTell, NEW p \in Publisher,
         MarkPublished(p) \/ MarkPublishFailed(p)
  PROVE  RowsTell' /\ HandsTell'
<1> DEFINE f == pub[p].id
<1>1. PICK target \in {"published", "failed", "pending"} :
        /\ WriteRow(p, target)
        /\ target = "published" <=> pub[p].ok
        /\ target = "failed" => pub[p].attempts >= OutboxMaxAttempts
  BY MarkEffect DEF TypeOK
<1>2. /\ pub[p].pc = "marking" /\ PublishersKeep(p) /\ emitted' = emitted
      /\ pub'[p].batch = pub[p].batch
      /\ pub'[p].pc = IF pub[p].batch = {} THEN "idle" ELSE "batch"
  BY MarkEffect DEF TypeOK
<1>3. \A e \in EventId :
        /\ outbox'[e].delay = outbox[e].delay /\ outbox'[e].attempts = outbox[e].attempts
        /\ outbox'[e].status \in {outbox[e].status, target}
        /\ e # f => outbox'[e] = outbox[e]
  <2>1. target \in OutboxStatus  BY DEF OutboxStatus
  <2> QED  BY <1>1, <2>1, WrittenRow DEF TypeOK
<1>4. f \in EventId /\ f \in InHand(p)  BY <1>2, HandTypes DEF TypeOK, InHand
<1>5. /\ outbox[f].attempts > 0 /\ pub[p].attempts <= outbox[f].attempts
      /\ pub[p].ok => emitted[f] > 0
  BY <1>2, <1>4 DEF HandsTell
<1>6. \A e \in EventId : Licence(e)' = Licence(e)
  BY <1>2, HandTypes DEF TypeOK, Licence, PublishersKeep
<1>7. RowsTell'
  <2> SUFFICES ASSUME NEW e \in EventId
               PROVE  /\ outbox'[e].status = "absent" => outbox'[e].attempts = 0
                      /\ outbox'[e].delay > ClockLead =>
                           /\ outbox'[e].attempts = 0
                           /\ outbox'[e].status \in {"absent", "pending"}
                      /\ outbox'[e].status = "failed" =>
                           outbox'[e].attempts >= OutboxMaxAttempts
                      /\ outbox'[e].status = "published" => emitted[e] > 0
                      /\ emitted[e] + Cardinality(Licence(e)) <= outbox'[e].attempts
    BY <1>2, <1>6 DEF RowsTell
  <2>1. CASE e # f  BY <1>3, <2>1 DEF RowsTell
  <2>2. CASE e = f
    <3>1. outbox[f].attempts # 0  BY <1>4, <1>5, HandTypes DEF TypeOK
    <3>2. outbox'[f].delay > ClockLead => FALSE  BY <1>3, <1>4, <3>1 DEF RowsTell
    <3>3. target = "failed" => outbox[f].attempts >= OutboxMaxAttempts
      BY <1>1, <1>4, <1>5, HandTypes, PublisherAssumption DEF TypeOK
    <3> QED  BY <1>1, <1>3, <1>4, <1>5, <2>2, <3>1, <3>2, <3>3 DEF RowsTell
  <2> QED  BY <2>1, <2>2
<1>8. HandsTell'
  <2> SUFFICES ASSUME NEW q \in Publisher
               PROVE  /\ pub'[q].pc = "idle" => pub'[q].batch = {}
                      /\ pub'[q].pc \in {"publishing", "marking"} =>
                           pub'[q].id \notin pub'[q].batch
                      /\ \A e \in InHand(q)' : outbox'[e].attempts > 0
                      /\ pub'[q].pc \in {"publishing", "marking"} =>
                           pub'[q].attempts <= outbox'[pub'[q].id].attempts
                      /\ pub'[q].pc = "marking" /\ pub'[q].ok => emitted[pub'[q].id] > 0
    BY <1>2 DEF HandsTell
  <2>1. CASE q = p
    <3>1. InHand(p)' \subseteq InHand(p)  BY <1>2 DEF InHand
    <3> QED  BY <1>2, <1>3, <2>1, <3>1, HandTypes DEF TypeOK, HandsTell
  <2>2. CASE q # p
    <3>1. pub'[q] = pub[q]  BY <1>2, <2>2 DEF PublishersKeep
    <3>2. InHand(q)' = InHand(q)  BY <3>1 DEF InHand
    <3> QED  BY <1>3, <3>1, <3>2, HandTypes DEF TypeOK, HandsTell
  <2> QED  BY <2>1, <2>2
<1> QED  BY <1>7, <1>8

LEMMA CrashCounts ==
  ASSUME TypeOK, RowsTell, HandsTell, NEW p \in Publisher, PublisherCrash(p)
  PROVE  RowsTell' /\ HandsTell'
<1>1. PublishersKeep(p) /\ pub'[p] = IdlePublisher /\ outbox' = outbox /\ emitted' = emitted
  BY CrashEffect DEF TypeOK
<1>2. pub'[p].pc = "idle" /\ pub'[p].batch = {}  BY <1>1 DEF IdlePublisher
<1>3. \A e \in EventId : Licence(e)' \subseteq Licence(e)
  BY <1>1, <1>2 DEF Licence, PublishersKeep
<1>4. ASSUME NEW e \in EventId
      PROVE  /\ Cardinality(Licence(e)') \in Nat
             /\ Cardinality(Licence(e)') <= Cardinality(Licence(e))
  BY <1>3, Licences, FS_Subset, FS_CardinalityType
<1>5. RowsTell'
  <2>1. \A e \in EventId :
          emitted[e] + Cardinality(Licence(e)') <= emitted[e] + Cardinality(Licence(e))
    BY <1>4, Licences, HandTypes DEF TypeOK
  <2>2. \A e \in EventId : emitted[e] >= emitted[e] /\ emitted[e] \in Nat  BY HandTypes DEF TypeOK
  <2> QED  BY <1>1, <1>4, <2>1, <2>2, SameRowsCount
<1>6. HandsTell'
  BY <1>1, <1>2 DEF HandsTell, PublishersKeep, InHand
<1> QED  BY <1>5, <1>6

LEMMA StepCounts ==
  ASSUME TypeOK, RowsTell, HandsTell, [Next]_relayVars PROVE RowsTell' /\ HandsTell'
<1>1. CASE UNCHANGED relayVars
  BY <1>1 DEF relayVars, pubVars, storeVars, RowsTell, HandsTell, Licence, InHand
<1>2. ASSUME NEW p \in Publisher, Publish(p) PROVE RowsTell' /\ HandsTell'
  BY <1>2, ClaimCounts, LoadCounts, TryCounts, MarkCounts, CrashCounts
     DEF Publish, PublisherStep, PublisherFault
<1> QED  BY <1>1, <1>2, InsertCounts, TickCounts DEF Next

LEMMA CountsHold == Spec => [](TypeOK /\ RowsTell /\ HandsTell)
BY InitType, StepType, InitCounts, StepCounts, PTL DEF Spec

\* A row that says published has had its message accepted by the broker, even
\* when the publisher recording it has lost its claim.
THEOREM PublishedIsTrue == Spec => []PublishedWasEmitted
<1>1. RowsTell => PublishedWasEmitted  BY DEF RowsTell, PublishedWasEmitted
<1> QED  BY <1>1, CountsHold, PTL

\* No claim produces more than one message, no row is given up before
\* outbox_max_attempts claims, none is claimed before it is due.
THEOREM ClaimsBoundMessages == Spec => []AttemptsAccountForMessages
<1>1. TypeOK /\ RowsTell => AttemptsAccountForMessages
  <2> SUFFICES ASSUME TypeOK, RowsTell, NEW e \in EventId
               PROVE  emitted[e] <= outbox[e].attempts
    BY DEF RowsTell, AttemptsAccountForMessages
  <2> QED  BY Licences, HandTypes DEF TypeOK, RowsTell
<1> QED  BY <1>1, CountsHold, PTL

-----------------------------------------------------------------------------
(***************************************************************************)
(* While no claim times out in a publisher's hand, the claims stay paid    *)
(* for (PublisherProofs), and the message that the holder of a claim may   *)
(* have sent is the only one no failure paid for.                          *)
(***************************************************************************)
Sent(e) ==
  \/ outbox[e].status = "published"
  \/ \E p \in Publisher : pub[p].pc = "marking" /\ pub[p].ok /\ pub[p].id = e

FaultsPay ==
  \A e \in EventId : emitted[e] <= 1 + faults /\ (Sent(e) \/ emitted[e] <= faults)

ClaimsHold == ~late => Claims /\ FaultsPay

LEMMA InitClaims == Init => ClaimsHold
<1> SUFFICES ASSUME Init PROVE Claims /\ FaultsPay  BY DEF ClaimsHold
<1>1. \A p \in Publisher : pub[p].pc = "idle" /\ pub[p].batch = {}
  BY DEF Init, PublisherInit, IdlePublisher
<1>2. \A e \in EventId : outbox[e].status = "absent" /\ outbox[e].attempts = 0
  BY DEF Init, StoreInit, NoEvent
<1>3. faults = 0 /\ \A e \in EventId : emitted[e] = 0  BY DEF Init, StoreInit
<1> QED  BY <1>1, <1>2, <1>3, InitClaimed DEF FaultsPay

LEMMA InsertClaims ==
  ASSUME TypeOK, RowsTell, HandsTell, ClaimsHold, Insert PROVE ClaimsHold'
<1> SUFFICES ASSUME ~late PROVE Claims' /\ FaultsPay'
  BY DEF ClaimsHold, Insert
<1>1. PICK n \in Notification, t \in Kinds, d \in 0..MaxDelay : AddOutboxEvent(n, t, d)
  BY DEF Insert
<1>2. t \in EventType /\ d \in Nat  BY RelayAssumption
<1>3. /\ FreshEvent \in EventId /\ ~Exists(FreshEvent)
      /\ outbox'[FreshEvent] = NewEvent(n, t, d)
      /\ \A e \in EventId : e # FreshEvent => outbox'[e] = outbox[e]
  BY <1>1, <1>2, AddedRow DEF TypeOK
<1>4. emitted' = emitted /\ pub' = pub /\ faults' = faults  BY DEF Insert
<1>5. Claims /\ FaultsPay  BY DEF ClaimsHold
<1>6. faults' \in Nat /\ faults' >= faults  BY <1>4, HandTypes DEF TypeOK
<1>7. outbox'[FreshEvent].attempts = 0 /\ outbox'[FreshEvent].status = "pending"
  BY <1>3 DEF NewEvent
<1>8. Claims'  BY <1>3, <1>4, <1>5, <1>6, <1>7, InsertingKeepsClaims DEF TypeOK
<1>9. \A e \in EventId : Sent(e) => Sent(e)'
  BY <1>3, <1>4 DEF Sent, Exists
<1>10. FaultsPay'  BY <1>4, <1>5, <1>9 DEF FaultsPay
<1> QED  BY <1>8, <1>10

\* A tick that would time out a claim in hand makes the behaviour late.
LEMMA TickClaims == ASSUME TypeOK, ClaimsHold, Tick PROVE ClaimsHold'
<1> SUFFICES ASSUME ~late' PROVE Claims' /\ FaultsPay'
  BY DEF ClaimsHold
<1>1. ~late /\ ~ \E p \in Publisher : \E e \in InHand(p) : outbox[e].lease <= 1
  BY DEF Tick
<1>2. Claims /\ FaultsPay  BY <1>1 DEF ClaimsHold
<1>3. emitted' = emitted /\ pub' = pub /\ faults' = faults  BY DEF Tick
<1>4. \A p \in Publisher : \A e \in InHand(p) : outbox[e].lease > 1
  BY <1>1, HandTypes DEF TypeOK
<1>5. Claims'  BY <1>2, <1>3, <1>4, TickingKeepsClaims DEF Tick, TypeOK
<1>6. \A e \in EventId : outbox'[e].status = outbox[e].status
  BY TickedRow DEF Tick, TypeOK
<1>7. \A e \in EventId : Sent(e) => Sent(e)'  BY <1>3, <1>6 DEF Sent
<1>8. FaultsPay'  BY <1>2, <1>3, <1>7 DEF FaultsPay
<1> QED  BY <1>5, <1>8

\* A claim takes no row whose message is sent.
LEMMA ClaimPays ==
  ASSUME TypeOK, Claims, FaultsPay, ClaimTimeout > 0, NEW p \in Publisher, ClaimPending(p)
  PROVE  FaultsPay'
<1>1. PICK B \in SUBSET Claimable :
        \A e \in EventId : outbox'[e] = IF e \in B THEN Claimed(e) ELSE outbox[e]
  BY ClaimEffect DEF TypeOK
<1>2. /\ pub[p].pc = "idle" /\ PublishersKeep(p)
      /\ emitted' = emitted /\ faults' = faults
  BY ClaimEffect DEF TypeOK
<1>3. \A q \in Publisher : Claimable \cap InHand(q) = {}
  BY ClaimingKeepsClaims DEF TypeOK
<1>4. ASSUME NEW e \in EventId, Sent(e) PROVE Sent(e)'
  <2>1. e \notin B
    <3>1. CASE outbox[e].status = "published"  BY <3>1 DEF Claimable
    <3>2. CASE \E q \in Publisher : pub[q].pc = "marking" /\ pub[q].ok /\ pub[q].id = e
      BY <1>3, <3>2 DEF InHand
    <3> QED  BY <1>4, <3>1, <3>2 DEF Sent
  <2>2. outbox'[e] = outbox[e]  BY <1>1, <2>1
  <2>3. \A q \in Publisher : pub[q].pc = "marking" => pub'[q] = pub[q]
    BY <1>2 DEF PublishersKeep
  <2> QED  BY <1>4, <2>2, <2>3 DEF Sent
<1> QED  BY <1>2, <1>4 DEF FaultsPay

LEMMA LoadPays ==
  ASSUME TypeOK, FaultsPay, NEW p \in Publisher, LoadEvent(p) PROVE FaultsPay'
<1>1. /\ pub[p].pc = "batch" /\ PublishersKeep(p)
      /\ outbox' = outbox /\ emitted' = emitted /\ faults' = faults
  BY LoadEffect DEF TypeOK
<1>2. \A e \in EventId : Sent(e) => Sent(e)'
  BY <1>1 DEF Sent, PublishersKeep
<1> QED  BY <1>1, <1>2 DEF FaultsPay

\* The one message that no failure pays for makes the row sent.
LEMMA TryPays ==
  ASSUME TypeOK, Claims, FaultsPay, NEW p \in Publisher,
         PublishSucceeds(p) \/ PublishFails(p)
  PROVE  FaultsPay'
<1> DEFINE f == pub[p].id
<1>1. /\ pub[p].pc = "publishing" /\ pub'[p].pc = "marking" /\ PublishersKeep(p)
      /\ outbox' = outbox /\ pub'[p].id = f
      /\ \A e \in EventId : e # f => emitted'[e] = emitted[e]
      /\ \/ pub'[p].ok /\ faults' = faults /\ emitted'[f] = emitted[f] + 1
         \/ faults' = faults + 1 /\ emitted'[f] \in {emitted[f], emitted[f] + 1}
  BY TryEffect DEF TypeOK
<1>2. f \in EventId /\ f \in InHand(p)  BY <1>1, HandTypes DEF TypeOK, InHand
<1>3. \A e \in EventId : Sent(e) => Sent(e)'
  BY <1>1 DEF Sent, PublishersKeep
<1>4. ~Sent(f)
  <2>1. outbox[f].status = "processing"  BY <1>2 DEF Claims, HandsHold
  <2>2. \A q \in Publisher : q # p => f \notin InHand(q)  BY <1>2 DEF Claims, Exclusive
  <2> QED  BY <1>1, <2>1, <2>2 DEF Sent, InHand
<1> SUFFICES ASSUME NEW e \in EventId
             PROVE  /\ emitted'[e] <= 1 + faults'
                    /\ Sent(e)' \/ emitted'[e] <= faults'
  BY DEF FaultsPay
<1>5. /\ emitted[e] \in Nat /\ faults \in Nat /\ emitted[e] <= 1 + faults
      /\ Sent(e) \/ emitted[e] <= faults
  BY HandTypes DEF TypeOK, FaultsPay
<1>6. CASE e # f  BY <1>1, <1>3, <1>5, <1>6
<1>7. CASE e = f
  <2>1. emitted[f] <= faults  BY <1>4, <1>5, <1>7
  <2>2. CASE pub'[p].ok /\ faults' = faults /\ emitted'[f] = emitted[f] + 1
    <3>1. Sent(e)'  BY <1>1, <1>7, <2>2 DEF Sent
    <3>2. emitted'[e] <= 1 + faults'  BY <1>5, <1>7, <2>1, <2>2
    <3> QED  BY <3>1, <3>2
  <2>3. CASE faults' = faults + 1 /\ emitted'[f] \in {emitted[f], emitted[f] + 1}
    BY <1>5, <1>7, <2>1, <2>3
  <2> QED  BY <1>1, <2>2, <2>3
<1> QED  BY <1>6, <1>7

\* The outcome that is recorded is that of the row in hand.
LEMMA MarkPays ==
  ASSUME TypeOK, Claims, FaultsPay, NEW p \in Publisher,
         MarkPublished(p) \/ MarkPublishFailed(p)
  PROVE  FaultsPay'
<1> DEFINE f == pub[p].id
<1>1. /\ outbox[f].status = "processing"
      /\ outbox'[f].status = "published" <=> pub[p].ok
      /\ \A q \in Publisher : q # p => f \notin InHand(q)
      /\ \A e \in EventId : e # f => outbox'[e] = outbox[e]
  BY MarkingKeepsClaims DEF TypeOK
<1>2. /\ pub[p].pc = "marking" /\ PublishersKeep(p)
      /\ emitted' = emitted /\ faults' = faults
  BY MarkEffect DEF TypeOK
<1> SUFFICES ASSUME NEW e \in EventId PROVE Sent(e) => Sent(e)'
  BY <1>2 DEF FaultsPay
<1>3. CASE e = f
  <2>1. Sent(f) => pub[p].ok  BY <1>1 DEF Sent, InHand
  <2> QED  BY <1>1, <1>3, <2>1 DEF Sent
<1>4. CASE e # f
  <2>1. outbox'[e] = outbox[e]  BY <1>1, <1>4
  <2> QED  BY <1>2, <1>4, <2>1 DEF Sent, PublishersKeep
<1> QED  BY <1>3, <1>4

\* A message whose outcome is lost with its publisher is paid for by the crash.
LEMMA CrashPays ==
  ASSUME TypeOK, FaultsPay, NEW p \in Publisher, PublisherCrash(p) PROVE FaultsPay'
BY CrashEffect, HandTypes DEF TypeOK, FaultsPay

-----------------------------------------------------------------------------
Relay == TypeOK /\ RowsTell /\ HandsTell /\ ClaimsHold

LEMMA StepClaims ==
  ASSUME Relay, ClaimTimeout > 0, [Next]_relayVars PROVE ClaimsHold'
<1> USE DEF Relay
<1>1. CASE UNCHANGED relayVars
  BY <1>1 DEF relayVars, pubVars, storeVars, ClaimsHold, Claims, Exclusive, HandsHold,
              ClaimsPaid, Trying, FaultsPay, Sent, InHand
<1>2. ASSUME NEW p \in Publisher, Publish(p) PROVE ClaimsHold'
  <2> SUFFICES ASSUME ~late PROVE Claims' /\ FaultsPay'
    BY <1>2 DEF ClaimsHold, Publish
  <2>1. Claims /\ FaultsPay  BY DEF ClaimsHold
  <2>2. Claims'  BY <1>2, <2>1, PublishingKeepsClaims DEF Publish, TypeOK
  <2>3. FaultsPay'
    BY <1>2, <2>1, ClaimPays, LoadPays, TryPays, MarkPays, CrashPays
       DEF Publish, PublisherStep, PublisherFault
  <2> QED  BY <2>2, <2>3
<1> QED  BY <1>1, <1>2, InsertClaims, TickClaims DEF Next

LEMMA RelayHolds == ASSUME ClaimTimeout > 0 PROVE Spec => []Relay
<1>1. Init => Relay  BY InitType, InitCounts, InitClaims DEF Relay
<1>2. Relay /\ [Next]_relayVars => Relay'
  BY StepType, StepCounts, StepClaims DEF Relay
<1> QED  BY <1>1, <1>2, PTL DEF Spec

\* As long as no claim times out in a publisher's hand, no row is in two hands.
THEOREM OneHandPerRow == ASSUME ClaimTimeout > 0 PROVE Spec => []ClaimsAreExclusive
<1>1. Relay => ClaimsAreExclusive
  BY DEF Relay, ClaimsHold, Claims, Exclusive, ClaimsAreExclusive
<1> QED  BY <1>1, RelayHolds, PTL

\* As long as no claim times out in a publisher's hand, every message but one
\* for a row is paid for by a failure.
THEOREM FaultsPayForDuplicates ==
  ASSUME ClaimTimeout > 0 PROVE Spec => []DuplicatesNeedFaults
<1>1. Relay => DuplicatesNeedFaults
  BY DEF Relay, ClaimsHold, FaultsPay, DuplicatesNeedFaults
<1> QED  BY <1>1, RelayHolds, PTL

\* As long as no claim times out in a publisher's hand, a row is given up
\* before it produced a message only for outbox_max_attempts failures.
THEOREM FaultsPayForGivingUp ==
  ASSUME ClaimTimeout > 0 PROVE Spec => []GivingUpNeedsFaults
<1>1. Relay => GivingUpNeedsFaults
  BY DEF Relay, ClaimsHold, Claims, ClaimsPaid, GivingUpNeedsFaults
<1> QED  BY <1>1, RelayHolds, PTL

\* As long as no claim times out in a publisher's hand, a row that is
\* published or given up stays so: no publisher overwrites another's outcome.
THEOREM OutcomesStand == ASSUME ClaimTimeout > 0 PROVE Spec => OutcomeIsFinal
<1> DEFINE Kept(e) == ~late /\ outbox[e].status \in {"published", "failed"} =>
                        outbox'[e].status = outbox[e].status
<1>1. ASSUME Relay, Next, NEW e \in EventId PROVE Kept(e)
  <2> SUFFICES ASSUME ~late, outbox[e].status \in {"published", "failed"}
               PROVE  outbox'[e].status = outbox[e].status
    OBVIOUS
  <2>1. CASE Insert
    <3>1. PICK n \in Notification, t \in Kinds, d \in 0..MaxDelay : AddOutboxEvent(n, t, d)
      BY <2>1 DEF Insert
    <3>2. t \in EventType /\ d \in Nat  BY RelayAssumption
    <3> QED  BY <1>1, <3>1, <3>2, AddedRow DEF Relay, TypeOK, Exists
  <2>2. CASE Tick  BY <1>1, <2>2, TickedRow DEF Tick, Relay, TypeOK
  <2>3. ASSUME NEW p \in Publisher, Publish(p) PROVE outbox'[e].status = outbox[e].status
    <3>1. CASE ClaimPending(p)
      <4>1. e \notin Claimable  BY DEF Claimable
      <4> QED  BY <1>1, <3>1, <4>1, ClaimEffect DEF TypeOK, Relay
    <3>2. CASE LoadEvent(p)  BY <1>1, <3>2, LoadEffect DEF TypeOK, Relay
    <3>3. CASE PublishSucceeds(p) \/ PublishFails(p)
      BY <1>1, <3>3, TryEffect DEF TypeOK, Relay
    <3>4. CASE MarkPublished(p) \/ MarkPublishFailed(p)
      BY <1>1, <3>4, MarkingKeepsClaims DEF Relay, ClaimsHold, TypeOK
    <3>5. CASE PublisherCrash(p)  BY <1>1, <3>5, CrashEffect DEF TypeOK, Relay
    <3> QED  BY <2>3, <3>1, <3>2, <3>3, <3>4, <3>5 DEF Publish, PublisherStep, PublisherFault
  <2> QED  BY <1>1, <2>1, <2>2, <2>3 DEF Next
<1>2. Relay /\ [Next]_relayVars => [\A e \in EventId : Kept(e)]_relayVars
  BY <1>1
<1> QED  BY <1>2, RelayHolds, PTL DEF Spec, OutcomeIsFinal
=============================================================================
