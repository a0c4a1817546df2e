------------------------------- MODULE FeedProofs ------------------------------
(***************************************************************************)
(* Theorems about the read API, for any number of notifications, any page  *)
(* size and any interleaving with the pipeline.                            *)
(***************************************************************************)
EXTENDS SubscriberFeed, FiniteSetTheorems, SequenceTheorems, TLAPS

-----------------------------------------------------------------------------
(* Histories. *)

SentIn(h) == {i \in DOMAIN h : h[i] = "sent"}

\* One more row in a history: what it told it still tells, and the new row.
LEMMA HistoryGrows ==
  ASSUME NEW h \in Seq(Status), NEW s \in Status
  PROVE  /\ Append(h, s) \in Seq(Status)
         /\ \A x : (\E i \in DOMAIN h : h[i] = x) =>
                     \E i \in DOMAIN Append(h, s) : Append(h, s)[i] = x
         /\ \E i \in DOMAIN Append(h, s) : Append(h, s)[i] = s
         /\ Cardinality(SentIn(h)) \in Nat /\ Cardinality(SentIn(Append(h, s))) \in Nat
         /\ Cardinality(SentIn(Append(h, s))) >= Cardinality(SentIn(h))
         /\ s = "sent" => Cardinality(SentIn(Append(h, s))) = Cardinality(SentIn(h)) + 1
<1> DEFINE g == Append(h, s)
           k == Len(h) + 1
<1>1. /\ g \in Seq(Status) /\ Len(g) = k /\ g[k] = s
      /\ \A i \in 1..Len(h) : g[i] = h[i]
      /\ Len(h) \in Nat
  BY AppendProperties
<1>2. DOMAIN h = 1..Len(h) /\ DOMAIN g = 1..k  BY <1>1
<1>3. k \in DOMAIN g /\ k \notin DOMAIN h /\ DOMAIN g = DOMAIN h \cup {k}  BY <1>1, <1>2
<1> HIDE DEF g
<1>4. IsFiniteSet(1..Len(h)) /\ IsFiniteSet(1..k)  BY <1>1, FS_Interval
<1>5. IsFiniteSet(SentIn(h)) /\ IsFiniteSet(SentIn(g))
  BY <1>2, <1>4, FS_Subset DEF SentIn
<1>6. SentIn(h) \subseteq SentIn(g) /\ k \notin SentIn(h)
  BY <1>1, <1>2, <1>3 DEF SentIn
<1>7. s = "sent" => SentIn(g) = SentIn(h) \cup {k}
  BY <1>1, <1>2, <1>3 DEF SentIn
<1>8. /\ Cardinality(SentIn(h)) \in Nat /\ Cardinality(SentIn(g)) \in Nat
      /\ Cardinality(SentIn(h)) <= Cardinality(SentIn(g))
  BY <1>5, <1>6, FS_CardinalityType, FS_Subset
<1>9. s = "sent" => Cardinality(SentIn(g)) = Cardinality(SentIn(h)) + 1
  BY <1>5, <1>6, <1>7, FS_AddElement
<1>10. \A x : (\E i \in DOMAIN h : h[i] = x) => \E i \in DOMAIN g : g[i] = x
  BY <1>1, <1>2, <1>3
<1> QED  BY <1>1, <1>3, <1>8, <1>9, <1>10 DEF g

-----------------------------------------------------------------------------
(* Types. *)

WriterTypeOK ==
  /\ status \in [Notification -> Status \cup {"absent"}]
  /\ attempts \in [Notification -> 0..MaxRetries]
  /\ notices \in [Notification -> Nat]
  /\ history \in [Notification -> Seq(Status)]

(***************************************************************************)
(* A history tells that the notification was queued, every attempt that is *)
(* counted, and every result.                                              *)
(***************************************************************************)
HistoryTells ==
  \A n \in Notification :
    /\ status[n] = "absent" => attempts[n] = 0 /\ history[n] = <<>>
    /\ status[n] # "absent" => Pipeline!Results(n) >= 0
    /\ status[n] \in {"delivered", "dropped"} => Pipeline!Results(n) >= 1

\* What a write does to its row.
LEMMA WriteEffect ==
  ASSUME TypeOK, HistoryTells, NEW n \in Notification, Write(n)
  PROVE  /\ WriterTypeOK'
         /\ status'[n] \in Status
         /\ \A k \in Notification : k # n =>
              /\ status'[k] = status[k] /\ attempts'[k] = attempts[k]
              /\ history'[k] = history[k]
         /\ history'[n] = Append(history[n], status'[n])
         /\ \/ attempts'[n] = attempts[n] /\ status'[n] # "sent"
            \/ attempts'[n] = attempts[n] + 1 /\ status'[n] = "sent"
         /\ status[n] = "absent" => status'[n] = "queued"
         /\ status'[n] = "queued" => status[n] = "absent"
         /\ status[n] \in {"delivered", "dropped"} => status'[n] \in {"delivered", "dropped"}
<1> USE DEF TypeOK
<1>1. /\ \A k \in Notification : k # n => status'[k] = status[k]
      /\ status' \in [Notification -> Status \cup {"absent"}]
      /\ status'[n] \in Status
  BY DEF Write, Pipeline!Accept, Pipeline!Attempt, Pipeline!Deliver,
         Pipeline!DropWithNotice, Status
<1>2. /\ status[n] = "absent" => status'[n] = "queued"
      /\ status'[n] = "queued" => status[n] = "absent"
      /\ status[n] \in {"delivered", "dropped"} => status'[n] \in {"delivered", "dropped"}
  BY DEF Write, Pipeline!Accept, Pipeline!Attempt, Pipeline!Deliver, Pipeline!DropWithNotice,
         Pipeline!MayFinish, Pipeline!Final, Pipeline!CanTransition, Pipeline!AllowedTransitions
<1>3. /\ attempts' \in [Notification -> 0..MaxRetries]
      /\ \A k \in Notification : k # n => attempts'[k] = attempts[k]
      /\ \/ attempts'[n] = attempts[n] /\ status'[n] # "sent"
         \/ attempts'[n] = attempts[n] + 1 /\ status'[n] = "sent"
  <2>1. CASE Pipeline!Attempt(n)
    <3>1. attempts[n] + 1 \in 0..MaxRetries
      BY <2>1, FeedAssumption DEF Pipeline!Attempt
    <3> QED  BY <2>1, <3>1 DEF Pipeline!Attempt
  <2>2. CASE Pipeline!Accept({n}) \/ Pipeline!Deliver(n) \/ Pipeline!DropWithNotice(n)
    BY <2>2 DEF Pipeline!Accept, Pipeline!Deliver, Pipeline!DropWithNotice
  <2> QED  BY <2>1, <2>2 DEF Write
<1>4. notices' \in [Notification -> Nat]
  BY DEF Write, Pipeline!Accept, Pipeline!Attempt, Pipeline!Deliver, Pipeline!DropWithNotice
<1>5. /\ history' \in [Notification -> Seq(Status)]
      /\ history'[n] = Append(history[n], status'[n])
      /\ \A k \in Notification : k # n => history'[k] = history[k]
  <2>1. history'[n] = Append(history[n], status'[n])
    <3>1. CASE Pipeline!Accept({n})
      <4>1. history[n] = <<>> /\ history'[n] = <<"queued">> /\ status'[n] = "queued"
        BY <3>1 DEF Pipeline!Accept, HistoryTells
      <4> QED  BY <4>1
    <3>2. CASE Pipeline!Attempt(n) \/ Pipeline!Deliver(n) \/ Pipeline!DropWithNotice(n)
      BY <3>2 DEF Pipeline!Attempt, Pipeline!Deliver, Pipeline!DropWithNotice, Pipeline!Record
    <3> QED  BY <3>1, <3>2 DEF Write
  <2>2. Append(history[n], status'[n]) \in Seq(Status)  BY <1>1, HistoryGrows
  <2>3. \E h : history' = [history EXCEPT ![n] = h]
    <3>1. CASE Pipeline!Accept({n})
      <4>1. history' = [history EXCEPT ![n] = <<"queued">>]  BY <3>1 DEF Pipeline!Accept
      <4> QED  BY <4>1
    <3>2. CASE Pipeline!Attempt(n) \/ Pipeline!Deliver(n) \/ Pipeline!DropWithNotice(n)
      BY <3>2 DEF Pipeline!Attempt, Pipeline!Deliver, Pipeline!DropWithNotice, Pipeline!Record
    <3> QED  BY <3>1, <3>2 DEF Write
  <2> QED  BY <2>1, <2>2, <2>3
<1> QED  BY <1>1, <1>2, <1>3, <1>4, <1>5 DEF WriterTypeOK

\* No write lowers the number of results that a history tells.
LEMMA ResultsGrow ==
  ASSUME TypeOK, HistoryTells, NEW n \in Notification, Write(n)
  PROVE  /\ HistoryTells'
         /\ \A k \in Notification :
              /\ status[k] # "absent" => status'[k] # "absent"
              /\ Pipeline!Results(k)' >= Pipeline!Results(k)
              /\ status[k] \in {"delivered", "dropped"} /\ status'[k] # status[k] =>
                   status'[k] \in {"delivered", "dropped"} /\ Pipeline!Results(k)' > 1
<1> USE DEF TypeOK
<1>1. /\ status'[n] \in Status
      /\ \A k \in Notification : k # n =>
           /\ status'[k] = status[k] /\ attempts'[k] = attempts[k]
           /\ history'[k] = history[k]
      /\ \/ attempts'[n] = attempts[n] /\ status'[n] # "sent"
         \/ attempts'[n] = attempts[n] + 1 /\ status'[n] = "sent"
      /\ status[n] = "absent" => status'[n] = "queued"
      /\ status'[n] = "queued" => status[n] = "absent"
      /\ status[n] \in {"delivered", "dropped"} => status'[n] \in {"delivered", "dropped"}
  BY WriteEffect
<1>2. Len(history'[n]) = Len(history[n]) + 1 /\ Len(history[n]) \in Nat
  BY WriteEffect, AppendProperties
<1>3. \A k \in Notification : attempts[k] \in Nat /\ Len(history[k]) \in Nat
  BY FeedAssumption
<1>4. Pipeline!Results(n)' = IF status'[n] = "sent" THEN Pipeline!Results(n)
                             ELSE Pipeline!Results(n) + 1
  <2>1. Pipeline!Results(n) = Len(history[n]) - attempts[n] - 1  BY DEF Pipeline!Results
  <2>2. Pipeline!Results(n)' = Len(history'[n]) - attempts'[n] - 1  BY DEF Pipeline!Results
  <2>3. attempts[n] \in Nat  BY <1>3
  <2> HIDE DEF TypeOK
  <2>4. CASE attempts'[n] = attempts[n] /\ status'[n] # "sent"
    BY <1>2, <2>1, <2>2, <2>3, <2>4
  <2>5. CASE attempts'[n] = attempts[n] + 1 /\ status'[n] = "sent"
    BY <1>2, <2>1, <2>2, <2>3, <2>5
  <2> QED  BY <1>1, <2>4, <2>5
<1>5. \A k \in Notification : /\ Pipeline!Results(k) \in Int
                              /\ k # n => Pipeline!Results(k)' = Pipeline!Results(k)
  BY <1>1, <1>3 DEF Pipeline!Results
<1>6. status[n] = "absent" => Pipeline!Results(n) = -1
  BY DEF HistoryTells, Pipeline!Results
<1>7. /\ status[n] # "absent" => Pipeline!Results(n) >= 0
      /\ status[n] \in {"delivered", "dropped"} => Pipeline!Results(n) >= 1
  BY DEF HistoryTells
<1> HIDE DEF Pipeline!Results
<1>8. /\ status'[n] # "absent" /\ Pipeline!Results(n)' >= 0
      /\ status'[n] \in {"delivered", "dropped"} => Pipeline!Results(n)' >= 1
      /\ status[n] \in {"delivered", "dropped"} => Pipeline!Results(n)' > 1
      /\ Pipeline!Results(n)' >= Pipeline!Results(n)
  BY <1>1, <1>4, <1>5, <1>6, <1>7 DEF Status
<1>9. HistoryTells'
  <2> SUFFICES ASSUME NEW k \in Notification
               PROVE  /\ status'[k] = "absent" => attempts'[k] = 0 /\ history'[k] = <<>>
                      /\ status'[k] # "absent" => Pipeline!Results(k)' >= 0
                      /\ status'[k] \in {"delivered", "dropped"} => Pipeline!Results(k)' >= 1
    BY DEF HistoryTells
  <2>1. CASE k = n  BY <1>8, <2>1
  <2>2. CASE k # n  BY <1>1, <1>5, <2>2 DEF HistoryTells
  <2> QED  BY <2>1, <2>2
<1>10. ASSUME NEW k \in Notification
       PROVE  /\ status[k] # "absent" => status'[k] # "absent"
              /\ Pipeline!Results(k)' >= Pipeline!Results(k)
              /\ status[k] \in {"delivered", "dropped"} /\ status'[k] # status[k] =>
                   status'[k] \in {"delivered", "dropped"} /\ Pipeline!Results(k)' > 1
  <2>1. CASE k = n  BY <1>1, <1>8, <2>1
  <2>2. CASE k # n  BY <1>1, <1>5, <2>2
  <2> QED  BY <2>1, <2>2
<1> QED  BY <1>9, <1>10

LEMMA ReaderKeepsType ==
  ASSUME TypeOK,
         \/ \E f \in Filter : Begin(f)
         \/ \E n \in Notification : SelectOne(n)
         \/ SelectRows \/ LoadHistories \/ LoadHistory
  PROVE  reader' \in Reader
<1> USE DEF TypeOK
<1>0. Idle \in Reader /\ Limit \in Nat
  BY FeedAssumption DEF Idle, Reader, Filter, Status
<1>1. \A k \in Notification : status[k] # "absent" => RowOf(k) \in Row
  BY DEF RowOf, Row
<1>2. CASE \E f \in Filter : Begin(f)
  <2>0. PICK f \in Filter : Begin(f)  BY <1>2
  <2>1. Matching(f, status) \in SUBSET Notification  BY DEF Matching
  <2>2. [Idle EXCEPT !.pc = "asking", !.filter = f, !.wanted = Matching(f, status)] \in Reader
    BY <1>0, <2>1 DEF Reader
  <2> QED  BY <2>0, <2>2 DEF Begin
<1>3. CASE SelectRows
  <2>1. PICK P \in SUBSET Matching(reader.filter, status) :
          reader' = [reader EXCEPT !.pc = "loading", !.page = {RowOf(k) : k \in P}]
    BY <1>3 DEF SelectRows
  <2>2. \A k \in P : k \in Notification /\ status[k] # "absent"
    BY DEF Matching, Matches
  <2>3. {RowOf(k) : k \in P} \in SUBSET Row  BY <1>1, <2>2
  <2> HIDE DEF RowOf
  <2> QED  BY <2>1, <2>3 DEF Reader
<1>4. \A row \in reader.page : ToItem(row) \in Item /\ row.n \in Notification
  BY DEF ToItem, Item, Reader, Row
<1>5. {ToItem(row) : row \in reader.page} \in SUBSET Item  BY <1>4
<1>6. CASE LoadHistories
  <2> DEFINE ids == {row.n : row \in reader.page}
             items == {ToItem(row) : row \in reader.page}
             next == IF Cardinality(ids) < Limit THEN "done" ELSE "asking"
             again == reader.repeated \/ ids \cap reader.seen # {}
  <2>1. reader' = [reader EXCEPT
           !.pc = next, !.offset = reader.offset + Limit, !.page = {}, !.shown = items,
           !.seen = reader.seen \cup ids, !.repeated = again]
    BY <1>6, Zenon DEF LoadHistories
  <2>2. ids \in SUBSET Notification /\ items \in SUBSET Item  BY <1>4, <1>5
  <2>3. next \in {"done", "asking"} /\ again \in BOOLEAN  OBVIOUS
  <2>4. reader.offset + Limit \in Nat  BY <1>0 DEF Reader
  <2> HIDE DEF ids, items, next, again
  <2>5. reader.seen \cup ids \in SUBSET Notification  BY <2>2 DEF Reader
  <2> QED  BY <2>1, <2>2, <2>3, <2>4, <2>5 DEF Reader
<1>7. CASE \E n \in Notification : SelectOne(n)
  <2>0. PICK n \in Notification : SelectOne(n)  BY <1>7
  <2>1. CASE status[n] = "absent"  BY <1>0, <2>0, <2>1 DEF SelectOne
  <2>2. CASE status[n] # "absent"
    <3>1. {RowOf(n)} \in SUBSET Row  BY <1>1, <2>2
    <3>2. [Idle EXCEPT !.pc = "fetching", !.page = {RowOf(n)}] \in Reader
      BY <1>0, <3>1 DEF Reader
    <3> QED  BY <2>0, <2>2, <3>2 DEF SelectOne
  <2> QED  BY <2>1, <2>2
<1>8. CASE LoadHistory
  <2> DEFINE items == {ToItem(row) : row \in reader.page}
  <2>1. reader' = [reader EXCEPT !.pc = "idle", !.page = {}, !.shown = items]
    BY <1>8 DEF LoadHistory
  <2>2. items \in SUBSET Item  BY <1>5
  <2> HIDE DEF items
  <2> QED  BY <2>1, <2>2 DEF Reader
<1> QED  BY <1>2, <1>3, <1>6, <1>7, <1>8

\* What has moved is noted in the reader, and nothing else of it changes.
LEMMA WatchEffect ==
  ASSUME TypeOK, Watch
  PROVE  /\ reader' \in Reader
         /\ reader'.page = reader.page /\ reader'.shown = reader.shown
<1> DEFINE before == Matching(reader.filter, status)
           after  == Matching(reader.filter, status')
           new == reader.moved \cup (IF after \subseteq before THEN {} ELSE {"arrived"})
                               \cup (IF before \subseteq after THEN {} ELSE {"departed"})
<1>1. reader' = [reader EXCEPT !.moved = new]  BY DEF Watch
<1>2. new \in SUBSET {"arrived", "departed"}  BY DEF TypeOK, Reader
<1> HIDE DEF new
<1> QED  BY <1>1, <1>2 DEF TypeOK, Reader

LEMMA StepType == ASSUME TypeOK, HistoryTells, [Next]_vars PROVE TypeOK' /\ HistoryTells'
<1>1. ASSUME NEW n \in Notification, Write(n) PROVE TypeOK' /\ HistoryTells'
  <2>1. Watch  BY <1>1 DEF Write
  <2> QED  BY <1>1, <2>1, WriteEffect, ResultsGrow, WatchEffect DEF TypeOK, WriterTypeOK
<1>2. ASSUME reader' \in Reader, UNCHANGED rows PROVE TypeOK' /\ HistoryTells'
  BY <1>2 DEF rows, TypeOK, HistoryTells, Pipeline!Results
<1>3. CASE \/ \E f \in Filter : Begin(f)
           \/ \E n \in Notification : SelectOne(n)
           \/ SelectRows \/ LoadHistories \/ LoadHistory
  <2>1. UNCHANGED rows
    BY <1>3 DEF Begin, SelectRows, LoadHistories, LoadHistory, SelectOne
  <2> QED  BY <1>2, <1>3, <2>1, ReaderKeepsType
<1>4. CASE UNCHANGED vars
  BY <1>4 DEF vars, rows, TypeOK, HistoryTells, Pipeline!Results
<1> QED  BY <1>1, <1>3, <1>4 DEF Next

LEMMA InitType == Init => TypeOK /\ HistoryTells
<1> SUFFICES ASSUME Init PROVE TypeOK /\ HistoryTells  OBVIOUS
<1>1. Idle \in Reader  BY DEF Idle, Reader, Filter
<1>2. <<>> \in Seq(Status)  OBVIOUS
<1> QED
  BY <1>1, <1>2, FeedAssumption DEF Init, Pipeline!Init, TypeOK, HistoryTells

LEMMA TypesAreTold == Spec => [](TypeOK /\ HistoryTells)
BY InitType, StepType, PTL DEF Spec

\* Every variable keeps its type.
THEOREM TypeCorrect == Spec => []TypeOK
BY TypesAreTold, PTL

-----------------------------------------------------------------------------
(***************************************************************************)
(* Reading a row first and its history later.  A history only grows, so    *)
(* what it tells of a row once, it tells of that row for ever.             *)
(***************************************************************************)
Tells(h, row) ==
  /\ Cardinality(SentIn(h)) >= row.attempts
  /\ \E i \in DOMAIN h : h[i] = row.status

RowsAreTold ==
  /\ \A n \in Notification :
       /\ Cardinality(SentIn(history[n])) >= attempts[n]
       /\ status[n] # "absent" => Tells(history[n], RowOf(n))
  /\ \A row \in reader.page : Tells(history[row.n], row)

LEMMA GrowingTells ==
  ASSUME NEW h \in Seq(Status), NEW s \in Status, NEW row, row.attempts \in Nat, Tells(h, row)
  PROVE  Tells(Append(h, s), row)
<1>1. /\ Cardinality(SentIn(h)) \in Nat /\ Cardinality(SentIn(Append(h, s))) \in Nat
      /\ Cardinality(SentIn(Append(h, s))) >= Cardinality(SentIn(h))
  BY HistoryGrows
<1>2. Cardinality(SentIn(Append(h, s))) >= row.attempts
  BY <1>1 DEF Tells
<1>3. PICK i \in DOMAIN h : h[i] = row.status  BY DEF Tells
<1>4. i \in DOMAIN Append(h, s) /\ Append(h, s)[i] = h[i]  OBVIOUS
<1> QED  BY <1>2, <1>3, <1>4 DEF Tells

LEMMA WriteTells ==
  ASSUME TypeOK, HistoryTells, RowsAreTold, ItemsTellHistory, NEW n \in Notification, Write(n)
  PROVE  RowsAreTold' /\ ItemsTellHistory'
<1> USE DEF TypeOK
<1>1. /\ status'[n] \in Status
      /\ \A k \in Notification : k # n =>
           /\ status'[k] = status[k] /\ attempts'[k] = attempts[k]
           /\ history'[k] = history[k]
      /\ history'[n] = Append(history[n], status'[n])
      /\ \/ attempts'[n] = attempts[n]
         \/ attempts'[n] = attempts[n] + 1 /\ status'[n] = "sent"
  BY WriteEffect
<1>2. reader'.page = reader.page /\ reader'.shown = reader.shown
  BY WatchEffect DEF Write
<1>3. /\ Cardinality(SentIn(history'[n])) >= attempts'[n]
      /\ \E i \in DOMAIN history'[n] : history'[n][i] = status'[n]
  <2>1. attempts[n] \in Nat /\ Cardinality(SentIn(history[n])) >= attempts[n]
    BY FeedAssumption DEF RowsAreTold
  <2>2. /\ Cardinality(SentIn(history[n])) \in Nat
        /\ Cardinality(SentIn(history'[n])) \in Nat
        /\ Cardinality(SentIn(history'[n])) >= Cardinality(SentIn(history[n]))
        /\ status'[n] = "sent" =>
             Cardinality(SentIn(history'[n])) = Cardinality(SentIn(history[n])) + 1
        /\ \E i \in DOMAIN history'[n] : history'[n][i] = status'[n]
    <3> DEFINE h == history[n]
               s == status'[n]
    <3>1. h \in Seq(Status) /\ s \in Status /\ history'[n] = Append(h, s)  BY <1>1
    <3> HIDE DEF h, s
    <3>2. /\ Cardinality(SentIn(h)) \in Nat
          /\ Cardinality(SentIn(Append(h, s))) \in Nat
          /\ Cardinality(SentIn(Append(h, s))) >= Cardinality(SentIn(h))
          /\ s = "sent" => Cardinality(SentIn(Append(h, s))) = Cardinality(SentIn(h)) + 1
          /\ \E i \in DOMAIN Append(h, s) : Append(h, s)[i] = s
      BY <3>1, HistoryGrows
    <3> QED  BY <3>1, <3>2 DEF h, s
  <2> QED  BY <1>1, <2>1, <2>2
<1>4. ASSUME NEW k \in Notification
      PROVE  /\ Cardinality(SentIn(history'[k])) >= attempts'[k]
             /\ status'[k] # "absent" => Tells(history'[k], RowOf(k)')
  <2>1. CASE k = n
    <3>1. RowOf(n)'.attempts = attempts'[n] /\ RowOf(n)'.status = status'[n]  BY DEF RowOf
    <3> QED  BY <1>3, <2>1, <3>1 DEF Tells
  <2>2. CASE k # n
    <3>1. RowOf(k)' = RowOf(k) /\ history'[k] = history[k] /\ attempts'[k] = attempts[k]
      BY <1>1, <2>2 DEF RowOf
    <3>2. status'[k] = status[k]  BY <1>1, <2>2
    <3> QED  BY <3>1, <3>2 DEF RowsAreTold
  <2> QED  BY <2>1, <2>2
<1>5. ASSUME NEW row \in reader.page PROVE Tells(history'[row.n], row)
  <2>1. row.n \in Notification /\ row.attempts \in Nat
    BY FeedAssumption DEF Reader, Row
  <2>2. Tells(history[row.n], row)  BY DEF RowsAreTold
  <2>3. CASE row.n = n
    <3>1. Tells(Append(history[n], status'[n]), row)
      BY <1>1, <2>1, <2>2, <2>3, GrowingTells
    <3> QED  BY <1>1, <2>3, <3>1
  <2>4. CASE row.n # n  BY <1>1, <2>1, <2>2, <2>4
  <2> QED  BY <2>3, <2>4
<1> QED  BY <1>2, <1>4, <1>5 DEF RowsAreTold, ItemsTellHistory

LEMMA ReadTells ==
  ASSUME TypeOK, RowsAreTold, ItemsTellHistory,
         \/ \E f \in Filter : Begin(f)
         \/ \E n \in Notification : SelectOne(n)
         \/ SelectRows \/ LoadHistories \/ LoadHistory
  PROVE  RowsAreTold' /\ ItemsTellHistory'
<1> USE DEF TypeOK
<1>1. UNCHANGED rows
  BY DEF Begin, SelectRows, LoadHistories, LoadHistory, SelectOne
<1>2. \A n \in Notification : status[n] # "absent" => Tells(history[RowOf(n).n], RowOf(n))
  BY DEF RowsAreTold, RowOf
<1>3. \A row \in reader'.page : Tells(history[row.n], row)
  <2>1. CASE (\E f \in Filter : Begin(f)) \/ LoadHistories \/ LoadHistory
    <3>1. reader'.page = {}
      BY <2>1 DEF Begin, LoadHistories, LoadHistory, Idle, Reader
    <3> QED  BY <3>1
  <2>2. CASE SelectRows
    <3>1. PICK P \in SUBSET Matching(reader.filter, status) :
            reader' = [reader EXCEPT !.pc = "loading", !.page = {RowOf(k) : k \in P}]
      BY <2>2 DEF SelectRows
    <3>2. reader'.page = {RowOf(k) : k \in P}  BY <3>1 DEF Reader
    <3>3. \A k \in P : k \in Notification /\ status[k] # "absent"
      BY DEF Matching, Matches
    <3> QED  BY <1>2, <3>2, <3>3
  <2>3. CASE \E n \in Notification : SelectOne(n)
    <3>1. PICK n \in Notification : SelectOne(n)  BY <2>3
    <3>2. IF status[n] = "absent" THEN reader'.page = {} ELSE reader'.page = {RowOf(n)}
      BY <3>1 DEF SelectOne, Idle
    <3> QED  BY <1>2, <3>2
  <2> QED  BY <2>1, <2>2, <2>3
<1>4. RowsAreTold'
  BY <1>1, <1>3 DEF RowsAreTold, rows, RowOf
<1>5. ItemsTellHistory'
  <2>1. CASE (\E f \in Filter : Begin(f)) \/ \E n \in Notification : SelectOne(n)
    <3>1. ASSUME NEW f \in Filter, Begin(f) PROVE reader'.shown = {}
      BY <3>1 DEF Begin, Idle
    <3>2. ASSUME NEW n \in Notification, SelectOne(n) PROVE reader'.shown = {}
      <4>1. CASE status[n] = "absent"  BY <3>2, <4>1 DEF SelectOne, Idle
      <4>2. CASE status[n] # "absent"  BY <3>2, <4>2 DEF SelectOne, Idle
      <4> QED  BY <4>1, <4>2
    <3>3. reader'.shown = {}  BY <2>1, <3>1, <3>2
    <3> QED  BY <3>3 DEF ItemsTellHistory
  <2>2. CASE SelectRows
    <3>1. reader'.shown = reader.shown  BY <2>2 DEF SelectRows, Reader
    <3> QED  BY <3>1 DEF ItemsTellHistory
  <2>3. CASE LoadHistories \/ LoadHistory
    <3>1. reader'.shown = {ToItem(row) : row \in reader.page}
      BY <2>3 DEF LoadHistories, LoadHistory, Reader
    <3>2. ASSUME NEW row \in reader.page
          PROVE  Tells(ToItem(row).history, ToItem(row).row)
      BY DEF RowsAreTold, ToItem
    <3>3. \A item \in reader'.shown : Tells(item.history, item.row)  BY <3>1, <3>2
    <3> QED  BY <3>3 DEF ItemsTellHistory, Tells, SentIn
  <2> QED  BY <2>1, <2>2, <2>3
<1> QED  BY <1>4, <1>5

\* An item is never ahead of its history: the history tells of every attempt
\* that the row counts and of its status, though another transaction may have
\* committed between the two statements that read them.
THEOREM HistoriesCatchUp == Spec => []ItemsTellHistory
<1>1. Init => RowsAreTold /\ ItemsTellHistory
  <2> SUFFICES ASSUME Init PROVE RowsAreTold /\ ItemsTellHistory  OBVIOUS
  <2>1. \A n \in Notification : /\ status[n] = "absent" /\ attempts[n] = 0
                               /\ SentIn(history[n]) = {}
    BY DEF Init, Pipeline!Init, SentIn
  <2>2. reader.page = {} /\ reader.shown = {}  BY DEF Init, Idle
  <2> QED  BY <2>1, <2>2, FS_EmptySet DEF RowsAreTold, ItemsTellHistory
<1>2. TypeOK /\ HistoryTells /\ RowsAreTold /\ ItemsTellHistory /\ [Next]_vars
      => RowsAreTold' /\ ItemsTellHistory'
  <2>1. ASSUME RowsAreTold, ItemsTellHistory, UNCHANGED vars
        PROVE  RowsAreTold' /\ ItemsTellHistory'
    BY <2>1 DEF vars, rows, RowsAreTold, RowOf, ItemsTellHistory
  <2> QED  BY <2>1, WriteTells, ReadTells DEF Next
<1> QED  BY <1>1, <1>2, TypesAreTold, PTL DEF Spec
-----------------------------------------------------------------------------
(***************************************************************************)
(* A walk through the pages skips nothing and repeats nothing while        *)
(* notifications are inserted, for any number of notifications, any        *)
(* clocks behind created_at and any page size.                             *)
(***************************************************************************)

(* What ORDER BY, LIMIT and OFFSET cut out of a selection. *)

AheadIn(m, S) == {k \in S : Before(k, m)}

\* The id decides between notifications of one created_at.
LEMMA BeforeIsTotal ==
  ASSUME NEW m \in Notification, NEW n \in Notification
  PROVE  /\ ~Before(m, m)
         /\ m # n => Before(m, n) \/ Before(n, m)
BY FeedAssumption DEF Before

LEMMA AheadGrows ==
  ASSUME NEW S \in SUBSET Notification, NEW T \in SUBSET S, IsFiniteSet(S),
         NEW m \in Notification
  PROVE  /\ Cardinality(AheadIn(m, T)) \in Nat /\ Cardinality(AheadIn(m, S)) \in Nat
         /\ Cardinality(AheadIn(m, T)) <= Cardinality(AheadIn(m, S))
<1>1. AheadIn(m, S) \in SUBSET S /\ AheadIn(m, T) \in SUBSET AheadIn(m, S)
  BY DEF AheadIn
<1> QED  BY <1>1, FS_Subset, FS_CardinalityType

(***************************************************************************)
(* A notification that neither this page nor an earlier one could show has *)
(* a full page and all that was skipped ahead of it; one on the page has   *)
(* what was skipped ahead of it, and at most the rest of the page.         *)
(***************************************************************************)
LEMMA PageCuts ==
  ASSUME NEW S \in SUBSET Notification, IsFiniteSet(S), NEW P \in SUBSET S,
         reader.offset \in Nat, IsPage(P, S)
  PROVE  /\ \A m \in S \ P : Cardinality(AheadIn(m, S)) >= reader.offset =>
              /\ Cardinality(P) = Limit
              /\ Cardinality(AheadIn(m, S)) >= reader.offset + Limit
         /\ \A m \in P :
              /\ Cardinality(AheadIn(m, S)) >= reader.offset
              /\ Cardinality(AheadIn(m, S)) < reader.offset + Limit
<1>0. Limit \in Nat  BY FeedAssumption
<1>1. PICK Q \in SUBSET (S \ P) :
        /\ Cardinality(Q) = AtMost(reader.offset, Cardinality(S))
        /\ Cardinality(P) = AtMost(Limit, Cardinality(S \ Q))
        /\ \A m \in Q, n \in S \ Q : ~Before(n, m)
        /\ \A m \in P, n \in S \ (P \cup Q) : ~Before(n, m)
  BY DEF IsPage
<1>2. /\ IsFiniteSet(Q) /\ IsFiniteSet(P) /\ IsFiniteSet(S \ Q) /\ IsFiniteSet(P \cup Q)
      /\ P \cup Q \in SUBSET S /\ P \in SUBSET (S \ Q)
  <2>1. Q \in SUBSET S /\ P \in SUBSET S /\ S \ Q \in SUBSET S /\ P \cup Q \in SUBSET S
    BY <1>1
  <2> QED  BY <1>1, <2>1, FS_Subset
<1>3. /\ Cardinality(S) \in Nat /\ Cardinality(Q) \in Nat /\ Cardinality(P) \in Nat
      /\ Cardinality(S \ Q) \in Nat /\ Cardinality(P \cup Q) \in Nat
  BY <1>2, FS_CardinalityType
<1>4. Cardinality(P \cup Q) = Cardinality(P) + Cardinality(Q)
  <2>1. P \cap Q = {}  BY <1>1
  <2>2. Cardinality(P \cap Q) = 0  BY <2>1, FS_EmptySet
  <2>3. Cardinality(P \cup Q) = Cardinality(P) + Cardinality(Q) - Cardinality(P \cap Q)
    BY <1>2, FS_Union
  <2> QED  BY <1>3, <2>2, <2>3
<1>5. \A m \in S : IsFiniteSet(AheadIn(m, S)) /\ Cardinality(AheadIn(m, S)) \in Nat
  <2>1. \A m \in S : AheadIn(m, S) \in SUBSET S  BY DEF AheadIn
  <2> QED  BY <2>1, FS_Subset, FS_CardinalityType
<1>6. \A m \in S \ Q : Q # S
  OBVIOUS
<1>7. Q # S => Cardinality(Q) = reader.offset
  <2> SUFFICES ASSUME Q # S PROVE Cardinality(Q) = reader.offset  OBVIOUS
  <2>1. Q \in SUBSET S  BY <1>1
  <2>2. Cardinality(S) # Cardinality(Q)  BY <2>1, FS_Subset
  <2> QED  BY <1>1, <1>3, <2>2 DEF AtMost
<1>8. ASSUME NEW m \in S \ P, Cardinality(AheadIn(m, S)) >= reader.offset
      PROVE  /\ Cardinality(P) = Limit
             /\ Cardinality(AheadIn(m, S)) >= reader.offset + Limit
  <2>1. m \notin Q
    <3> SUFFICES ASSUME m \in Q PROVE FALSE  OBVIOUS
    <3>1. AheadIn(m, S) \in SUBSET (Q \ {m})
      BY <1>1, BeforeIsTotal DEF AheadIn
    <3>2. IsFiniteSet(Q \ {m}) /\ Cardinality(Q \ {m}) = Cardinality(Q) - 1
      BY <1>2, FS_RemoveElement
    <3>3. Cardinality(AheadIn(m, S)) <= Cardinality(Q) - 1
      BY <3>1, <3>2, FS_Subset
    <3>4. Cardinality(Q) <= reader.offset  BY <1>1, <1>3 DEF AtMost
    <3>5. Cardinality(AheadIn(m, S)) \in Nat  BY <1>5
    <3> QED  BY <1>3, <1>8, <3>3, <3>4, <3>5
  <2>2. Cardinality(Q) = reader.offset  BY <1>7, <2>1
  <2>3. Cardinality(P) = Limit
    <3>1. P # S \ Q  BY <2>1
    <3>2. Cardinality(S \ Q) # Cardinality(P)  BY <1>2, <3>1, FS_Subset
    <3> QED  BY <1>0, <1>1, <1>3, <3>2 DEF AtMost
  <2>4. P \cup Q \in SUBSET AheadIn(m, S)
    <3>1. ASSUME NEW k \in P \cup Q PROVE Before(k, m)
      <4>1. k \in Notification /\ m \in Notification /\ k # m  BY <1>1, <2>1
      <4>2. ~Before(m, k)  BY <1>1, <2>1
      <4> QED  BY <4>1, <4>2, BeforeIsTotal
    <3> QED  BY <1>2, <3>1 DEF AheadIn
  <2>5. Cardinality(P \cup Q) <= Cardinality(AheadIn(m, S))
    BY <1>5, <2>4, FS_Subset
  <2>6. Cardinality(AheadIn(m, S)) \in Nat  BY <1>5
  <2> QED  BY <1>0, <1>3, <1>4, <2>2, <2>3, <2>5, <2>6
<1>9. ASSUME NEW m \in P
      PROVE  /\ Cardinality(AheadIn(m, S)) >= reader.offset
             /\ Cardinality(AheadIn(m, S)) < reader.offset + Limit
  <2>1. m \in S /\ m \notin Q  BY <1>1
  <2>2. Cardinality(Q) = reader.offset  BY <1>7, <2>1
  <2>3. Q \in SUBSET AheadIn(m, S)
    <3>1. ASSUME NEW k \in Q PROVE Before(k, m)
      <4>1. k \in Notification /\ m \in Notification /\ k # m  BY <1>1, <2>1
      <4>2. ~Before(m, k)  BY <1>1, <2>1
      <4> QED  BY <4>1, <4>2, BeforeIsTotal
    <3> QED  BY <1>1, <3>1 DEF AheadIn
  <2>4. Cardinality(Q) <= Cardinality(AheadIn(m, S))  BY <1>5, <2>1, <2>3, FS_Subset
  <2>5. AheadIn(m, S) \in SUBSET ((P \cup Q) \ {m})
    BY <1>1, <2>1, BeforeIsTotal DEF AheadIn
  <2>6. /\ IsFiniteSet((P \cup Q) \ {m})
        /\ Cardinality((P \cup Q) \ {m}) = Cardinality(P \cup Q) - 1
    BY <1>2, FS_RemoveElement
  <2>7. Cardinality(AheadIn(m, S)) <= Cardinality(P \cup Q) - 1
    BY <2>5, <2>6, FS_Subset
  <2>8. Cardinality(P) <= Limit  BY <1>0, <1>1, <1>3 DEF AtMost
  <2>9. Cardinality(AheadIn(m, S)) \in Nat  BY <1>5, <2>1
  <2> QED  BY <1>0, <1>3, <1>4, <2>2, <2>4, <2>7, <2>8, <2>9
<1> QED  BY <1>8, <1>9

-----------------------------------------------------------------------------
(***************************************************************************)
(* Where a walk stands.  While nothing leaves the selection, everything    *)
(* that the client wants and has not seen has at least offset others ahead *)
(* of it; while nothing comes in, what the client has seen has fewer.      *)
(***************************************************************************)
Selection == Matching(reader.filter, status)
PageIds == {row.n : row \in reader.page}

FinitelyMany == IsFiniteSet({n \in Notification : status[n] # "absent"})

WantedLiesAhead ==
  "departed" \notin reader.moved =>
    /\ reader.pc = "asking" =>
         \A m \in reader.wanted \ reader.seen :
           m \in Selection /\ Cardinality(AheadIn(m, Selection)) >= reader.offset
    /\ reader.pc = "loading" =>
         \A m \in reader.wanted \ (reader.seen \cup PageIds) :
           /\ m \in Selection /\ Cardinality(PageIds) = Limit
           /\ Cardinality(AheadIn(m, Selection)) >= reader.offset + Limit
    /\ reader.pc = "done" => reader.wanted \subseteq reader.seen

SeenLiesBehind ==
  "arrived" \notin reader.moved =>
    /\ ~reader.repeated
    /\ reader.pc = "asking" =>
         \A m \in reader.seen \cap Selection :
           Cardinality(AheadIn(m, Selection)) < reader.offset
    /\ reader.pc = "loading" =>
         /\ PageIds \cap reader.seen = {}
         /\ \A m \in (reader.seen \cup PageIds) \cap Selection :
              Cardinality(AheadIn(m, Selection)) < reader.offset + Limit

Replaced == \E n \in Notification : Pipeline!Results(n) > 1

OnlyReplacedDepart ==
  "departed" \in reader.moved =>
    \/ reader.filter.status \in {"queued", "sent"}
    \/ reader.filter.status \in {"delivered", "dropped"} /\ Replaced

Walk == FinitelyMany /\ WantedLiesAhead /\ SeenLiesBehind /\ OnlyReplacedDepart

LEMMA SelectionIsFinite ==
  ASSUME FinitelyMany
  PROVE  Selection \in SUBSET Notification /\ IsFiniteSet(Selection)
<1>1. Selection \in SUBSET {n \in Notification : status[n] # "absent"}
  BY DEF Selection, Matching, Matches
<1> QED  BY <1>1, FS_Subset DEF FinitelyMany

-----------------------------------------------------------------------------
(* Writers. *)

LEMMA WriteMoves ==
  ASSUME TypeOK, Watch
  PROVE  /\ \E M \in SUBSET {"arrived", "departed"} : reader' = [reader EXCEPT !.moved = M]
         /\ reader.moved \subseteq reader'.moved
         /\ "departed" \notin reader'.moved => Selection \subseteq Selection'
         /\ "arrived" \notin reader'.moved => Selection' \subseteq Selection
         /\ "departed" \in reader'.moved =>
              "departed" \in reader.moved \/ ~(Selection \subseteq Selection')
<1> DEFINE before == Matching(reader.filter, status)
           after  == Matching(reader.filter, status')
           new == reader.moved \cup (IF after \subseteq before THEN {} ELSE {"arrived"})
                               \cup (IF before \subseteq after THEN {} ELSE {"departed"})
<1>1. reader' = [reader EXCEPT !.moved = new]  BY DEF Watch
<1>2. new \in SUBSET {"arrived", "departed"}  BY DEF TypeOK, Reader
<1>3. reader.moved \subseteq new
  OBVIOUS
<1>4. /\ "departed" \notin new => before \subseteq after
      /\ "arrived" \notin new => after \subseteq before
      /\ "departed" \in new => "departed" \in reader.moved \/ ~(before \subseteq after)
  OBVIOUS
<1> HIDE DEF new
<1>5. reader'.moved = new /\ reader'.filter = reader.filter
  BY <1>1 DEF TypeOK, Reader
<1>6. Selection = before /\ Selection' = after  BY <1>5 DEF Selection
<1> HIDE DEF before, after
<1> QED  BY <1>1, <1>2, <1>3, <1>4, <1>5, <1>6

LEMMA WriteWalks ==
  ASSUME TypeOK, HistoryTells, Walk, NEW n \in Notification, Write(n)
  PROVE  Walk'
<1> DEFINE Present == {k \in Notification : status[k] # "absent"}
<1>1. Watch  BY DEF Write
<1>2. PICK M \in SUBSET {"arrived", "departed"} : reader' = [reader EXCEPT !.moved = M]
  BY <1>1, WriteMoves
<1>3. /\ reader'.pc = reader.pc /\ reader'.filter = reader.filter
      /\ reader'.offset = reader.offset /\ reader'.page = reader.page
      /\ reader'.seen = reader.seen /\ reader'.wanted = reader.wanted
      /\ reader'.repeated = reader.repeated
      /\ reader.offset \in Nat
  BY <1>2 DEF TypeOK, Reader
<1>4. PageIds' = PageIds  BY <1>3 DEF PageIds
<1>5. FinitelyMany'
  <2>1. \A k \in Notification : k # n => status'[k] = status[k]  BY WriteEffect
  <2>2. Present' \in SUBSET (Present \cup {n})  BY <2>1
  <2>3. IsFiniteSet(Present \cup {n})  BY FS_AddElement DEF Walk, FinitelyMany
  <2> QED  BY <2>2, <2>3, FS_Subset DEF FinitelyMany
<1>6. /\ Selection \in SUBSET Notification /\ IsFiniteSet(Selection)
      /\ Selection' \in SUBSET Notification /\ IsFiniteSet(Selection')
  <2>1. Selection \in SUBSET Notification /\ IsFiniteSet(Selection)
    BY SelectionIsFinite DEF Walk
  <2>2. Selection' \in SUBSET Present'
    BY DEF Selection, Matching, Matches
  <2>3. IsFiniteSet(Present')  BY <1>5 DEF FinitelyMany
  <2> QED  BY <2>1, <2>2, <2>3, FS_Subset
<1>7. Limit \in Nat  BY FeedAssumption
<1>8. WantedLiesAhead'
  <2> SUFFICES ASSUME "departed" \notin reader'.moved PROVE WantedLiesAhead'
    BY DEF WantedLiesAhead
  <2>1. Selection \subseteq Selection' /\ "departed" \notin reader.moved
    BY <1>1, WriteMoves
  <2>2. \A m \in Selection :
          /\ Cardinality(AheadIn(m, Selection)) \in Nat
          /\ Cardinality(AheadIn(m, Selection')) \in Nat
          /\ Cardinality(AheadIn(m, Selection)) <= Cardinality(AheadIn(m, Selection'))
    BY <1>6, <2>1, AheadGrows
  <2>3. ASSUME reader.pc = "asking", NEW m \in reader.wanted \ reader.seen
        PROVE  m \in Selection' /\ Cardinality(AheadIn(m, Selection')) >= reader.offset
    <3>1. m \in Selection /\ Cardinality(AheadIn(m, Selection)) >= reader.offset
      BY <2>1, <2>3 DEF Walk, WantedLiesAhead
    <3> QED  BY <1>3, <2>1, <2>2, <3>1
  <2>4. ASSUME reader.pc = "loading", NEW m \in reader.wanted \ (reader.seen \cup PageIds)
        PROVE  /\ m \in Selection' /\ Cardinality(PageIds) = Limit
               /\ Cardinality(AheadIn(m, Selection')) >= reader.offset + Limit
    <3>1. /\ m \in Selection /\ Cardinality(PageIds) = Limit
          /\ Cardinality(AheadIn(m, Selection)) >= reader.offset + Limit
      BY <2>1, <2>4 DEF Walk, WantedLiesAhead
    <3> QED  BY <1>3, <1>7, <2>1, <2>2, <3>1
  <2>5. reader.pc = "done" => reader.wanted \subseteq reader.seen
    BY <2>1 DEF Walk, WantedLiesAhead
  <2> QED  BY <1>3, <1>4, <2>3, <2>4, <2>5 DEF WantedLiesAhead, AheadIn, Before
<1>9. SeenLiesBehind'
  <2> SUFFICES ASSUME "arrived" \notin reader'.moved PROVE SeenLiesBehind'
    BY DEF SeenLiesBehind
  <2>1. Selection' \subseteq Selection /\ "arrived" \notin reader.moved
    BY <1>1, WriteMoves
  <2>2. \A m \in Selection :
          /\ Cardinality(AheadIn(m, Selection)) \in Nat
          /\ Cardinality(AheadIn(m, Selection')) \in Nat
          /\ Cardinality(AheadIn(m, Selection')) <= Cardinality(AheadIn(m, Selection))
    BY <1>6, <2>1, AheadGrows
  <2>3. ASSUME reader.pc = "asking", NEW m \in reader.seen \cap Selection'
        PROVE  Cardinality(AheadIn(m, Selection')) < reader.offset
    <3>1. m \in Selection /\ Cardinality(AheadIn(m, Selection)) < reader.offset
      BY <2>1, <2>3 DEF Walk, SeenLiesBehind
    <3> QED  BY <1>3, <2>2, <3>1
  <2>4. ASSUME reader.pc = "loading", NEW m \in (reader.seen \cup PageIds) \cap Selection'
        PROVE  Cardinality(AheadIn(m, Selection')) < reader.offset + Limit
    <3>1. m \in Selection /\ Cardinality(AheadIn(m, Selection)) < reader.offset + Limit
      BY <2>1, <2>4 DEF Walk, SeenLiesBehind
    <3> QED  BY <1>3, <1>7, <2>2, <3>1
  <2>5. ~reader.repeated /\ (reader.pc = "loading" => PageIds \cap reader.seen = {})
    BY <2>1 DEF Walk, SeenLiesBehind
  <2> QED  BY <1>3, <1>4, <2>3, <2>4, <2>5 DEF SeenLiesBehind, AheadIn, Before
<1>10. OnlyReplacedDepart'
  <2> SUFFICES ASSUME "departed" \in reader'.moved,
                      reader.filter.status \notin {"queued", "sent"}
               PROVE  reader.filter.status \in {"delivered", "dropped"} /\ Replaced'
    BY <1>3 DEF OnlyReplacedDepart
  <2>1. CASE "departed" \in reader.moved
    <3>1. reader.filter.status \in {"delivered", "dropped"} /\ Replaced
      BY <2>1 DEF Walk, OnlyReplacedDepart
    <3>2. PICK k \in Notification : Pipeline!Results(k) > 1  BY <3>1 DEF Replaced
    <3>3. Pipeline!Results(k)' >= Pipeline!Results(k)  BY ResultsGrow
    <3>4. Pipeline!Results(k) \in Int /\ Pipeline!Results(k)' \in Int
      <4>1. TypeOK'  BY StepType DEF Next
      <4>2. /\ attempts[k] \in Nat /\ Len(history[k]) \in Nat
            /\ attempts'[k] \in Nat /\ Len(history'[k]) \in Nat
        BY <4>1, FeedAssumption DEF TypeOK
      <4>3. Pipeline!Results(k)' = Len(history'[k]) - attempts'[k] - 1
        BY DEF Pipeline!Results
      <4> QED  BY <4>2, <4>3 DEF Pipeline!Results
    <3>5. Pipeline!Results(k)' > 1  BY <3>2, <3>3, <3>4
    <3> QED  BY <3>1, <3>5 DEF Replaced
  <2>2. CASE "departed" \notin reader.moved
    <3>1. PICK k \in Selection : k \notin Selection'  BY <1>1, <2>2, WriteMoves
    <3>2. k \in Notification /\ status[k] # "absent" /\ reader.filter.status \in {"any", status[k]}
      BY <3>1 DEF Selection, Matching, Matches
    <3>3. status'[k] # "absent" /\ reader.filter.status # "any" /\ status'[k] # status[k]
      BY <1>3, <3>1, <3>2, ResultsGrow DEF Selection, Matching, Matches
    <3>4. status[k] \in {"delivered", "dropped"}
      BY <3>2, <3>3 DEF TypeOK, Status
    <3>5. Pipeline!Results(k)' > 1  BY <3>2, <3>3, <3>4, ResultsGrow
    <3> QED  BY <3>2, <3>3, <3>4, <3>5 DEF Replaced
  <2> QED  BY <2>1, <2>2
<1> QED  BY <1>5, <1>8, <1>9, <1>10 DEF Walk

-----------------------------------------------------------------------------
(* The client. *)

LEMMA BeginWalks ==
  ASSUME TypeOK, Walk, NEW f \in Filter, Begin(f)
  PROVE  Walk'
<1>1. /\ reader' = [Idle EXCEPT !.pc = "asking", !.filter = f, !.wanted = Matching(f, status)]
      /\ UNCHANGED <<status, attempts, history>>
  BY DEF Begin, rows
<1>2. /\ reader'.pc = "asking" /\ reader'.filter = f /\ reader'.wanted = Matching(f, status)
      /\ reader'.offset = 0 /\ reader'.seen = {} /\ reader'.moved = {} /\ ~reader'.repeated
  BY <1>1 DEF Idle
<1>3. FinitelyMany' /\ OnlyReplacedDepart'
  BY <1>1, <1>2 DEF Walk, FinitelyMany, OnlyReplacedDepart, Replaced, Pipeline!Results
<1>4. Selection' = Matching(f, status)  BY <1>1, <1>2 DEF Selection
<1>5. Selection' \in SUBSET Notification /\ IsFiniteSet(Selection')
  <2>1. Selection' \in SUBSET {k \in Notification : status[k] # "absent"}
    BY <1>4 DEF Matching, Matches
  <2> QED  BY <2>1, FS_Subset DEF Walk, FinitelyMany
<1>6. \A m \in Selection' : Cardinality(AheadIn(m, Selection')) \in Nat
  BY <1>5, AheadGrows
<1>7. WantedLiesAhead'
  <2>1. \A m \in Selection' : Cardinality(AheadIn(m, Selection')) >= 0  BY <1>6
  <2> QED  BY <1>2, <1>4, <2>1 DEF WantedLiesAhead, AheadIn, Before
<1>8. SeenLiesBehind'
  BY <1>2 DEF SeenLiesBehind
<1> QED  BY <1>3, <1>7, <1>8 DEF Walk

LEMMA SelectWalks ==
  ASSUME TypeOK, Walk, SelectRows
  PROVE  Walk'
<1>1. PICK P \in SUBSET Selection :
        /\ IsPage(P, Selection)
        /\ reader' = [reader EXCEPT !.pc = "loading", !.page = {RowOf(k) : k \in P}]
  BY DEF SelectRows, Selection
<1>2. reader.pc = "asking" /\ UNCHANGED <<status, attempts, history>>
  BY DEF SelectRows, rows
<1>3. /\ reader'.pc = "loading" /\ reader'.page = {RowOf(k) : k \in P}
      /\ reader'.filter = reader.filter /\ reader'.offset = reader.offset
      /\ reader'.seen = reader.seen /\ reader'.wanted = reader.wanted
      /\ reader'.moved = reader.moved /\ reader'.repeated = reader.repeated
      /\ reader.offset \in Nat
  BY <1>1 DEF TypeOK, Reader
<1>4. PageIds' = P
  <2>1. \A k \in P : RowOf(k).n = k  BY DEF RowOf
  <2>2. PageIds' = {row.n : row \in {RowOf(k) : k \in P}}  BY <1>3 DEF PageIds
  <2> HIDE DEF RowOf
  <2>3. \A x : x \in PageIds' <=> \E k \in P : x = RowOf(k).n  BY <2>2
  <2> QED  BY <2>1, <2>3
<1>5. Selection' = Selection  BY <1>2, <1>3 DEF Selection
<1>6. Selection \in SUBSET Notification /\ IsFiniteSet(Selection)
  BY SelectionIsFinite DEF Walk
<1>7. Limit \in Nat  BY FeedAssumption
<1>8. /\ \A m \in Selection \ P : Cardinality(AheadIn(m, Selection)) >= reader.offset =>
           /\ Cardinality(P) = Limit
           /\ Cardinality(AheadIn(m, Selection)) >= reader.offset + Limit
      /\ \A m \in P :
           /\ Cardinality(AheadIn(m, Selection)) >= reader.offset
           /\ Cardinality(AheadIn(m, Selection)) < reader.offset + Limit
  BY <1>1, <1>3, <1>6, PageCuts
<1>9. FinitelyMany' /\ OnlyReplacedDepart'
  BY <1>2, <1>3 DEF Walk, FinitelyMany, OnlyReplacedDepart, Replaced, Pipeline!Results
<1>10. WantedLiesAhead'
  <2> SUFFICES ASSUME "departed" \notin reader.moved,
                      NEW m \in reader.wanted \ (reader.seen \cup P)
               PROVE  /\ m \in Selection /\ Cardinality(P) = Limit
                      /\ Cardinality(AheadIn(m, Selection)) >= reader.offset + Limit
    BY <1>3, <1>4, <1>5 DEF WantedLiesAhead, AheadIn, Before
  <2>1. m \in Selection /\ Cardinality(AheadIn(m, Selection)) >= reader.offset
    BY <1>2 DEF Walk, WantedLiesAhead
  <2> QED  BY <1>8, <2>1
<1>11. SeenLiesBehind'
  <2> SUFFICES ASSUME "arrived" \notin reader.moved
               PROVE  /\ ~reader.repeated /\ P \cap reader.seen = {}
                      /\ \A m \in (reader.seen \cup P) \cap Selection :
                           Cardinality(AheadIn(m, Selection)) < reader.offset + Limit
    BY <1>3, <1>4, <1>5 DEF SeenLiesBehind, AheadIn, Before
  <2>1. \A m \in reader.seen \cap Selection :
          Cardinality(AheadIn(m, Selection)) < reader.offset
    BY <1>2 DEF Walk, SeenLiesBehind
  <2>2. \A m \in Selection : Cardinality(AheadIn(m, Selection)) \in Nat
    BY <1>6, AheadGrows
  <2>3. P \cap reader.seen = {}
    <3> SUFFICES ASSUME NEW m \in P \cap reader.seen PROVE FALSE  OBVIOUS
    <3>1. m \in Selection  BY <1>1
    <3> QED  BY <1>3, <1>8, <2>1, <2>2, <3>1
  <2>4. \A m \in reader.seen \cap Selection :
          Cardinality(AheadIn(m, Selection)) < reader.offset + Limit
    BY <1>3, <1>7, <2>1, <2>2
  <2>5. ~reader.repeated  BY DEF Walk, SeenLiesBehind
  <2>6. \A m \in P : Cardinality(AheadIn(m, Selection)) < reader.offset + Limit
    BY <1>8
  <2> QED  BY <2>3, <2>4, <2>5, <2>6
<1> QED  BY <1>9, <1>10, <1>11 DEF Walk

LEMMA LoadWalks ==
  ASSUME TypeOK, Walk, LoadHistories
  PROVE  Walk'
<1> DEFINE ids == PageIds
<1>1. reader.pc = "loading" /\ UNCHANGED <<status, attempts, history>>
  BY DEF LoadHistories, rows
<1>2. /\ reader'.pc = IF Cardinality(ids) < Limit THEN "done" ELSE "asking"
      /\ reader'.offset = reader.offset + Limit
      /\ reader'.filter = reader.filter
      /\ reader'.seen = reader.seen \cup ids /\ reader'.wanted = reader.wanted
      /\ reader'.moved = reader.moved
      /\ reader'.repeated = (reader.repeated \/ ids \cap reader.seen # {})
  BY DEF LoadHistories, PageIds, TypeOK, Reader
<1> HIDE DEF ids
<1>3. Selection' = Selection  BY <1>1, <1>2 DEF Selection
<1>4. FinitelyMany' /\ OnlyReplacedDepart'
  BY <1>1, <1>2 DEF Walk, FinitelyMany, OnlyReplacedDepart, Replaced, Pipeline!Results
<1>5. Limit \in Nat  BY FeedAssumption
<1>6. WantedLiesAhead'
  <2> SUFFICES ASSUME "departed" \notin reader.moved PROVE WantedLiesAhead'
    BY <1>2 DEF WantedLiesAhead
  <2>1. \A m \in reader.wanted \ (reader.seen \cup ids) :
          /\ m \in Selection /\ Cardinality(ids) = Limit
          /\ Cardinality(AheadIn(m, Selection)) >= reader.offset + Limit
    BY <1>1 DEF Walk, WantedLiesAhead, ids
  <2>2. Cardinality(ids) < Limit => reader.wanted \subseteq reader.seen \cup ids
    BY <1>5, <2>1
  <2> QED  BY <1>2, <1>3, <2>1, <2>2 DEF WantedLiesAhead, AheadIn, Before
<1>7. SeenLiesBehind'
  <2> SUFFICES ASSUME "arrived" \notin reader.moved PROVE SeenLiesBehind'
    BY <1>2 DEF SeenLiesBehind
  <2>1. /\ ~reader.repeated /\ ids \cap reader.seen = {}
        /\ \A m \in (reader.seen \cup ids) \cap Selection :
             Cardinality(AheadIn(m, Selection)) < reader.offset + Limit
    BY <1>1 DEF Walk, SeenLiesBehind, ids
  <2> QED  BY <1>2, <1>3, <2>1 DEF SeenLiesBehind, AheadIn, Before
<1> QED  BY <1>4, <1>6, <1>7 DEF Walk

\* A request for one notification ends the walk.
LEMMA OneEndsWalk ==
  ASSUME TypeOK, Walk, LoadHistory \/ \E n \in Notification : SelectOne(n)
  PROVE  Walk'
<1>1. UNCHANGED <<status, attempts, history>>  BY DEF LoadHistory, SelectOne, rows
<1>2. CASE LoadHistory
  <2>1. /\ reader'.pc = "idle" /\ reader'.filter = reader.filter
        /\ reader'.moved = reader.moved /\ reader'.repeated = reader.repeated
    BY <1>2 DEF LoadHistory, TypeOK, Reader
  <2> QED
    BY <1>1, <2>1
    DEF Walk, FinitelyMany, WantedLiesAhead, SeenLiesBehind, OnlyReplacedDepart, Replaced,
        Pipeline!Results
<1>3. CASE \E n \in Notification : SelectOne(n)
  <2>1. /\ reader'.pc \in {"idle", "fetching"} /\ reader'.moved = {} /\ ~reader'.repeated
    <3>1. PICK n \in Notification : SelectOne(n)  BY <1>3
    <3>2. CASE status[n] = "absent"  BY <3>1, <3>2 DEF SelectOne, Idle
    <3>3. CASE status[n] # "absent"  BY <3>1, <3>3 DEF SelectOne, Idle
    <3> QED  BY <3>2, <3>3
  <2> QED
    BY <1>1, <2>1
    DEF Walk, FinitelyMany, WantedLiesAhead, SeenLiesBehind, OnlyReplacedDepart, Replaced,
        Pipeline!Results
<1> QED  BY <1>2, <1>3

-----------------------------------------------------------------------------
LEMMA StepWalks == TypeOK /\ HistoryTells /\ Walk /\ [Next]_vars => Walk'
<1> SUFFICES ASSUME TypeOK, HistoryTells, Walk, [Next]_vars PROVE Walk'  OBVIOUS
<1>1. CASE UNCHANGED vars
  <2>1. UNCHANGED <<status, attempts, history, reader>>  BY <1>1 DEF vars, rows
  <2>2. Selection' = Selection /\ PageIds' = PageIds  BY <2>1 DEF Selection, PageIds
  <2>3. FinitelyMany' /\ OnlyReplacedDepart'
    BY <2>1 DEF Walk, FinitelyMany, OnlyReplacedDepart, Replaced, Pipeline!Results
  <2>4. WantedLiesAhead'  BY <2>1, <2>2 DEF Walk, WantedLiesAhead, AheadIn, Before
  <2>5. SeenLiesBehind'  BY <2>1, <2>2 DEF Walk, SeenLiesBehind, AheadIn, Before
  <2> QED  BY <2>3, <2>4, <2>5 DEF Walk
<1>2. CASE \E n \in Notification : Write(n)  BY <1>2, WriteWalks
<1>3. CASE \E f \in Filter : Begin(f)  BY <1>3, BeginWalks
<1>4. CASE SelectRows \/ LoadHistories  BY <1>4, SelectWalks, LoadWalks
<1>5. CASE LoadHistory \/ \E n \in Notification : SelectOne(n)  BY <1>5, OneEndsWalk
<1> QED  BY <1>1, <1>2, <1>3, <1>4, <1>5 DEF Next

LEMMA WalksStand == Spec => []Walk
<1>1. Init => Walk
  <2> SUFFICES ASSUME Init PROVE Walk  OBVIOUS
  <2>1. {n \in Notification : status[n] # "absent"} = {}  BY DEF Init, Pipeline!Init
  <2>2. FinitelyMany  BY <2>1, FS_EmptySet DEF FinitelyMany
  <2>3. reader.pc = "idle" /\ reader.moved = {} /\ ~reader.repeated  BY DEF Init, Idle
  <2> QED  BY <2>2, <2>3 DEF Walk, WantedLiesAhead, SeenLiesBehind, OnlyReplacedDepart
<1> QED  BY <1>1, TypesAreTold, StepWalks, PTL DEF Spec

(***************************************************************************)
(* A finished walk has shown all that matched at its start unless          *)
(* something has left the selection.  Nothing leaves a selection without a *)
(* filter for the status; one for a final status is left only when one     *)
(* result has replaced another.                                            *)
(***************************************************************************)
THEOREM WalksSkipNothing == Spec => []NothingSkipped
<1>1. Walk => NothingSkipped
  BY DEF Walk, WantedLiesAhead, OnlyReplacedDepart, Replaced, NothingSkipped
<1> QED  BY <1>1, WalksStand, PTL

\* Without arrivals in the selection no notification is shown twice.
THEOREM WalksRepeatNothing == Spec => []NothingRepeated
<1>1. Walk => NothingRepeated  BY DEF Walk, SeenLiesBehind, NothingRepeated
<1> QED  BY <1>1, WalksStand, PTL
=============================================================================
