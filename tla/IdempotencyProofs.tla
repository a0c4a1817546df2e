--------------------------- MODULE IdempotencyProofs ---------------------------
(***************************************************************************)
(* Proofs about idempotent requests, for any number of requests, any       *)
(* bodies and any lifetimes of records and locks.                          *)
(***************************************************************************)
EXTENDS Idempotency, FunctionTheorems, FiniteSetTheorems, TLAPS

LEMMA RecipientsFinite == ASSUME NEW r \in Request PROVE IsFiniteSet(Recipients(r))
<1>1. Body[r] \in Seq(Nat) /\ Body[r] # <<>>  BY IdempotencyAssumption
<1> DEFINE F == [i \in 1..Len(Body[r]) |-> Body[r][i]]
<1>2. DOMAIN Body[r] = 1..Len(Body[r]) /\ Len(Body[r]) \in Nat  BY <1>1
<1>3. F \in Surjection(1..Len(Body[r]), Recipients(r))
  BY <1>2, Fun_IsSurj DEF Recipients
<1>4. IsFiniteSet(1..Len(Body[r]))  BY <1>2, FS_Interval
<1> QED  BY <1>3, <1>4, FS_Surjection

LEMMA CreatedIsNat == ASSUME NEW r \in Request PROVE NotificationsCreated(r) \in Nat
BY RecipientsFinite, FS_CardinalityType DEF NotificationsCreated

LEMMA NoRowType == NoRow \in KeyRow /\ NoRow.batch = None /\ NoRow.ttl = 0
<1>1. PICK r \in Request : TRUE  BY IdempotencyAssumption
<1>2. Body[r] \in Hashes  BY DEF Hashes
<1> QED  BY <1>2 DEF NoRow, KeyRow

LEMMA ReplyTypes ==
  /\ \A s \in {"none", "accepted", "already_exists", "conflict", "in_progress", "error"} :
       Says(s) \in Reply
  /\ \A s \in {"accepted", "already_exists"}, b \in Request \cup {None}, k \in Nat :
       Names(s, b, k) \in Reply
BY DEF Says, Names, Reply

LEMMA AtTypes ==
  ASSUME NEW pc \in {"new", "reading", "writing", "rechecking", "releasing", "deleting",
                     "done"},
         NEW reply \in Reply
  PROVE  /\ At(pc, reply) \in RequestState
         /\ At(pc, reply).pc = pc /\ At(pc, reply).reply = reply
         /\ At(pc, reply).row = NoRow /\ At(pc, reply).ttl = 0
BY NoRowType, IdempotencyAssumption DEF At, RequestState

LEMMA ReservedType ==
  ASSUME NEW state \in RequestState, NEW row \in KeyRow, NEW t \in 0..KeyTTL
  PROVE  /\ [state EXCEPT !.row = row, !.ttl = t] \in RequestState
         /\ [state EXCEPT !.row = row, !.ttl = t].pc = state.pc
         /\ [state EXCEPT !.row = row, !.ttl = t].reply = state.reply
         /\ [state EXCEPT !.row = row, !.ttl = t].row = row
BY DEF RequestState

LEMMA RecordReplyType ==
  ASSUME TypeOK, NEW r \in Request PROVE ReplyFromRecord(r) \in RequestState
BY ReplyTypes, AtTypes DEF ReplyFromRecord, TypeOK, KeyRow

\* An insert leaves the shared tables with their types.
LEMMA InsertType ==
  ASSUME TypeOK, NEW r \in Request, Insert(r)
  PROVE  /\ keyRow' \in KeyRow
         /\ keyHolder' \in Request \cup {None}
         /\ batches' \subseteq Request
         /\ left' \in [Request -> 0..KeyTTL]
         /\ rows' \subseteq Request \X Nat
         /\ UNCHANGED <<lock, cleaner, mishaps>>
<1> USE DEF TypeOK
<1>1. req[r].ttl \in 0..KeyTTL  BY DEF RequestState
<1>2. keyRow' \in KeyRow
  <2>1. Body[r] \in Hashes /\ req[r].ttl \in Nat
    BY <1>1, IdempotencyAssumption DEF Hashes
  <2>2. keyRow' = [hash |-> Body[r], batch |-> r, created |-> NotificationsCreated(r),
                   ttl |-> req[r].ttl]
    BY DEF Insert
  <2> HIDE DEF TypeOK
  <2> QED  BY <2>1, <2>2, CreatedIsNat DEF KeyRow
<1>3. Recipients(r) \subseteq Nat
  <2>1. Body[r] \in Seq(Nat)  BY IdempotencyAssumption
  <2> HIDE DEF TypeOK
  <2>2. \A i \in DOMAIN Body[r] : Body[r][i] \in Nat  BY <2>1
  <2> QED  BY <2>2 DEF Recipients
<1>4. left' \in [Request -> 0..KeyTTL]  BY <1>1 DEF Insert
<1>5. rows' \subseteq Request \X Nat  BY <1>3 DEF Insert
<1>6. keyHolder' \in Request \cup {None} /\ batches' \subseteq Request  BY DEF Insert
<1> QED  BY <1>2, <1>4, <1>5, <1>6 DEF Insert

LEMMA PcType ==
  ASSUME TypeOK, NEW r \in Request, NEW pc \in {"deleting", "done"},
         req' = [req EXCEPT ![r].pc = pc]
  PROVE  req' \in [Request -> RequestState]
BY DEF TypeOK, RequestState

LEMMA FreeType ==
  /\ Free \in [owner: Request \cup {None}, ttl: 0..LockTTL]
  /\ \A r \in Request :
       [owner |-> r, ttl |-> LockTTL] \in [owner: Request \cup {None}, ttl: 0..LockTTL]
BY IdempotencyAssumption DEF Free

LEMMA CountDownType == ASSUME NEW k \in Nat, NEW t \in 0..k PROVE CountDown(t) \in 0..k
BY DEF CountDown

LEMMA LockTickType ==
  ASSUME NEW l \in [owner: Request \cup {None}, ttl: 0..LockTTL], ~(l.ttl <= 1)
  PROVE  [l EXCEPT !.ttl = @ - 1] \in [owner: Request \cup {None}, ttl: 0..LockTTL]
<1>1. l.ttl - 1 \in 0..LockTTL  BY IdempotencyAssumption
<1> QED  BY <1>1

LEMMA TypeStep == ASSUME TypeOK, [Next]_vars PROVE TypeOK'
<1> USE IdempotencyAssumption DEF TypeOK
<1>1. CASE UNCHANGED vars  BY <1>1 DEF vars
<1>2. ASSUME NEW r \in Request, RequestStep(r) PROVE TypeOK'
  <2> USE DEF Goto
  <2>1. CASE AcquireLock(r)  BY <2>1, FreeType, ReplyTypes, AtTypes DEF AcquireLock
  <2>2. CASE LockTaken(r)  BY <2>2, ReplyTypes, AtTypes DEF LockTaken
  <2>3. CASE ReserveKey(r)
    <3>1. /\ At("writing", Says("none")) \in RequestState
          /\ keyRow \in KeyRow /\ KeyTTL \in 0..KeyTTL
      BY ReplyTypes, AtTypes
    <3> HIDE DEF TypeOK
    <3>2. [At("writing", Says("none")) EXCEPT !.row = keyRow, !.ttl = KeyTTL] \in RequestState
      BY <3>1, ReservedType
    <3> QED  BY <2>3, <3>2 DEF ReserveKey, TypeOK
  <2>4. CASE GetRecord(r)  BY <2>4, RecordReplyType DEF GetRecord
  <2>5. CASE Commit(r)
    <3>1. Insert(r)  BY <2>5 DEF Commit
    <3>2. Names("accepted", r, NotificationsCreated(r)) \in Reply
      BY CreatedIsNat, ReplyTypes
    <3>3. req' \in [Request -> RequestState]  BY <2>5, <3>2, AtTypes DEF Commit
    <3> QED  BY <3>1, <3>3, InsertType
  <2>6. CASE Clash(r)  BY <2>6, ReplyTypes, AtTypes DEF Clash
  <2>7. CASE RecheckFinds(r)  BY <2>7, RecordReplyType DEF RecheckFinds
  <2>8. CASE RecheckFindsNothing(r)  BY <2>8, ReplyTypes, AtTypes DEF RecheckFindsNothing
  <2>9. CASE CheckToken(r)  BY <2>9, PcType DEF CheckToken
  <2>10. CASE DeleteLock(r)  BY <2>10, PcType, FreeType DEF DeleteLock
  <2> QED
    BY <1>2, <2>1, <2>2, <2>3, <2>4, <2>5, <2>6, <2>7, <2>8, <2>9, <2>10 DEF RequestStep
<1>3. ASSUME NEW r \in Request, RequestFault(r) PROVE TypeOK'
  <2> USE DEF Goto
  <2>1. CASE DatabaseFails(r)  BY <2>1, ReplyTypes, AtTypes DEF DatabaseFails
  <2>2. CASE CommitUnconfirmed(r)
    <3>1. Insert(r)  BY <2>2 DEF CommitUnconfirmed
    <3>2. req' \in [Request -> RequestState]
      BY <2>2, ReplyTypes, AtTypes DEF CommitUnconfirmed
    <3> QED  BY <3>1, <3>2, InsertType
  <2>3. CASE SetRaises(r)
    <3>1. lock' \in [owner: Request \cup {None}, ttl: 0..LockTTL]
      BY <2>3, FreeType DEF SetRaises
    <3> QED  BY <2>3, <3>1, ReplyTypes, AtTypes DEF SetRaises
  <2>4. CASE ReleaseRaises(r)
    <3>1. lock' \in [owner: Request \cup {None}, ttl: 0..LockTTL]
      BY <2>4, FreeType DEF ReleaseRaises
    <3> QED  BY <2>4, <3>1, ReplyTypes, AtTypes DEF ReleaseRaises
  <2>5. CASE Crash(r)  BY <2>5, ReplyTypes, AtTypes DEF Crash
  <2> QED  BY <1>3, <2>1, <2>2, <2>3, <2>4, <2>5 DEF RequestFault
<1>4. CASE SelectExpired  BY <1>4, NoRowType DEF SelectExpired
<1>5. CASE DeleteExpired  BY <1>5, NoRowType DEF DeleteExpired, Mishap
<1>6. CASE CleanerFails  BY <1>6, NoRowType DEF CleanerFails
<1>7. CASE Tick
  <2>1. keyRow' \in KeyRow
    <3>1. keyRow.ttl \in Nat /\ CountDown(keyRow.ttl) \in Nat  BY DEF KeyRow, CountDown
    <3> QED  BY <1>7, <3>1 DEF Tick, KeyRow
  <2>2. lock' \in [owner: Request \cup {None}, ttl: 0..LockTTL]
    <3>1. lock' = IF lock.ttl <= 1 THEN Free ELSE [lock EXCEPT !.ttl = @ - 1]
      BY <1>7 DEF Tick
    <3>2. CASE lock.ttl <= 1
      <4>1. lock' = Free  BY <3>1, <3>2
      <4> QED  BY <4>1, FreeType
    <3>3. CASE ~(lock.ttl <= 1)
      <4>1. lock \in [owner: Request \cup {None}, ttl: 0..LockTTL]  OBVIOUS
      <4>2. [lock EXCEPT !.ttl = @ - 1] \in [owner: Request \cup {None}, ttl: 0..LockTTL]
        BY <3>3, <4>1, LockTickType
      <4> QED  BY <3>1, <3>3, <4>2
    <3> QED  BY <3>2, <3>3
  <2>3. left' \in [Request -> 0..KeyTTL]  BY <1>7, CountDownType DEF Tick
  <2>4. req' \in [Request -> RequestState]
    <3>1. ASSUME NEW r \in Request
          PROVE  [req[r] EXCEPT !.ttl = CountDown(@)] \in RequestState
      <4>1. req[r] \in RequestState  OBVIOUS
      <4>2. CountDown(req[r].ttl) \in 0..KeyTTL
        BY <4>1, CountDownType DEF RequestState
      <4> QED  BY <4>1, <4>2 DEF RequestState
    <3>2. req' = [r \in Request |-> [req[r] EXCEPT !.ttl = CountDown(@)]]
      BY <1>7 DEF Tick
    <3> QED  BY <3>1, <3>2
  <2>5. mishaps' \subseteq Mishap  BY <1>7 DEF Tick, Mishap
  <2> QED  BY <1>7, <2>1, <2>2, <2>3, <2>4, <2>5 DEF Tick
<1> QED  BY <1>1, <1>2, <1>3, <1>4, <1>5, <1>6, <1>7 DEF Next

\* Every variable keeps its type.
THEOREM TypeCorrect == Spec => []TypeOK
<1>1. Init => TypeOK
  BY IdempotencyAssumption, NoRowType, FreeType, ReplyTypes, AtTypes DEF Init, TypeOK
<1> QED  BY <1>1, TypeStep, PTL DEF Spec

-----------------------------------------------------------------------------
(***************************************************************************)
(* AcceptedOnce is not inductive: it says nothing of the record, whose     *)
(* presence is what keeps a second batch out.  What is inductive ties the  *)
(* record, the unique column and the protection of a batch together, and   *)
(* says that whatever a request or the cleaner has read is expired still.  *)
(***************************************************************************)
Stale(row) == row # NoRow => row.batch \in batches /\ left[row.batch] = 0

Pending(r) == req[r].pc \in {"new", "reading", "writing", "rechecking"}

RecordStands ==
  keyRow # NoRow =>
    /\ keyRow.batch \in batches
    /\ keyHolder = keyRow.batch
    /\ keyRow.hash = Body[keyRow.batch]
    /\ keyRow.created = NotificationsCreated(keyRow.batch)
    /\ keyRow.ttl = left[keyRow.batch]

ProtectedByRecord == \A b \in batches : left[b] > 0 => keyRow # NoRow /\ keyRow.batch = b

ReadRowsAreStale == Stale(cleaner.row) /\ \A r \in Request : Stale(req[r].row)

PendingIsUndecided ==
  \A r \in Request : Pending(r) => r \notin batches /\ req[r].reply = Says("none")

KeyInv == RecordStands /\ ProtectedByRecord /\ ReadRowsAreStale /\ PendingIsUndecided

\* A step of r that writes no table.
Quiet(r) ==
  /\ UNCHANGED <<keyRow, keyHolder, batches, left, cleaner>>
  /\ \A s \in Request : s # r => req'[s] = req[s]
  /\ Stale(req'[r].row)
  /\ Pending(r)' => Pending(r) /\ req'[r].reply = Says("none")

\* A step of r that inserts its batch.
Inserting(r) ==
  /\ Insert(r)
  /\ \A s \in Request : s # r => req'[s] = req[s]
  /\ req'[r].row = NoRow
  /\ ~Pending(r)'

LEMMA GotoMoves ==
  ASSUME TypeOK, NEW r \in Request, NEW state, Goto(r, state)
  PROVE  req'[r] = state /\ \A s \in Request : s # r => req'[s] = req[s]
BY DEF TypeOK, Goto

LEMMA RecordReplyLeaves ==
  ASSUME TypeOK, NEW r \in Request
  PROVE  ReplyFromRecord(r).pc = "releasing" /\ ReplyFromRecord(r).row = NoRow
<1>1. /\ Says("conflict") \in Reply
      /\ Names("already_exists", keyRow.batch, keyRow.created) \in Reply
  BY ReplyTypes DEF TypeOK, KeyRow
<1>2. \A reply \in Reply : At("releasing", reply).pc = "releasing"
                          /\ At("releasing", reply).row = NoRow
  BY AtTypes
<1> QED  BY <1>1, <1>2 DEF ReplyFromRecord

LEMMA AtMoves ==
  ASSUME TypeOK, NEW r \in Request, NEW reply \in Reply,
         NEW pc \in {"reading", "rechecking", "releasing", "done"}, Goto(r, At(pc, reply))
  PROVE  /\ req'[r].pc = pc /\ req'[r].row = NoRow /\ req'[r].reply = reply
         /\ \A s \in Request : s # r => req'[s] = req[s]
BY GotoMoves, AtTypes

LEMMA LeavingIsQuiet ==
  ASSUME TypeOK, NEW r \in Request, NEW reply \in Reply, NEW pc \in {"releasing", "done"},
         Goto(r, At(pc, reply)), UNCHANGED <<keyRow, keyHolder, batches, left, cleaner>>
  PROVE  Quiet(r)
BY AtMoves DEF Quiet, Stale, Pending

LEMMA RequestMoves ==
  ASSUME TypeOK, KeyInv, NEW r \in Request, RequestStep(r) \/ RequestFault(r)
  PROVE  Quiet(r) \/ Inserting(r)
<1>1. CASE LockTaken(r)  BY <1>1, ReplyTypes, LeavingIsQuiet DEF LockTaken
<1>2. CASE RecheckFindsNothing(r)
  BY <1>2, ReplyTypes, LeavingIsQuiet DEF RecheckFindsNothing
<1>3. CASE DatabaseFails(r)  BY <1>3, ReplyTypes, LeavingIsQuiet DEF DatabaseFails
<1>4. CASE SetRaises(r)  BY <1>4, ReplyTypes, LeavingIsQuiet DEF SetRaises
<1>5. CASE ReleaseRaises(r)  BY <1>5, ReplyTypes, LeavingIsQuiet DEF ReleaseRaises
<1>6. CASE Crash(r)  BY <1>6, ReplyTypes, LeavingIsQuiet DEF Crash
<1>7. CASE GetRecord(r) \/ RecheckFinds(r)
  BY <1>7, GotoMoves, RecordReplyLeaves DEF GetRecord, RecheckFinds, Quiet, Stale, Pending
<1>8. CASE AcquireLock(r) \/ Clash(r)
  BY <1>8, ReplyTypes, AtMoves DEF AcquireLock, Clash, Quiet, Stale, Pending
<1>9. CASE ReserveKey(r)
  <2> DEFINE base == At("writing", Says("none"))
  <2> DEFINE state == [base EXCEPT !.row = keyRow, !.ttl = KeyTTL]
  <2>1. keyRow \in KeyRow /\ KeyTTL \in 0..KeyTTL
    BY IdempotencyAssumption DEF TypeOK
  <2>2. base \in RequestState /\ base.pc = "writing" /\ base.reply = Says("none")
    BY ReplyTypes, AtTypes
  <2>3. state.pc = "writing" /\ state.reply = Says("none") /\ state.row = keyRow
    <3> HIDE DEF base
    <3> QED  BY <2>1, <2>2 DEF RequestState
  <2>4. req'[r] = state /\ \A s \in Request : s # r => req'[s] = req[s]
    BY <1>9, GotoMoves DEF ReserveKey
  <2>5. Stale(keyRow)  BY <1>9 DEF ReserveKey, Stale, Expired, KeyInv, RecordStands
  <2> HIDE DEF state
  <2> QED  BY <1>9, <2>3, <2>4, <2>5 DEF ReserveKey, Quiet, Stale, Pending
<1>10. CASE CheckToken(r) \/ DeleteLock(r)
  <2>1. /\ req'[r].row = req[r].row /\ req'[r].pc \in {"deleting", "done"}
        /\ \A s \in Request : s # r => req'[s] = req[s]
    BY <1>10 DEF CheckToken, DeleteLock, TypeOK, RequestState
  <2> QED
    BY <1>10, <2>1
    DEF CheckToken, DeleteLock, Quiet, Stale, Pending, KeyInv, ReadRowsAreStale
<1>11. CASE Commit(r)
  <2>1. Names("accepted", r, NotificationsCreated(r)) \in Reply  BY CreatedIsNat, ReplyTypes
  <2> QED  BY <1>11, <2>1, AtMoves DEF Commit, Inserting, Pending
<1>12. CASE CommitUnconfirmed(r)
  BY <1>12, ReplyTypes, AtMoves DEF CommitUnconfirmed, Inserting, Pending
<1> QED
  BY <1>1, <1>2, <1>3, <1>4, <1>5, <1>6, <1>7, <1>8, <1>9, <1>10, <1>11, <1>12
  DEF RequestStep, RequestFault

LEMMA QuietKeepsKey == ASSUME KeyInv, NEW r \in Request, Quiet(r) PROVE KeyInv'
<1> USE DEF KeyInv, Quiet
<1>1. RecordStands'  BY DEF RecordStands
<1>2. ProtectedByRecord'  BY DEF ProtectedByRecord
<1>3. ReadRowsAreStale'  BY DEF ReadRowsAreStale, Stale
<1>4. PendingIsUndecided'  BY DEF PendingIsUndecided, Pending
<1> QED  BY <1>1, <1>2, <1>3, <1>4

\* The constraints admit a batch only when no earlier one is protected.
LEMMA InsertFindsNoneProtected ==
  ASSUME TypeOK, KeyInv, NEW r \in Request, Insert(r)
  PROVE  r \notin batches /\ \A b \in batches : left[b] = 0
<1>1. r \notin batches  BY DEF Insert, KeyInv, PendingIsUndecided, Pending
<1>2. ASSUME NEW b \in batches, left[b] > 0 PROVE FALSE
  <2>1. b \in Request /\ b # None  BY IdempotencyAssumption DEF TypeOK
  <2>2. keyHolder = b
    BY <1>2 DEF KeyInv, ProtectedByRecord, RecordStands
  <2>3. req[r].row # NoRow /\ req[r].row.batch = b
    BY <2>1, <2>2 DEF Insert, InsertIsUnique, HolderLeft
  <2> QED  BY <1>2, <2>3 DEF KeyInv, ReadRowsAreStale, Stale
<1>3. \A b \in batches : left[b] \in Nat  BY DEF TypeOK
<1> QED  BY <1>1, <1>2, <1>3

LEMMA InsertKeepsKey ==
  ASSUME TypeOK, KeyInv, NEW r \in Request, Inserting(r) PROVE KeyInv'
<1>1. r \notin batches /\ \A b \in batches : left[b] = 0
  BY InsertFindsNoneProtected DEF Inserting
<1>2. /\ keyRow' = [hash |-> Body[r], batch |-> r, created |-> NotificationsCreated(r),
                    ttl |-> req[r].ttl]
      /\ keyHolder' = r /\ batches' = batches \cup {r} /\ cleaner' = cleaner
      /\ left'[r] = req[r].ttl /\ \A b \in Request : b # r => left'[b] = left[b]
  BY DEF Inserting, Insert, TypeOK
<1>3. keyRow'.batch = r /\ keyRow' # NoRow
  BY <1>2, NoRowType, IdempotencyAssumption
<1>4. RecordStands'  BY <1>2, <1>3 DEF RecordStands, NotificationsCreated, Recipients
<1>5. ProtectedByRecord'
  BY <1>1, <1>2, <1>3 DEF ProtectedByRecord, TypeOK
<1>6. ASSUME NEW row, Stale(row) PROVE Stale(row)'
  BY <1>1, <1>2, <1>6 DEF Stale, TypeOK
<1>7. ReadRowsAreStale'
  BY <1>2, <1>6 DEF ReadRowsAreStale, KeyInv, Inserting, Stale
<1>8. PendingIsUndecided'
  BY <1>2 DEF PendingIsUndecided, KeyInv, Inserting, Pending
<1> QED  BY <1>4, <1>5, <1>7, <1>8 DEF KeyInv

\* The cleaner writes only when the record has expired.
LEMMA DeleteKeepsKey == ASSUME TypeOK, KeyInv, DeleteExpired PROVE KeyInv'
<1> USE DEF DeleteExpired
<1>1. batches' = batches /\ left' = left /\ req' = req /\ cleaner'.row = NoRow  OBVIOUS
<1>2. CASE Expired(keyRow)
  <2>1. keyRow' = NoRow  BY <1>2
  <2>2. RecordStands'  BY <2>1 DEF RecordStands
  <2>3. \A b \in batches : ~(left[b] > 0)
    <3>1. left[keyRow.batch] = 0  BY <1>2 DEF KeyInv, RecordStands, Expired
    <3>2. ASSUME NEW b \in batches, left[b] > 0 PROVE FALSE
      <4>1. b = keyRow.batch  BY <3>2 DEF KeyInv, ProtectedByRecord
      <4>2. left[b] = 0  BY <4>1, <3>1
      <4> HIDE DEF DeleteExpired
      <4> QED  BY <4>2, <3>2
    <3> QED  BY <3>2
  <2>4. ProtectedByRecord'  BY <1>1, <2>3 DEF ProtectedByRecord
  <2> QED
    BY <1>1, <2>2, <2>4
    DEF KeyInv, ReadRowsAreStale, Stale, PendingIsUndecided, Pending
<1>3. CASE ~Expired(keyRow)
  <2>1. keyRow' = keyRow  BY <1>3
  <2>2. keyRow # NoRow => keyHolder' = keyHolder
    <3> SUFFICES ASSUME keyRow # NoRow, cleaner.row # NoRow, keyHolder = cleaner.row.batch
                 PROVE  FALSE
      OBVIOUS
    <3>1. left[keyRow.batch] = 0 /\ keyRow.ttl = 0
      BY DEF KeyInv, RecordStands, ReadRowsAreStale, Stale
    <3> QED  BY <1>3, <3>1 DEF Expired
  <2> QED
    BY <1>1, <2>1, <2>2
    DEF KeyInv, RecordStands, ProtectedByRecord, ReadRowsAreStale, Stale, PendingIsUndecided,
        Pending
<1> QED  BY <1>2, <1>3

LEMMA TickKeepsKey == ASSUME TypeOK, KeyInv, Tick PROVE KeyInv'
<1>1. /\ keyHolder' = keyHolder /\ batches' = batches /\ cleaner' = cleaner
      /\ \A b \in Request : left'[b] = CountDown(left[b])
      /\ keyRow' = [keyRow EXCEPT !.ttl = CountDown(@)]
      /\ \A r \in Request : req'[r] = [req[r] EXCEPT !.ttl = CountDown(@)]
  BY DEF Tick
<1>2. \A b \in batches : b \in Request /\ b # None /\ left[b] \in Nat
  BY IdempotencyAssumption DEF TypeOK
<1>3. /\ keyRow'.batch = keyRow.batch /\ keyRow'.hash = keyRow.hash
      /\ keyRow'.created = keyRow.created /\ keyRow'.ttl = CountDown(keyRow.ttl)
  BY <1>1 DEF TypeOK, KeyRow
<1>4. keyRow = NoRow => keyRow' = NoRow
  BY <1>1, NoRowType DEF CountDown, KeyRow
<1>5. keyRow # NoRow => keyRow' # NoRow
  BY <1>2, <1>3, NoRowType DEF KeyInv, RecordStands
<1>6. RecordStands'
  BY <1>1, <1>2, <1>3, <1>4 DEF RecordStands, KeyInv, NotificationsCreated, Recipients
<1>7. ProtectedByRecord'
  BY <1>1, <1>2, <1>3, <1>5 DEF ProtectedByRecord, KeyInv, CountDown
<1>8. ASSUME NEW row, Stale(row) PROVE Stale(row)'
  BY <1>1, <1>2, <1>8 DEF Stale, CountDown
<1>9. \A r \in Request :
        req'[r].row = req[r].row /\ req'[r].pc = req[r].pc /\ req'[r].reply = req[r].reply
  <2> SUFFICES ASSUME NEW r \in Request
               PROVE  req'[r].row = req[r].row /\ req'[r].pc = req[r].pc
                      /\ req'[r].reply = req[r].reply
    OBVIOUS
  <2>1. req[r] \in RequestState  BY DEF TypeOK
  <2>2. req'[r] = [req[r] EXCEPT !.ttl = CountDown(@)]  BY <1>1
  <2> QED  BY <2>1, <2>2 DEF RequestState
<1>10. ReadRowsAreStale'
  BY <1>1, <1>8, <1>9 DEF ReadRowsAreStale, KeyInv, Stale
<1>11. PendingIsUndecided'  BY <1>1, <1>9 DEF PendingIsUndecided, KeyInv, Pending
<1> QED  BY <1>6, <1>7, <1>10, <1>11 DEF KeyInv

LEMMA KeyInvStep == ASSUME TypeOK, KeyInv, [Next]_vars PROVE KeyInv'
<1>1. CASE UNCHANGED vars
  BY <1>1 DEF vars, KeyInv, RecordStands, ProtectedByRecord, ReadRowsAreStale, Stale,
     PendingIsUndecided, Pending, NotificationsCreated, Recipients
<1>2. ASSUME NEW r \in Request, RequestStep(r) \/ RequestFault(r) PROVE KeyInv'
  BY <1>2, RequestMoves, QuietKeepsKey, InsertKeepsKey
<1>3. CASE SelectExpired
  <2>1. Stale(cleaner'.row)
    BY <1>3 DEF SelectExpired, Stale, Expired, KeyInv, RecordStands
  <2> QED
    BY <1>3, <2>1
    DEF SelectExpired, KeyInv, RecordStands, ProtectedByRecord, ReadRowsAreStale, Stale,
        PendingIsUndecided, Pending
<1>4. CASE CleanerFails
  BY <1>4
  DEF CleanerFails, KeyInv, RecordStands, ProtectedByRecord, ReadRowsAreStale, Stale,
      PendingIsUndecided, Pending
<1> QED  BY <1>1, <1>2, <1>3, <1>4, DeleteKeepsKey, TickKeepsKey DEF Next

LEMMA KeyInvInit == Init => KeyInv
<1> SUFFICES ASSUME Init PROVE KeyInv  OBVIOUS
<1>1. \A r \in Request : req[r].row = NoRow /\ req[r].reply = Says("none")
  BY ReplyTypes, AtTypes DEF Init
<1> QED
  BY <1>1
  DEF Init, KeyInv, RecordStands, ProtectedByRecord, ReadRowsAreStale, Stale,
      PendingIsUndecided

LEMMA KeyInvHolds == Spec => [](TypeOK /\ KeyInv)
<1>1. Init => TypeOK /\ KeyInv
  BY KeyInvInit, IdempotencyAssumption, NoRowType, FreeType, ReplyTypes, AtTypes
  DEF Init, TypeOK
<1> QED  BY <1>1, TypeStep, KeyInvStep, PTL DEF Spec

(***************************************************************************)
(* However many requests share a key, and however they fail: within the    *)
(* lifetime of a record there is one batch at most.                        *)
(***************************************************************************)
THEOREM OneBatchPerKey == Spec => []AcceptedOnce
<1>1. ASSUME KeyInv PROVE AcceptedOnce
  <2> DEFINE S == {b \in batches : left[b] > 0}
  <2>1. S = {} \/ S = {keyRow.batch}  BY <1>1 DEF KeyInv, ProtectedByRecord
  <2>2. Cardinality(S) = 0 \/ Cardinality(S) = 1  BY <2>1, FS_EmptySet, FS_Singleton
  <2> QED  BY <2>2 DEF AcceptedOnce
<1> QED  BY <1>1, KeyInvHolds, PTL

\* The record of a key always names the batch that holds the key.
THEOREM RecordAndHolderAgree == Spec => []RecordNamesHolder
<1>1. ASSUME KeyInv PROVE RecordNamesHolder
  BY <1>1 DEF KeyInv, RecordStands, RecordNamesHolder
<1> QED  BY <1>1, KeyInvHolds, PTL

-----------------------------------------------------------------------------
(* The refinement of KeyContract.                                          *)

Replies == [r \in Request |-> req[r].reply]

LEMMA SameCardinality == \A S : Contract!Cardinality(S) = Cardinality(S)
BY DEF Contract!Cardinality, Cardinality

\* What a record says to a pending request is what the contract allows.
LEMMA RecordReplyIsRepeat ==
  ASSUME TypeOK, KeyInv, NEW r \in Request, Pending(r), keyRow # NoRow,
         Goto(r, ReplyFromRecord(r)), UNCHANGED <<batches, left>>
  PROVE  Contract!Repeat(r)
<1> DEFINE b == keyRow.batch
<1>1. b \in batches /\ b \in Request /\ keyRow.hash = Body[b]
      /\ keyRow.created = NotificationsCreated(b)
  BY DEF KeyInv, RecordStands, TypeOK
<1>2. b \in Contract!Standing
  BY <1>1 DEF Contract!Standing, KeyInv, ProtectedByRecord, TypeOK
<1>3. Replies' = [Replies EXCEPT ![r] = ReplyFromRecord(r).reply]
  BY GotoMoves DEF Replies
<1>4. ReplyFromRecord(r).reply =
        IF Body[b] = Body[r] THEN Contract!Names("already_exists", b)
                             ELSE Contract!Says("conflict")
  <2>1. \A reply : At("releasing", reply).reply = reply  BY DEF At
  <2>2. Names("already_exists", b, keyRow.created) = Contract!Names("already_exists", b)
    <3>1. keyRow.created = Cardinality({Body[b][i] : i \in DOMAIN Body[b]})
      BY <1>1 DEF NotificationsCreated, Recipients
    <3> HIDE DEF b
    <3>2. Contract!Names("already_exists", b) =
            [status |-> "already_exists", batch |-> b,
             created |-> Cardinality({Body[b][i] : i \in DOMAIN Body[b]})]
      BY SameCardinality DEF Contract!Names
    <3>3. Names("already_exists", b, keyRow.created) =
            [status |-> "already_exists", batch |-> b, created |-> keyRow.created]
      BY DEF Names
    <3> QED  BY <3>1, <3>2, <3>3
  <2>3. Says("conflict") = Contract!Says("conflict")  BY DEF Contract!Says, Says, Names
  <2> QED  BY <1>1, <2>1, <2>2, <2>3 DEF ReplyFromRecord
<1>5. Replies[r] = Contract!Says("none")
  BY DEF KeyInv, PendingIsUndecided, Replies, Says, Names, Contract!Says
<1> QED  BY <1>2, <1>3, <1>4, <1>5 DEF Contract!Repeat, Replies

\* A refusal, a failure, or a step that the client does not see.
LEMMA AnswersOrStutters ==
  ASSUME TypeOK, KeyInv, NEW r \in Request, UNCHANGED <<batches, left>>,
         NEW pc, NEW reply \in Reply, Goto(r, At(pc, reply)),
         \/ reply = req[r].reply
         \/ reply \in {Says("error"), Says("none")}
         \/ reply = Says("in_progress") /\ req[r].reply = Says("none")
  PROVE  Contract!NoAnswer(r) \/ UNCHANGED Contract!vars
<1>1. req[r].reply \in Reply
  BY DEF TypeOK, RequestState
<1>2. Replies' = [Replies EXCEPT ![r] = reply]
  <2>1. At(pc, reply).reply = reply  BY DEF At
  <2>2. req'[r] = At(pc, reply) /\ \A s \in Request : s # r => req'[s] = req[s]
    BY GotoMoves
  <2>3. \A s \in Request : req'[s].reply = IF s = r THEN reply ELSE req[s].reply
    BY <2>1, <2>2
  <2> QED  BY <2>3 DEF Replies
<1>3. CASE reply = req[r].reply
  BY <1>2, <1>3 DEF Replies, Contract!vars
<1>4. CASE reply # req[r].reply
  <2>1. \A st : Says(st) = Contract!Says(st)  BY DEF Contract!Says, Says, Names
  <2>2. Says("error") # Says("in_progress") /\ Says("none") # Says("in_progress")
    BY DEF Says, Names
  <2>3. Replies[r] = req[r].reply /\ Replies'[r] = reply  BY <1>2 DEF Replies
  <2>4. PICK status \in {"in_progress", "error", "none"} :
          /\ reply = Contract!Says(status)
          /\ reply = Contract!Says("in_progress") => req[r].reply = Contract!Says("none")
    BY <1>4, <2>1, <2>2
  <2>5. Replies' = [Replies EXCEPT ![r] = Contract!Says(status)]  BY <1>2, <2>4
  <2> QED  BY <2>3, <2>4, <2>5 DEF Contract!NoAnswer, Replies
<1> QED  BY <1>3, <1>4

LEMMA InsertIsAccept ==
  ASSUME TypeOK, KeyInv, NEW r \in Request, Commit(r) \/ CommitUnconfirmed(r)
  PROVE  Contract!Accept(r)
<1>1. Insert(r)  BY DEF Commit, CommitUnconfirmed
<1>2. r \notin batches /\ \A b \in batches : left[b] = 0
  BY <1>1, InsertFindsNoneProtected
<1>3. /\ batches' = batches \cup {r}
      /\ \E t \in 0..KeyTTL : left' = [left EXCEPT ![r] = t]
  BY <1>1 DEF Insert, TypeOK, RequestState
<1>4. /\ Names("accepted", r, NotificationsCreated(r)) = Contract!Names("accepted", r)
      /\ Says("error") = Contract!Says("error")
  BY SameCardinality
  DEF Contract!Names, Contract!Says, Says, Names, NotificationsCreated, Recipients
<1>5. PICK reply \in {Names("accepted", r, NotificationsCreated(r)), Says("error")} :
        Goto(r, At("releasing", reply))
  BY DEF Commit, CommitUnconfirmed
<1>6. Replies' = [Replies EXCEPT ![r] = reply]
  <2>1. At("releasing", reply).reply = reply  BY DEF At
  <2> QED  BY <2>1, <1>5, GotoMoves DEF Replies
<1> QED  BY <1>2, <1>3, <1>4, <1>6 DEF Contract!Accept, Replies

LEMMA RequestRefines ==
  ASSUME TypeOK, KeyInv, NEW r \in Request, RequestStep(r) \/ RequestFault(r)
  PROVE  [Contract!Next]_(Contract!vars)
<1>1. Pending(r) => req[r].reply = Says("none")  BY DEF KeyInv, PendingIsUndecided
<1>2. CASE Commit(r) \/ CommitUnconfirmed(r)
  BY <1>2, InsertIsAccept DEF Contract!Next
<1>3. CASE GetRecord(r) \/ RecheckFinds(r)
  BY <1>3, RecordReplyIsRepeat DEF GetRecord, RecheckFinds, Pending, Contract!Next
<1>4. CASE LockTaken(r) \/ RecheckFindsNothing(r) \/ DatabaseFails(r) \/ SetRaises(r)
           \/ ReleaseRaises(r) \/ Crash(r) \/ AcquireLock(r) \/ Clash(r)
  BY <1>1, <1>4, ReplyTypes, AnswersOrStutters
  DEF LockTaken, RecheckFindsNothing, DatabaseFails, SetRaises, ReleaseRaises, Crash,
      AcquireLock, Clash, Pending, Contract!Next
<1>5. CASE ReserveKey(r) \/ CheckToken(r) \/ DeleteLock(r)
  <2>1. ASSUME NEW s \in Request PROVE req'[s].reply = req[s].reply
    <3>1. CASE ReserveKey(r)
      <4>1. Says("none") \in Reply /\ keyRow \in KeyRow /\ KeyTTL \in 0..KeyTTL
        BY ReplyTypes, IdempotencyAssumption DEF TypeOK
      <4>2. [At("writing", Says("none")) EXCEPT !.row = keyRow, !.ttl = KeyTTL].reply
              = Says("none")
        BY <4>1 DEF At
      <4> QED  BY <1>1, <3>1, <4>2, GotoMoves DEF ReserveKey, Pending
    <3>2. CASE CheckToken(r) \/ DeleteLock(r)
      BY <3>2 DEF CheckToken, DeleteLock, TypeOK, RequestState
    <3> QED  BY <1>5, <3>1, <3>2
  <2>2. UNCHANGED <<batches, left>>  BY <1>5 DEF ReserveKey, CheckToken, DeleteLock
  <2> QED  BY <2>1, <2>2 DEF Contract!vars
<1> QED  BY <1>2, <1>3, <1>4, <1>5 DEF RequestStep, RequestFault

LEMMA StepRefines ==
  ASSUME TypeOK, KeyInv, [Next]_vars PROVE [Contract!Next]_(Contract!vars)
<1>1. CASE UNCHANGED vars  BY <1>1 DEF vars, Contract!vars
<1>2. CASE SelectExpired \/ DeleteExpired \/ CleanerFails
  BY <1>2 DEF SelectExpired, DeleteExpired, CleanerFails, Contract!vars
<1>3. CASE Tick
  <2>1. ASSUME NEW r \in Request PROVE req'[r].reply = req[r].reply
    <3>1. req[r] \in RequestState  BY DEF TypeOK
    <3>2. req'[r] = [req[r] EXCEPT !.ttl = CountDown(@)]  BY <1>3 DEF Tick
    <3> QED  BY <3>1, <3>2 DEF RequestState
  <2>2. Replies' = Replies  BY <2>1 DEF Replies
  <2>3. left' = [r \in Request |-> IF left[r] = 0 THEN 0 ELSE left[r] - 1]
        /\ batches' = batches
    BY <1>3 DEF Tick, CountDown
  <2> QED  BY <2>2, <2>3 DEF Contract!Tick, Contract!Next, Replies
<1> QED  BY <1>1, <1>2, <1>3, RequestRefines DEF Next

(***************************************************************************)
(* create_bulk and the cleaner keep the key's contract: every step of      *)
(* theirs, faults included, is one that KeyContract allows.                *)
(***************************************************************************)
THEOREM KeepsContract == Spec => ImplementsKeyContract
<1>1. Init => Contract!Init
  <2>1. \A reply : At("new", reply).reply = reply  BY DEF At
  <2> QED  BY <2>1 DEF Init, Contract!Init, Contract!Says, Says, Names
<1> QED
  BY <1>1, StepRefines, KeyInvHolds, PTL DEF Spec, ImplementsKeyContract, Contract!Spec

-----------------------------------------------------------------------------
(***************************************************************************)
(* The Redis lock.  As long as no lock has run out under its request, an   *)
(* active request owns the lock; and as long as the cleaner has deleted    *)
(* nothing unselected either, the active request finds the record that it  *)
(* has read, or none, when it writes.                                      *)
(***************************************************************************)
OwnerHasTime == lock.owner # None => lock.ttl > 0

ActiveOwnsLock ==
  "lock expired" \notin mishaps => \A r \in Request : Active(r) => lock.owner = r

WriterSeesRecord ==
  mishaps = {} => \A r \in Request :
    /\ req[r].pc # "rechecking"
    /\ req[r].pc = "writing" => keyRow \in {NoRow, req[r].row} /\ req[r].row.ttl = 0

LockInv == OwnerHasTime /\ ActiveOwnsLock /\ OnlyTheRaceBlocksKey /\ WriterSeesRecord

LEMMA ActiveMoves ==
  ASSUME TypeOK, KeyInv, NEW r \in Request, RequestStep(r) \/ RequestFault(r)
  PROVE  /\ mishaps' = mishaps
         /\ \A s \in Request : s # r => req'[s] = req[s]
         /\ \/ lock' = lock /\ (Active(r)' => Active(r))
            \/ lock = Free /\ lock' = [owner |-> r, ttl |-> LockTTL]
            \/ Active(r) /\ ~Active(r)' /\ lock' = Free
<1>1. mishaps' = mishaps
  BY DEF RequestStep, RequestFault, AcquireLock, LockTaken, ReserveKey, GetRecord, Commit, Insert,
     Clash, RecheckFinds, RecheckFindsNothing, CheckToken, DeleteLock, DatabaseFails,
     CommitUnconfirmed, SetRaises, ReleaseRaises, Crash
<1>2. \A s \in Request : s # r => req'[s] = req[s]
  BY RequestMoves DEF Quiet, Inserting
<1>3. CASE AcquireLock(r)  BY <1>1, <1>2, <1>3 DEF AcquireLock
<1>4. CASE SetRaises(r)
  <2>1. ~Active(r)'  BY <1>4, ReplyTypes, AtMoves DEF SetRaises, Active
  <2> QED  BY <1>1, <1>2, <1>4, <2>1 DEF SetRaises
<1>5. CASE DeleteLock(r) \/ ReleaseRaises(r)
  <2>1. Active(r)  BY <1>5 DEF DeleteLock, ReleaseRaises, Active
  <2>2. CASE DeleteLock(r)
    BY <1>1, <1>2, <2>1, <2>2 DEF DeleteLock, Active, TypeOK, RequestState
  <2>3. CASE ReleaseRaises(r)
    <3>1. ~Active(r)'  BY <2>3, ReplyTypes, AtMoves DEF ReleaseRaises, Active
    <3> QED  BY <1>1, <1>2, <2>1, <2>3, <3>1 DEF ReleaseRaises
  <2> QED  BY <1>5, <2>2, <2>3
<1>6. CASE LockTaken(r)
  <2>1. ~Active(r)'  BY <1>6, ReplyTypes, AtMoves DEF LockTaken, Active
  <2> QED  BY <1>1, <1>2, <1>6, <2>1 DEF LockTaken
<1>7. CASE \/ ReserveKey(r) \/ GetRecord(r) \/ Commit(r) \/ Clash(r) \/ RecheckFinds(r)
           \/ RecheckFindsNothing(r) \/ CheckToken(r) \/ DatabaseFails(r)
           \/ CommitUnconfirmed(r) \/ Crash(r)
  <2>1. Active(r) /\ lock' = lock
    BY <1>7
    DEF ReserveKey, GetRecord, Commit, Insert, Clash, RecheckFinds, RecheckFindsNothing,
        CheckToken, DatabaseFails, CommitUnconfirmed, Crash, Active
  <2> QED  BY <1>1, <1>2, <2>1
<1> QED  BY <1>3, <1>4, <1>5, <1>6, <1>7 DEF RequestStep, RequestFault

LEMMA RequestKeepsLock ==
  ASSUME TypeOK, KeyInv, LockInv, NEW r \in Request, RequestStep(r) \/ RequestFault(r)
  PROVE  OwnerHasTime' /\ ActiveOwnsLock'
<1>1. OwnerHasTime'
  BY ActiveMoves, IdempotencyAssumption DEF OwnerHasTime, LockInv, Free
<1>2. ActiveOwnsLock'
  <2> SUFFICES ASSUME "lock expired" \notin mishaps, NEW s \in Request, Active(s)'
               PROVE  lock'.owner = s
    BY ActiveMoves DEF ActiveOwnsLock
  <2>1. s # r => Active(s)  BY ActiveMoves DEF Active
  <2>2. \A q \in Request : Active(q) => lock.owner = q  BY DEF LockInv, ActiveOwnsLock
  <2>3. CASE lock' = lock /\ (Active(r)' => Active(r))
    BY <2>1, <2>2, <2>3 DEF Active
  <2>4. CASE lock = Free /\ lock' = [owner |-> r, ttl |-> LockTTL]
    <3>1. \A q \in Request : ~Active(q)  BY <2>2, <2>4, IdempotencyAssumption DEF Free
    <3> QED  BY <2>1, <2>4, <3>1
  <2>5. CASE Active(r) /\ ~Active(r)' /\ lock' = Free
    <3>1. s # r  BY <2>5 DEF Active
    <3> QED  BY <2>1, <2>2, <2>5, <3>1
  <2> QED  BY <2>3, <2>4, <2>5, ActiveMoves
<1> QED  BY <1>1, <1>2

LEMMA RequestKeepsReuse ==
  ASSUME TypeOK, KeyInv, LockInv, NEW r \in Request, RequestStep(r) \/ RequestFault(r)
  PROVE  OnlyTheRaceBlocksKey'
<1>1. mishaps' = mishaps  BY ActiveMoves
<1>2. CASE Quiet(r)
  BY <1>1, <1>2 DEF Quiet, LockInv, OnlyTheRaceBlocksKey, ExpiredKeyCanBeReused
<1>3. CASE Inserting(r)
  <2>1. keyRow'.batch = r  BY <1>3 DEF Inserting, Insert
  <2>2. keyRow' # NoRow  BY <2>1, NoRowType, IdempotencyAssumption
  <2> QED  BY <2>2 DEF OnlyTheRaceBlocksKey, ExpiredKeyCanBeReused
<1> QED  BY <1>2, <1>3, RequestMoves

\* Without a mishap both constraints admit what an active request writes.
LEMMA WriterFindsNoClash ==
  ASSUME TypeOK, KeyInv, LockInv, mishaps = {}, NEW r \in Request, req[r].pc = "writing"
  PROVE  InsertIsUnique(r)
<1>1. keyRow = NoRow \/ keyRow = req[r].row  BY DEF LockInv, WriterSeesRecord
<1>2. keyRow = NoRow => keyHolder = None
  BY DEF LockInv, OnlyTheRaceBlocksKey, ExpiredKeyCanBeReused
<1>3. keyRow # NoRow => keyHolder = keyRow.batch  BY DEF KeyInv, RecordStands
<1> QED  BY <1>1, <1>2, <1>3 DEF InsertIsUnique, HolderLeft

LEMMA RequestKeepsWriter ==
  ASSUME TypeOK, KeyInv, LockInv, NEW r \in Request, RequestStep(r) \/ RequestFault(r)
  PROVE  WriterSeesRecord'
<1> SUFFICES ASSUME mishaps = {}, NEW s \in Request
             PROVE  /\ req'[s].pc # "rechecking"
                    /\ req'[s].pc = "writing" =>
                         keyRow' \in {NoRow, req'[s].row} /\ req'[s].row.ttl = 0
  BY ActiveMoves DEF WriterSeesRecord
<1>1. /\ req[s].pc # "rechecking"
      /\ req[s].pc = "writing" => keyRow \in {NoRow, req[s].row} /\ req[s].row.ttl = 0
  BY DEF LockInv, WriterSeesRecord
<1>2. CASE s # r
  <2>1. req'[s] = req[s]  BY <1>2, ActiveMoves
  <2>2. req[s].pc = "writing" => ~Inserting(r)
    <3> SUFFICES ASSUME req[s].pc = "writing", Insert(r) PROVE FALSE  BY DEF Inserting
    <3>1. Active(s) /\ Active(r)  BY DEF Active, Insert
    <3> QED  BY <1>2, <3>1 DEF LockInv, ActiveOwnsLock
  <2>3. Quiet(r) => keyRow' = keyRow  BY DEF Quiet
  <2> QED  BY <1>1, <2>1, <2>2, <2>3, RequestMoves
<1>3. CASE s = r
  <2>1. CASE ReserveKey(r)
    <3> DEFINE base == At("writing", Says("none"))
    <3> DEFINE state == [base EXCEPT !.row = keyRow, !.ttl = KeyTTL]
    <3>1. base \in RequestState /\ base.pc = "writing"  BY ReplyTypes, AtTypes
    <3>2. keyRow \in KeyRow /\ KeyTTL \in 0..KeyTTL  BY IdempotencyAssumption DEF TypeOK
    <3>3. state.pc = "writing" /\ state.row = keyRow
      <4> HIDE DEF base
      <4> QED  BY <3>1, <3>2 DEF RequestState
    <3>4. req'[r] = state  BY <2>1, GotoMoves DEF ReserveKey
    <3>5. keyRow.ttl = 0 /\ keyRow' = keyRow
      BY <2>1, NoRowType DEF ReserveKey, Expired
    <3> HIDE DEF state
    <3> QED  BY <1>3, <3>3, <3>4, <3>5
  <2>2. CASE Clash(r)
    <3>1. req[r].pc = "writing" /\ ~InsertIsUnique(r)  BY <2>2 DEF Clash
    <3> QED  BY <3>1, WriterFindsNoClash
  <2>3. CASE ~ReserveKey(r) /\ ~Clash(r)
    <3>1. req'[r].pc \in {"reading", "releasing", "deleting", "done"}
      <4>1. CASE GetRecord(r) \/ RecheckFinds(r)
        BY <4>1, GotoMoves, RecordReplyLeaves DEF GetRecord, RecheckFinds
      <4>2. CASE CheckToken(r) \/ DeleteLock(r)
        BY <4>2 DEF CheckToken, DeleteLock, TypeOK, RequestState
      <4>3. CASE Commit(r)
        <5>1. Names("accepted", r, NotificationsCreated(r)) \in Reply
          BY CreatedIsNat, ReplyTypes
        <5> QED  BY <4>3, <5>1, AtMoves DEF Commit
      <4>4. CASE \/ AcquireLock(r) \/ LockTaken(r) \/ RecheckFindsNothing(r)
                 \/ DatabaseFails(r) \/ CommitUnconfirmed(r) \/ SetRaises(r)
                 \/ ReleaseRaises(r) \/ Crash(r)
        BY <4>4, ReplyTypes, AtMoves
        DEF AcquireLock, LockTaken, RecheckFindsNothing, DatabaseFails, CommitUnconfirmed,
            SetRaises, ReleaseRaises, Crash
      <4> QED  BY <2>3, <4>1, <4>2, <4>3, <4>4 DEF RequestStep, RequestFault
    <3> QED  BY <1>3, <3>1
  <2> QED  BY <2>1, <2>2, <2>3
<1> QED  BY <1>2, <1>3

LEMMA AboveOne == \A n \in Nat : (n > 1 => ~(n <= 1)) /\ (n > 0 /\ n # 1 => n > 1)
OBVIOUS

LEMMA TickKeepsLock == ASSUME TypeOK, KeyInv, LockInv, Tick PROVE LockInv'
<1>1. /\ keyHolder' = keyHolder
      /\ keyRow' = [keyRow EXCEPT !.ttl = CountDown(@)]
      /\ lock' = IF lock.ttl <= 1 THEN Free ELSE [lock EXCEPT !.ttl = @ - 1]
      /\ mishaps \subseteq mishaps'
      /\ lock.ttl = 1 /\ (\E r \in Request : Active(r) /\ lock.owner = r)
           => "lock expired" \in mishaps'
      /\ \A r \in Request : req'[r] = [req[r] EXCEPT !.ttl = CountDown(@)]
  BY DEF Tick
<1>2. lock.ttl \in Nat /\ (lock.ttl > 1 => lock'.owner = lock.owner /\ lock'.ttl = lock.ttl - 1)
  <2>1. lock \in [owner: Request \cup {None}, ttl: 0..LockTTL] /\ lock.ttl \in Nat
    BY IdempotencyAssumption DEF TypeOK
  <2>2. lock.ttl > 1 => lock' = [lock EXCEPT !.ttl = @ - 1]  BY <1>1, <2>1, AboveOne, Zenon
  <2> QED  BY <2>1, <2>2
<1>3. ASSUME NEW r \in Request PROVE req'[r].pc = req[r].pc /\ req'[r].row = req[r].row
  <2>1. req[r] \in RequestState  BY DEF TypeOK
  <2>2. req'[r] = [req[r] EXCEPT !.ttl = CountDown(@)]  BY <1>1
  <2> QED  BY <2>1, <2>2 DEF RequestState
<1>4. OwnerHasTime'
  <2>1. CASE lock.ttl <= 1  BY <1>1, <2>1 DEF OwnerHasTime, Free
  <2>2. CASE ~(lock.ttl <= 1)  BY <1>2, <2>2 DEF OwnerHasTime
  <2> QED  BY <2>1, <2>2
<1>5. ActiveOwnsLock'
  <2> SUFFICES ASSUME "lock expired" \notin mishaps', NEW r \in Request, Active(r)'
               PROVE  lock'.owner = r
    BY DEF ActiveOwnsLock
  <2>1. Active(r)  BY <1>3 DEF Active
  <2>2. lock.owner = r  BY <1>1, <2>1 DEF LockInv, ActiveOwnsLock
  <2>3. lock.ttl > 0 /\ lock.ttl # 1
    BY <1>1, <2>1, <2>2, IdempotencyAssumption DEF LockInv, OwnerHasTime
  <2>4. lock.ttl > 1  BY <1>2, <2>3, AboveOne, Zenon
  <2> QED  BY <1>2, <2>2, <2>4
<1>6. keyRow.ttl = 0 => keyRow' = keyRow
  BY <1>1 DEF TypeOK, KeyRow, CountDown
<1>7. keyRow' = NoRow => keyRow = NoRow
  <2>1. keyRow'.batch = keyRow.batch  BY <1>1 DEF TypeOK, KeyRow
  <2> QED  BY <2>1, NoRowType, IdempotencyAssumption DEF KeyInv, RecordStands, TypeOK
<1>8. OnlyTheRaceBlocksKey'
  BY <1>1, <1>7 DEF LockInv, OnlyTheRaceBlocksKey, ExpiredKeyCanBeReused
<1>9. WriterSeesRecord'
  <2> SUFFICES ASSUME mishaps' = {}, NEW r \in Request
               PROVE  /\ req'[r].pc # "rechecking"
                      /\ req'[r].pc = "writing" =>
                           keyRow' \in {NoRow, req'[r].row} /\ req'[r].row.ttl = 0
    BY DEF WriterSeesRecord
  <2>1. mishaps = {}  BY <1>1
  <2>2. (keyRow = NoRow \/ (keyRow = req[r].row /\ req[r].row.ttl = 0)) => keyRow' = keyRow
    BY <1>6, NoRowType
  <2> QED  BY <1>3, <2>1, <2>2 DEF LockInv, WriterSeesRecord
<1> QED  BY <1>4, <1>5, <1>8, <1>9 DEF LockInv

LEMMA CleanerKeepsLock ==
  ASSUME TypeOK, KeyInv, LockInv, SelectExpired \/ DeleteExpired \/ CleanerFails PROVE LockInv'
<1>1. /\ req' = req /\ lock' = lock /\ mishaps \subseteq mishaps'
      /\ keyRow' = keyRow \/ keyRow' = NoRow
  BY DEF SelectExpired, DeleteExpired, CleanerFails
<1>2. OwnerHasTime' /\ ActiveOwnsLock'
  BY <1>1 DEF LockInv, OwnerHasTime, ActiveOwnsLock, Active
<1>3. WriterSeesRecord'
  BY <1>1 DEF LockInv, WriterSeesRecord
<1>4. OnlyTheRaceBlocksKey'
  <2> SUFFICES ASSUME "unselected deleted" \notin mishaps', keyRow' = NoRow
               PROVE  keyHolder' = None
    BY DEF OnlyTheRaceBlocksKey, ExpiredKeyCanBeReused
  <2>1. keyRow = NoRow => keyHolder = None
    BY <1>1 DEF LockInv, OnlyTheRaceBlocksKey, ExpiredKeyCanBeReused
  <2>2. keyHolder' = keyHolder \/ keyHolder' = None
    BY DEF SelectExpired, DeleteExpired, CleanerFails
  <2>3. CASE keyRow # NoRow
    <3>1. DeleteExpired /\ Expired(keyRow)
      BY <2>3 DEF SelectExpired, DeleteExpired, CleanerFails
    <3>2. keyRow = cleaner.row  BY <3>1 DEF DeleteExpired
    <3> QED  BY <2>3, <3>1, <3>2 DEF DeleteExpired, KeyInv, RecordStands
  <2> QED  BY <2>1, <2>2, <2>3
<1> QED  BY <1>2, <1>3, <1>4 DEF LockInv

LEMMA LockInvHolds == Spec => [](KeyInv /\ LockInv)
<1>1. Init => LockInv
  <2>1. \A reply : At("new", reply).pc = "new"  BY DEF At
  <2> QED
    BY <2>1
    DEF Init, LockInv, OwnerHasTime, ActiveOwnsLock, OnlyTheRaceBlocksKey,
        ExpiredKeyCanBeReused, WriterSeesRecord, Free, Active
<1>2. TypeOK /\ KeyInv /\ LockInv /\ [Next]_vars => LockInv'
  <2> SUFFICES ASSUME TypeOK, KeyInv, LockInv, [Next]_vars PROVE LockInv'
    OBVIOUS
  <2>1. CASE UNCHANGED vars
    BY <2>1
    DEF vars, LockInv, OwnerHasTime, ActiveOwnsLock, OnlyTheRaceBlocksKey,
        ExpiredKeyCanBeReused, WriterSeesRecord, Active
  <2>2. ASSUME NEW r \in Request, RequestStep(r) \/ RequestFault(r) PROVE LockInv'
    BY <2>2, RequestKeepsLock, RequestKeepsReuse, RequestKeepsWriter DEF LockInv
  <2> QED  BY <2>1, <2>2, CleanerKeepsLock, TickKeepsLock DEF Next
<1> QED  BY <1>1, <1>2, KeyInvHolds, PTL DEF Spec

(***************************************************************************)
(* The Redis lock admits one request at a time until one outlives it, and  *)
(* no insert clashes until then or until the cleaner has blocked the key.  *)
(***************************************************************************)
THEOREM LockIsExclusive == Spec => []LockExcludes
<1>1. ASSUME LockInv PROVE LockExcludes
  BY <1>1 DEF LockInv, ActiveOwnsLock, WriterSeesRecord, LockExcludes
<1> QED  BY <1>1, LockInvHolds, PTL

\* A key is lost to its clients in no other way than by the cleaner's race.
THEOREM RaceIsTheOnlyBlock == Spec => []OnlyTheRaceBlocksKey
<1>1. LockInv => OnlyTheRaceBlocksKey  BY DEF LockInv
<1> QED  BY <1>1, LockInvHolds, PTL

-----------------------------------------------------------------------------
(***************************************************************************)
(* ReplyIsTrue counts rows.  What is inductive says which rows a batch     *)
(* has, and that every reply was true of the batches when it was formed:   *)
(* batches and their notifications are never deleted.                      *)
(***************************************************************************)
RowsAreRecipients ==
  \A b \in batches : {row \in rows : row[1] = b} = {b} \X Recipients(b)

RowsHaveBatches == \A row \in rows : row[1] \in batches

True(r, said) ==
  /\ said.status \in {"accepted", "already_exists"} =>
       /\ said.batch \in batches /\ Body[said.batch] = Body[r]
       /\ said.created = NotificationsCreated(said.batch)
  /\ said.status = "conflict" => \E b \in batches : Body[b] # Body[r]

ReplyInv ==
  RowsAreRecipients /\ RowsHaveBatches /\ \A r \in Request : True(r, req[r].reply)

LEMMA OneRowEach ==
  ASSUME NEW r \in Request
  PROVE  Cardinality({r} \X Recipients(r)) = NotificationsCreated(r)
<1> DEFINE F == [x \in Recipients(r) |-> <<r, x>>]
<1>1. F \in Bijection(Recipients(r), {r} \X Recipients(r))  BY Fun_IsBij
<1>2. IsFiniteSet(Recipients(r))  BY RecipientsFinite
<1> QED  BY <1>1, <1>2, FS_Bijection DEF ExistsBijection, NotificationsCreated

LEMMA InsertKeepsRows ==
  ASSUME TypeOK, KeyInv, RowsAreRecipients, RowsHaveBatches, NEW r \in Request, Insert(r)
  PROVE  RowsAreRecipients' /\ RowsHaveBatches'
<1>1. r \notin batches  BY InsertFindsNoneProtected
<1>2. rows' = rows \cup ({r} \X Recipients(r)) /\ batches' = batches \cup {r}
  BY DEF Insert
<1>3. RowsHaveBatches'  BY <1>2 DEF RowsHaveBatches
<1>4. ASSUME NEW b \in batches' PROVE {row \in rows' : row[1] = b} = {b} \X Recipients(b)
  <2>1. CASE b = r
    <3>1. \A row \in rows : row[1] # r  BY <1>1 DEF RowsHaveBatches
    <3>2. \A row \in {r} \X Recipients(r) : row[1] = r  OBVIOUS
    <3> HIDE DEF Recipients
    <3> QED  BY <1>2, <2>1, <3>1, <3>2
  <2>2. CASE b # r
    <3>1. \A row \in {r} \X Recipients(r) : row[1] = r  OBVIOUS
    <3>2. {row \in rows' : row[1] = b} = {row \in rows : row[1] = b}  BY <1>2, <2>2, <3>1
    <3> QED  BY <1>2, <2>2, <3>2 DEF RowsAreRecipients
  <2> QED  BY <2>1, <2>2
<1> QED  BY <1>3, <1>4 DEF RowsAreRecipients, Recipients

\* What a step of r may make of its reply.
LEMMA ReplyMoves ==
  ASSUME TypeOK, KeyInv, NEW r \in Request, RequestStep(r) \/ RequestFault(r)
  PROVE  \/ req'[r].reply = req[r].reply /\ UNCHANGED <<batches, rows>>
         \/ req'[r].reply \in {Says("none"), Says("in_progress"), Says("error")}
            /\ UNCHANGED <<batches, rows>>
         \/ keyRow # NoRow /\ req'[r].reply = ReplyFromRecord(r).reply
            /\ UNCHANGED <<batches, rows>>
         \/ Insert(r)
            /\ req'[r].reply \in {Says("error"), Names("accepted", r, NotificationsCreated(r))}
<1>1. \A pc, reply : At(pc, reply).reply = reply  BY DEF At
<1>2. CASE \/ AcquireLock(r) \/ LockTaken(r) \/ RecheckFindsNothing(r) \/ Clash(r)
           \/ DatabaseFails(r) \/ SetRaises(r) \/ ReleaseRaises(r) \/ Crash(r)
  BY <1>1, <1>2, GotoMoves
  DEF AcquireLock, LockTaken, RecheckFindsNothing, Clash, DatabaseFails, SetRaises,
      ReleaseRaises, Crash
<1>3. CASE GetRecord(r) \/ RecheckFinds(r)
  BY <1>3, GotoMoves DEF GetRecord, RecheckFinds
<1>4. CASE Commit(r) \/ CommitUnconfirmed(r)
  BY <1>1, <1>4, GotoMoves DEF Commit, CommitUnconfirmed
<1>5. CASE ReserveKey(r)
  <2>1. [At("writing", Says("none")) EXCEPT !.row = keyRow, !.ttl = KeyTTL].reply = Says("none")
    BY DEF At
  <2> QED  BY <1>5, <2>1, GotoMoves DEF ReserveKey
<1>6. CASE CheckToken(r) \/ DeleteLock(r)
  BY <1>6 DEF CheckToken, DeleteLock, TypeOK, RequestState
<1> QED  BY <1>2, <1>3, <1>4, <1>5, <1>6 DEF RequestStep, RequestFault

LEMMA RequestKeepsReplies ==
  ASSUME TypeOK, KeyInv, ReplyInv, NEW r \in Request, RequestStep(r) \/ RequestFault(r)
  PROVE  ReplyInv'
<1>1. batches \subseteq batches'
  BY ReplyMoves DEF Insert
<1>2. RowsAreRecipients' /\ RowsHaveBatches'
  <2>1. CASE UNCHANGED <<batches, rows>>
    BY <2>1 DEF ReplyInv, RowsAreRecipients, RowsHaveBatches, Recipients
  <2> QED  BY <2>1, ReplyMoves, InsertKeepsRows DEF ReplyInv
<1>3. ASSUME NEW s \in Request, s # r PROVE True(s, req[s].reply)'
  <2>1. req'[s] = req[s]  BY <1>3, ActiveMoves
  <2> QED  BY <1>1, <2>1 DEF ReplyInv, True, NotificationsCreated, Recipients
<1>4. True(r, req[r].reply)'
  <2>1. ASSUME req'[r].reply \in {Says("none"), Says("in_progress"), Says("error")}
        PROVE  True(r, req[r].reply)'
    BY <2>1 DEF True, Says, Names
  <2>2. CASE req'[r].reply = req[r].reply
    <3>1. True(r, req[r].reply)  BY DEF ReplyInv
    <3> QED  BY <1>1, <2>2, <3>1 DEF True, NotificationsCreated, Recipients
  <2>3. CASE keyRow # NoRow /\ req'[r].reply = ReplyFromRecord(r).reply
    <3>1. \A pc, reply : At(pc, reply).reply = reply  BY DEF At
    <3>2. /\ keyRow.batch \in batches /\ keyRow.hash = Body[keyRow.batch]
          /\ keyRow.created = NotificationsCreated(keyRow.batch)
      BY <2>3 DEF KeyInv, RecordStands
    <3>3. CASE keyRow.hash # Body[r]
      <4>1. req'[r].reply = Says("conflict")  BY <2>3, <3>1, <3>3 DEF ReplyFromRecord
      <4>2. req'[r].reply.status = "conflict"  BY <4>1 DEF Says, Names
      <4> QED  BY <1>1, <3>2, <3>3, <4>2 DEF True
    <3>4. CASE keyRow.hash = Body[r]
      <4>1. req'[r].reply = Names("already_exists", keyRow.batch, keyRow.created)
        BY <2>3, <3>1, <3>4 DEF ReplyFromRecord
      <4>2. /\ req'[r].reply.status = "already_exists"
            /\ req'[r].reply.batch = keyRow.batch /\ req'[r].reply.created = keyRow.created
        BY <4>1 DEF Names
      <4> QED  BY <1>1, <3>2, <3>4, <4>2 DEF True, NotificationsCreated, Recipients
    <3> QED  BY <3>3, <3>4
  <2>4. CASE Insert(r) /\ req'[r].reply = Names("accepted", r, NotificationsCreated(r))
    BY <2>4 DEF Insert, True, Names, NotificationsCreated, Recipients
  <2> QED  BY <2>1, <2>2, <2>3, <2>4, ReplyMoves
<1> QED  BY <1>2, <1>3, <1>4 DEF ReplyInv

LEMMA ReplyInvStep == ASSUME TypeOK, KeyInv, ReplyInv, [Next]_vars PROVE ReplyInv'
<1>1. ASSUME UNCHANGED <<batches, rows>>,
             \A r \in Request : req'[r].reply = req[r].reply
      PROVE  ReplyInv'
  <2>1. ASSUME NEW r \in Request PROVE True(r, req[r].reply)'
    <3>1. True(r, req[r].reply)  BY DEF ReplyInv
    <3> QED  BY <1>1, <3>1 DEF True, NotificationsCreated, Recipients
  <2>2. RowsAreRecipients' /\ RowsHaveBatches'
    BY <1>1 DEF ReplyInv, RowsAreRecipients, RowsHaveBatches, Recipients
  <2> QED  BY <2>1, <2>2 DEF ReplyInv
<1>2. CASE UNCHANGED vars  BY <1>1, <1>2 DEF vars
<1>3. CASE SelectExpired \/ DeleteExpired \/ CleanerFails
  BY <1>1, <1>3 DEF SelectExpired, DeleteExpired, CleanerFails
<1>4. CASE Tick
  <2>1. ASSUME NEW r \in Request PROVE req'[r].reply = req[r].reply
    <3>1. req[r] \in RequestState  BY DEF TypeOK
    <3>2. req'[r] = [req[r] EXCEPT !.ttl = CountDown(@)]  BY <1>4 DEF Tick
    <3> QED  BY <3>1, <3>2 DEF RequestState
  <2> QED  BY <1>1, <1>4, <2>1 DEF Tick
<1> QED  BY <1>2, <1>3, <1>4, RequestKeepsReplies DEF Next

\* No client is ever told of a batch or a conflict that is not there.
THEOREM RepliesAreTrue == Spec => []ReplyIsTrue
<1>1. Init => ReplyInv
  <2>1. \A reply : At("new", reply).reply = reply  BY DEF At
  <2> QED
    BY <2>1 DEF Init, ReplyInv, RowsAreRecipients, RowsHaveBatches, True, Says, Names
<1>2. ASSUME TypeOK, ReplyInv PROVE ReplyIsTrue
  <2>1. \A b \in batches : Cardinality({row \in rows : row[1] = b}) = NotificationsCreated(b)
    BY <1>2, OneRowEach DEF ReplyInv, RowsAreRecipients, TypeOK
  <2> QED  BY <1>2, <2>1 DEF ReplyInv, True, ReplyIsTrue
<1> QED  BY <1>1, <1>2, ReplyInvStep, KeyInvHolds, PTL DEF Spec
=============================================================================
