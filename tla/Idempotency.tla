------------------------------ MODULE Idempotency ------------------------------
(***************************************************************************)
(* Bulk requests that carry one Idempotency-Key: the Redis lock and the    *)
(* transaction of NotificationService.create_bulk, the key's record in     *)
(* idempotency_keys, the unique column notification_batches.               *)
(* idempotency_key, and the cleaner that removes expired records.          *)
(*                                                                         *)
(* A transaction's reads are steps of their own; its writes, which hold    *)
(* the row and unique-index locks until the commit, are one step with it.  *)
(* Timestamps are ticks left, as in NotificationStore.  A request that is  *)
(* accepted creates the batch of the same name.  The outbox rows that go   *)
(* with its notifications are NotificationDelivery's CreateBatch.          *)
(***************************************************************************)
EXTENDS Naturals, FiniteSets, Sequences

CONSTANTS
  Request,      \* the requests that clients send with the key
  Body,         \* recipient_ids of each request; different bodies have different hashes
  None,         \* no request, no batch
  KeyTTL,       \* idempotency_ttl_seconds, in ticks
  LockTTL       \* idempotency_lock_ttl_seconds, in ticks

ASSUME IdempotencyAssumption ==
  /\ Request # {} /\ None \notin Request
  /\ Body \in [Request -> Seq(Nat) \ {<<>>}]
  /\ KeyTTL \in Nat /\ LockTTL \in Nat \ {0}

VARIABLES
  keyRow,     \* the key's row in idempotency_keys
  keyHolder,  \* the batch whose idempotency_key column holds the key
  batches,    \* the batches inserted
  left,       \* how long each batch is still protected by its record
  rows,       \* the notifications inserted, each a batch and a subscriber_id
  lock,       \* the Redis lock: its token and time to live
  req,        \* req[r]: where request r is in create_bulk, and its reply
  cleaner,    \* where the cleaner is in cleanup_expired
  mishaps     \* which of Mishap have happened

vars == <<keyRow, keyHolder, batches, left, rows, lock, req, cleaner, mishaps>>

-----------------------------------------------------------------------------
(***************************************************************************)
(* A Redis lock runs out under the request that holds it; the cleaner      *)
(* deletes a record that it has not selected.                              *)
(***************************************************************************)
Mishap == {"lock expired", "unselected deleted"}

Hashes == {Body[r] : r \in Request}

\* The columns of a record; batch and created are its response_payload.
KeyRow == [hash: Hashes, batch: Request \cup {None}, created: Nat, ttl: Nat]
NoRow == [hash |-> CHOOSE h \in Hashes : TRUE, batch |-> None, created |-> 0, ttl |-> 0]

Expired(row) == row # NoRow /\ row.ttl = 0

Free == [owner |-> None, ttl |-> 0]

\* What a client is told: BulkNotificationResponse, or the reason for an error.
Reply ==
  [status: {"none", "accepted", "already_exists", "conflict", "in_progress", "error"},
   batch: Request \cup {None}, created: Nat]

(***************************************************************************)
(* row is the expired record that reserve_or_get read (NoRow: none), ttl   *)
(* what is left of the new record's lifetime, which starts at that read.   *)
(***************************************************************************)
RequestState ==
  [pc: {"new", "reading", "writing", "rechecking", "releasing", "deleting", "done"},
   row: KeyRow, ttl: 0..KeyTTL,
   reply: Reply]

At(pc, reply) == [pc |-> pc, row |-> NoRow, ttl |-> 0, reply |-> reply]

Names(status, batch, created) ==
  [status |-> status, batch |-> batch, created |-> created]

Says(status) == Names(status, None, 0)

Init ==
  /\ keyRow = NoRow
  /\ keyHolder = None
  /\ batches = {}
  /\ left = [r \in Request |-> 0]
  /\ rows = {}
  /\ lock = Free
  /\ req = [r \in Request |-> At("new", Says("none"))]
  /\ cleaner = [pc |-> "idle", row |-> NoRow]
  /\ mishaps = {}

Goto(r, state) == req' = [req EXCEPT ![r] = state]

-----------------------------------------------------------------------------
LockWithoutNX(r) ==   \* Mutant: SET without NX.
  /\ req[r].pc = "new"
  /\ lock' = [owner |-> r, ttl |-> LockTTL]
  /\ Goto(r, At("reading", Says("none")))
  /\ UNCHANGED <<keyRow, keyHolder, batches, left, rows, cleaner, mishaps>>

\* redis.set with NX and EX.
AcquireLock(r) ==
  /\ req[r].pc = "new"
  /\ lock = Free
  /\ lock' = [owner |-> r, ttl |-> LockTTL]
  /\ Goto(r, At("reading", Says("none")))
  /\ UNCHANGED <<keyRow, keyHolder, batches, left, rows, cleaner, mishaps>>

\* The lock is taken: IdempotencyInProgressError, before the try block.
LockTaken(r) ==
  /\ req[r].pc = "new"
  /\ lock # Free
  /\ Goto(r, At("done", Says("in_progress")))
  /\ UNCHANGED <<keyRow, keyHolder, batches, left, rows, lock, cleaner, mishaps>>

\* Mutant: the lifetime of the lock is added to that of the record.
ReserveTooLong(r) ==
  /\ req[r].pc = "reading"
  /\ keyRow = NoRow \/ Expired(keyRow)
  /\ Goto(r, [At("writing", Says("none")) EXCEPT !.row = keyRow, !.ttl = KeyTTL + LockTTL])
  /\ UNCHANGED <<keyRow, keyHolder, batches, left, rows, lock, cleaner, mishaps>>

\* reserve_or_get finds no record, or an expired one that it will replace.
ReserveKey(r) ==
  /\ req[r].pc = "reading"
  /\ keyRow = NoRow \/ Expired(keyRow)
  /\ Goto(r, [At("writing", Says("none")) EXCEPT !.row = keyRow, !.ttl = KeyTTL])
  /\ UNCHANGED <<keyRow, keyHolder, batches, left, rows, lock, cleaner, mishaps>>

\* Mutant: no hash test.
ReplyAnyBody(r) ==
  At("releasing", Names("already_exists", keyRow.batch, keyRow.created))

\* What a record says to a request: a conflict, or the batch it stands for.
ReplyFromRecord(r) ==
  IF keyRow.hash # Body[r]
  THEN At("releasing", Says("conflict"))
  ELSE At("releasing", Names("already_exists", keyRow.batch, keyRow.created))

GetRecord(r) ==
  /\ req[r].pc = "reading"
  /\ keyRow # NoRow /\ ~Expired(keyRow)
  /\ Goto(r, ReplyFromRecord(r))
  /\ UNCHANGED <<keyRow, keyHolder, batches, left, rows, lock, cleaner, mishaps>>

-----------------------------------------------------------------------------
\* The batch that still holds the key after the expired record's batch, if r
\* read one, has given it up.
HolderLeft(r) ==
  IF req[r].row # NoRow /\ keyHolder = req[r].row.batch THEN None ELSE keyHolder

RecordOnly(r) == req[r].row # NoRow \/ keyRow = NoRow   \* Mutant: no unique column on batches.

\* Both unique constraints admit the insert.  DELETE goes by the key alone: it
\* removes the row that is there now, not only the one that was read.
InsertIsUnique(r) ==
  /\ HolderLeft(r) = None
  /\ req[r].row # NoRow \/ keyRow = NoRow

\* dict.fromkeys: each subscriber once.
Recipients(r) == {Body[r][i] : i \in DOMAIN Body[r]}

CountRepetitions(r) == Len(Body[r])   \* Mutant: the ids are counted as sent.

NotificationsCreated(r) == Cardinality(Recipients(r))

Insert(r) ==
  /\ req[r].pc = "writing"
  /\ InsertIsUnique(r)
  /\ keyRow' = [hash |-> Body[r], batch |-> r, created |-> NotificationsCreated(r),
                ttl |-> req[r].ttl]
  /\ keyHolder' = r
  /\ batches' = batches \cup {r}
  /\ left' = [left EXCEPT ![r] = req[r].ttl]
  /\ rows' = rows \cup ({r} \X Recipients(r))
  /\ UNCHANGED <<lock, cleaner, mishaps>>

Commit(r) ==
  /\ Insert(r)
  /\ Goto(r, At("releasing", Names("accepted", r, NotificationsCreated(r))))

\* The database commits, but the connection fails before it says so.
CommitUnconfirmed(r) ==
  /\ Insert(r)
  /\ Goto(r, At("releasing", Says("error")))

\* IntegrityError: everything is rolled back.
Clash(r) ==
  /\ req[r].pc = "writing"
  /\ ~InsertIsUnique(r)
  /\ Goto(r, At("rechecking", Says("none")))
  /\ UNCHANGED <<keyRow, keyHolder, batches, left, rows, lock, cleaner, mishaps>>

\* find, which does not look at expires_at.
RecheckFinds(r) ==
  /\ req[r].pc = "rechecking"
  /\ keyRow # NoRow
  /\ Goto(r, ReplyFromRecord(r))
  /\ UNCHANGED <<keyRow, keyHolder, batches, left, rows, lock, cleaner, mishaps>>

RecheckFindsNothing(r) ==
  /\ req[r].pc = "rechecking"
  /\ keyRow = NoRow
  /\ Goto(r, At("releasing", Says("in_progress")))
  /\ UNCHANGED <<keyRow, keyHolder, batches, left, rows, lock, cleaner, mishaps>>

\* Any other exception in a transaction: rolled back, and out by finally.
DatabaseFails(r) ==
  /\ req[r].pc \in {"reading", "writing", "rechecking"}
  /\ Goto(r, At("releasing", Says("error")))
  /\ UNCHANGED <<keyRow, keyHolder, batches, left, rows, lock, cleaner, mishaps>>

-----------------------------------------------------------------------------
\* finally: GET, then DELETE if the token is r's own.
CheckToken(r) ==
  /\ req[r].pc = "releasing"
  /\ req' = [req EXCEPT ![r].pc = IF lock.owner = r THEN "deleting" ELSE "done"]
  /\ UNCHANGED <<keyRow, keyHolder, batches, left, rows, lock, cleaner, mishaps>>

DeleteLock(r) ==
  /\ req[r].pc = "deleting"
  /\ lock' = Free
  /\ req' = [req EXCEPT ![r].pc = "done"]
  /\ UNCHANGED <<keyRow, keyHolder, batches, left, rows, cleaner, mishaps>>

\* redis.set raises, before the try block; the lock may be there all the same.
SetRaises(r) ==
  /\ req[r].pc = "new"
  /\ \/ UNCHANGED lock
     \/ lock = Free /\ lock' = [owner |-> r, ttl |-> LockTTL]
  /\ Goto(r, At("done", Says("error")))
  /\ UNCHANGED <<keyRow, keyHolder, batches, left, rows, cleaner, mishaps>>

\* GET or DELETE raises in finally: that error takes the place of the reply.
ReleaseRaises(r) ==
  /\ req[r].pc \in {"releasing", "deleting"}
  /\ \/ UNCHANGED lock
     \/ req[r].pc = "deleting" /\ lock' = Free
  /\ Goto(r, At("done", Says("error")))
  /\ UNCHANGED <<keyRow, keyHolder, batches, left, rows, cleaner, mishaps>>

Active(r) == req[r].pc \notin {"new", "done"}

\* The API process dies: no reply, and nobody to delete the lock.
Crash(r) ==
  /\ Active(r)
  /\ Goto(r, At("done", Says("none")))
  /\ UNCHANGED <<keyRow, keyHolder, batches, left, rows, lock, cleaner, mishaps>>

RequestStep(r) ==
  \/ AcquireLock(r) \/ LockTaken(r)
  \/ ReserveKey(r) \/ GetRecord(r)
  \/ Commit(r) \/ Clash(r)
  \/ RecheckFinds(r) \/ RecheckFindsNothing(r)
  \/ CheckToken(r) \/ DeleteLock(r)

RequestFault(r) ==
  \/ DatabaseFails(r) \/ CommitUnconfirmed(r)
  \/ SetRaises(r) \/ ReleaseRaises(r)
  \/ Crash(r)

-----------------------------------------------------------------------------
(* cleanup_expired: one transaction, whose SELECT and DELETE each ask for  *)
(* the time anew.                                                          *)

SelectExpired ==
  /\ cleaner.pc = "idle"
  /\ cleaner' = [pc |-> "deleting", row |-> IF Expired(keyRow) THEN keyRow ELSE NoRow]
  /\ UNCHANGED <<keyRow, keyHolder, batches, left, rows, lock, req, mishaps>>

\* Mutant: the record is deleted, and the selected batch keeps the key.
DeleteKeepsHolder ==
  /\ cleaner.pc = "deleting"
  /\ keyRow' = IF Expired(keyRow) THEN NoRow ELSE keyRow
  /\ cleaner' = [pc |-> "idle", row |-> NoRow]
  /\ UNCHANGED <<keyHolder, batches, left, rows, lock, req, mishaps>>

\* Mutant: the UPDATE goes by the key, whichever batch holds it.
ReleaseByKey ==
  /\ cleaner.pc = "deleting"
  /\ keyHolder' = IF cleaner.row # NoRow THEN None ELSE keyHolder
  /\ keyRow' = IF Expired(keyRow) THEN NoRow ELSE keyRow
  /\ cleaner' = [pc |-> "idle", row |-> NoRow]
  /\ UNCHANGED <<batches, left, rows, lock, req, mishaps>>

DeleteExpired ==
  /\ cleaner.pc = "deleting"
  /\ keyHolder' = IF cleaner.row # NoRow /\ keyHolder = cleaner.row.batch
                  THEN None ELSE keyHolder
  /\ keyRow' = IF Expired(keyRow) THEN NoRow ELSE keyRow
  /\ mishaps' = IF Expired(keyRow) /\ keyRow # cleaner.row
                THEN mishaps \cup {"unselected deleted"} ELSE mishaps
  /\ cleaner' = [pc |-> "idle", row |-> NoRow]
  /\ UNCHANGED <<batches, left, rows, lock, req>>

CleanerFails ==
  /\ cleaner.pc = "deleting"
  /\ cleaner' = [pc |-> "idle", row |-> NoRow]
  /\ UNCHANGED <<keyRow, keyHolder, batches, left, rows, lock, req, mishaps>>

-----------------------------------------------------------------------------
CountDown(t) == IF t = 0 THEN 0 ELSE t - 1

Tick ==
  /\ keyRow' = [keyRow EXCEPT !.ttl = CountDown(@)]
  /\ lock' = IF lock.ttl <= 1 THEN Free ELSE [lock EXCEPT !.ttl = @ - 1]
  /\ left' = [r \in Request |-> CountDown(left[r])]
  /\ req' = [r \in Request |-> [req[r] EXCEPT !.ttl = CountDown(@)]]
  /\ mishaps' = IF lock.ttl = 1 /\ \E r \in Request : Active(r) /\ lock.owner = r
                THEN mishaps \cup {"lock expired"} ELSE mishaps
  /\ UNCHANGED <<keyHolder, batches, rows, cleaner>>

Next ==
  \/ \E r \in Request : RequestStep(r) \/ RequestFault(r)
  \/ SelectExpired \/ DeleteExpired \/ CleanerFails
  \/ Tick

Spec == Init /\ [][Next]_vars

-----------------------------------------------------------------------------
\* Every variable has its type.
TypeOK ==
  /\ keyRow \in KeyRow
  /\ keyHolder \in Request \cup {None}
  /\ batches \subseteq Request
  /\ left \in [Request -> 0..KeyTTL]
  /\ rows \subseteq Request \X Nat
  /\ lock \in [owner: Request \cup {None}, ttl: 0..LockTTL]
  /\ req \in [Request -> RequestState]
  /\ cleaner \in [pc: {"idle", "deleting"}, row: KeyRow]
  /\ mishaps \subseteq Mishap

(***************************************************************************)
(* However requests, crashes and the cleaner interleave, and though the    *)
(* Redis lock may expire under a slow request: within the lifetime of a    *)
(* record no second batch is accepted for its key.                         *)
(***************************************************************************)
AcceptedOnce == Cardinality({b \in batches : left[b] > 0}) <= 1

\* A reply tells the truth: the batch it names has the same body and as many
\* notifications as it says, and a conflict is with a batch of another body.
ReplyIsTrue ==
  \A r \in Request : LET said == req[r].reply IN
    /\ said.status \in {"accepted", "already_exists"} =>
         /\ said.batch \in batches /\ Body[said.batch] = Body[r]
         /\ said.created = Cardinality({row \in rows : row[1] = said.batch})
    /\ said.status = "conflict" => \E b \in batches : Body[b] # Body[r]

\* The batch that holds the key is the one the record names: a request that
\* is told of a batch is told of the one that keeps others out.
RecordNamesHolder == keyRow # NoRow => keyHolder = keyRow.batch

\* Once the record of a key is gone, no old batch keeps the key from reuse.
ExpiredKeyCanBeReused == keyRow = NoRow => keyHolder = None

\* It holds unless the cleaner has deleted a record it had not selected: that
\* race is the only way to lose a key, whatever else fails.
OnlyTheRaceBlocksKey == "unselected deleted" \notin mishaps => ExpiredKeyCanBeReused

\* The Redis lock admits one request at a time, unless a lock has run out
\* under its request; and as long as it does no insert clashes, but for a key
\* that the cleaner has blocked.
LockExcludes ==
  /\ "lock expired" \notin mishaps =>
       \A r, s \in Request : Active(r) /\ Active(s) => r = s
  /\ mishaps = {} => \A r \in Request : req[r].pc # "rechecking"

-----------------------------------------------------------------------------
\* What the key promises, without locks, transactions or a cleaner.
Contract == INSTANCE KeyContract WITH
  accepted <- batches, reply <- [r \in Request |-> req[r].reply]

(***************************************************************************)
(* However slow or faulty requests are, every step of theirs is one that   *)
(* the contract allows.                                                    *)
(***************************************************************************)
ImplementsKeyContract == Contract!Spec
=============================================================================
