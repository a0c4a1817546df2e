---------------------------- MODULE OutboxPublisher ----------------------------
(***************************************************************************)
(* app/messaging/outbox_publisher.py: processes that claim due outbox rows *)
(* in one transaction, publish each claimed row to RabbitMQ, and record    *)
(* the outcome of each publish in a transaction of its own.                *)
(***************************************************************************)
EXTENDS NotificationStore

CONSTANTS
  Publisher,          \* publisher processes
  BatchSize,          \* outbox_batch_size
  ClaimTimeout,       \* outbox_claim_timeout_seconds, in ticks
  OutboxMaxAttempts,  \* outbox_max_attempts
  ClockLead,          \* by how far the publishers' clocks are ahead of the workers'
  PublisherTimely     \* TRUE: a batch is finished before its claims time out

ASSUME PublisherAssumption ==
  /\ IsFiniteSet(Publisher) /\ BatchSize \in Nat \ {0}
  /\ ClaimTimeout \in Nat
  /\ OutboxMaxAttempts \in Nat /\ ClockLead \in Nat
  /\ PublisherTimely \in BOOLEAN

VARIABLE pub   \* pub[p]: where p is in publish_pending, and what it has read

pubVars == <<storeVars, pub>>

-----------------------------------------------------------------------------
(***************************************************************************)
(* batch is the part of the claimed list not yet taken up, id the row in   *)
(* hand, status, attempts and locked what session.get read of it before    *)
(* the publish, ok whether the publish succeeded.                          *)
(***************************************************************************)
PublisherState ==
  [pc: {"idle", "batch", "publishing", "marking"}, batch: SUBSET EventId,
   id: EventId, status: OutboxStatus \cup {"absent"}, attempts: Nat,
   locked: BOOLEAN, ok: BOOLEAN]

IdlePublisher ==
  [pc |-> "idle", batch |-> {}, id |-> CHOOSE e \in EventId : TRUE,
   status |-> "absent", attempts |-> 0, locked |-> FALSE, ok |-> FALSE]

PublisherTypeOK == pub \in [Publisher -> PublisherState]

PublisherInit == pub = [p \in Publisher |-> IdlePublisher]

-----------------------------------------------------------------------------
\* Mutants: a claim that timed out is not taken over; a claim is no protection;
\* rows given up are taken up again; available_at is not looked at.
OnlyPending == {e \in EventId : outbox[e].status = "pending" /\ outbox[e].delay = 0}
ProcessingToo == {e \in EventId : outbox[e].status \in {"pending", "processing"} /\ outbox[e].delay = 0}
FailedToo == {e \in EventId : outbox[e].status \in {"pending", "failed"} /\ outbox[e].delay = 0}
PendingAnyTime == {e \in EventId : outbox[e].status = "pending"}

\* Rows that claim_pending selects: pending and due on the publisher's clock
\* (available_at was written by a worker's), or claimed too long ago.
Claimable ==
  {e \in EventId :
     \/ outbox[e].status = "pending" /\ outbox[e].delay <= ClockLead
     \/ outbox[e].status = "processing" /\ outbox[e].locked /\ outbox[e].lease = 0}

\* ORDER BY routing key: transactional rows first.  Among rows of the same
\* rank created_at, read from the clocks of several processes, decides; here
\* any of them may come first.
Rank(e) == IF outbox[e].n \in High THEN 0 ELSE 1

FirstOf(S) == {e \in S : \A f \in S : Rank(e) <= Rank(f)}

\* What LIMIT BatchSize leaves of the ordered selection.
IsBatch(B) ==
  /\ Cardinality(B) = IF Cardinality(Claimable) < BatchSize
                      THEN Cardinality(Claimable) ELSE BatchSize
  /\ \A e \in B, f \in Claimable \ B : Rank(e) <= Rank(f)

\* Mutant: a status outside OutboxStatus.
ClaimedAsLocked(e) ==
  [outbox[e] EXCEPT !.status = "locked", !.locked = TRUE, !.lease = ClaimTimeout,
                    !.attempts = @ + 1]

Claimed(e) ==
  [outbox[e] EXCEPT !.status = "processing", !.locked = TRUE, !.lease = ClaimTimeout,
                    !.attempts = @ + 1]

ClaimPending(p) ==
  /\ pub[p].pc = "idle"
  /\ Claimable # {}
  /\ \E B \in SUBSET Claimable :
       /\ IsBatch(B)
       /\ outbox' = [e \in EventId |-> IF e \in B THEN Claimed(e) ELSE outbox[e]]
       /\ pub' = [pub EXCEPT ![p].pc = "batch", ![p].batch = B]
  /\ UNCHANGED <<emitted, queue, dlq, faults>>

\* _publish_one opens a session and reads the row again.
LoadEvent(p) ==
  /\ pub[p].pc = "batch"
  /\ \E e \in FirstOf(pub[p].batch) :
       pub' = [pub EXCEPT ![p] =
                 [pc |-> "publishing", batch |-> pub[p].batch \ {e}, id |-> e,
                  status |-> outbox[e].status, attempts |-> outbox[e].attempts,
                  locked |-> outbox[e].locked, ok |-> FALSE]]
  /\ UNCHANGED storeVars

PublishSucceeds(p) ==
  /\ pub[p].pc = "publishing"
  /\ Emit(pub[p].id)
  /\ pub' = [pub EXCEPT ![p].pc = "marking", ![p].ok = TRUE]
  /\ UNCHANGED <<outbox, faults>>

\* publish raises.  The broker may have taken the message all the same: the
\* connection can fail between its acceptance and the confirmation.
PublishFails(p) ==
  /\ pub[p].pc = "publishing"
  /\ Fault
  /\ \/ Emit(pub[p].id)
     \/ UNCHANGED <<emitted, queue, dlq>>
  /\ pub' = [pub EXCEPT ![p].pc = "marking", ![p].ok = FALSE]
  /\ UNCHANGED outbox

-----------------------------------------------------------------------------
(***************************************************************************)
(* The UPDATE that the commit flushes: a column is written only where the  *)
(* new value differs from the one that was read.  Three publishers, two of *)
(* them with claims that timed out, can so leave a row processing with no  *)
(* locked_at, and claim_pending never selects that row again.              *)
(***************************************************************************)
WriteRow(p, target) ==
  outbox' = [outbox EXCEPT
    ![pub[p].id].status = IF target = pub[p].status THEN @ ELSE target,
    ![pub[p].id].locked = @ /\ ~pub[p].locked,
    ![pub[p].id].lease  = IF pub[p].locked THEN 0 ELSE @]

\* publish_pending goes on with the claimed list, or returns at its end.
NextInBatch(p) ==
  pub' = [pub EXCEPT ![p] =
            IF pub[p].batch = {} THEN IdlePublisher
            ELSE [IdlePublisher EXCEPT !.pc = "batch", !.batch = pub[p].batch]]

MarkPublished(p) ==
  /\ pub[p].pc = "marking" /\ pub[p].ok
  /\ WriteRow(p, "published")
  /\ NextInBatch(p)
  /\ UNCHANGED <<emitted, queue, dlq, faults>>

AttemptsUsedUpEarly(p) ==   \* Mutant: off by one.
  pub[p].attempts + 1 >= OutboxMaxAttempts

AttemptsUsedUp(p) == pub[p].attempts >= OutboxMaxAttempts

MarkFailedAsPublished(p) ==   \* Mutant: the exception is swallowed.
  /\ pub[p].pc = "marking" /\ ~pub[p].ok
  /\ WriteRow(p, "published")
  /\ NextInBatch(p)
  /\ UNCHANGED <<emitted, queue, dlq, faults>>

MarkPublishFailed(p) ==
  /\ pub[p].pc = "marking" /\ ~pub[p].ok
  /\ WriteRow(p, IF AttemptsUsedUp(p) THEN "failed" ELSE "pending")
  /\ NextInBatch(p)
  /\ UNCHANGED <<emitted, queue, dlq, faults>>

\* The process dies, a failing transaction included (nothing in run_forever
\* catches it), and is started again.
PublisherCrash(p) ==
  /\ pub[p].pc # "idle"
  /\ Fault
  /\ pub' = [pub EXCEPT ![p] = IdlePublisher]
  /\ UNCHANGED <<outbox, emitted, queue, dlq>>

-----------------------------------------------------------------------------
PublisherStep(p) ==
  \/ ClaimPending(p)
  \/ LoadEvent(p)
  \/ PublishSucceeds(p)
  \/ MarkPublished(p)
  \/ MarkPublishFailed(p)

PublisherFault(p) == PublishFails(p) \/ PublisherCrash(p)

\* The rows that p has claimed and not yet finished.
InHand(p) ==
  pub[p].batch \cup (IF pub[p].pc \in {"publishing", "marking"} THEN {pub[p].id} ELSE {})

\* Time may pass, unless that would outlast a claim that is assumed timely.
PublisherMayTick ==
  PublisherTimely => \A p \in Publisher : \A e \in InHand(p) : outbox[e].lease > 1
=============================================================================
