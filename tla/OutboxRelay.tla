------------------------------ MODULE OutboxRelay ------------------------------
(***************************************************************************)
(* Several outbox publishers at work on the table, with rows inserted by   *)
(* transactions of any kind at any time.                                   *)
(***************************************************************************)
EXTENDS OutboxPublisher

CONSTANTS
  Kinds,     \* types of the rows inserted
  MaxDelay   \* bound on their available_at

ASSUME RelayAssumption == Kinds \subseteq EventType /\ MaxDelay \in Nat

VARIABLE late   \* whether a claim has ever timed out in a publisher's hand

relayVars == <<pubVars, late>>

Insert ==
  /\ \E n \in Notification, t \in Kinds, d \in 0..MaxDelay : AddOutboxEvent(n, t, d)
  /\ UNCHANGED <<emitted, queue, dlq, faults, pub, late>>

Tick ==
  /\ PublisherMayTick
  /\ TickOutbox
  /\ late' = (late \/ \E p \in Publisher : \E e \in InHand(p) : outbox[e].lease <= 1)
  /\ UNCHANGED <<emitted, queue, dlq, faults, pub>>

Init == StoreInit /\ PublisherInit /\ late = FALSE

Publish(p) ==
  /\ PublisherStep(p) \/ PublisherFault(p)
  /\ UNCHANGED late

Next ==
  \/ Insert
  \/ \E p \in Publisher : Publish(p)
  \/ Tick

Spec == Init /\ [][Next]_relayVars

\* Publishers loop forever, and are started again when they die.
FairSpec ==
  /\ Spec
  /\ \A p \in Publisher : WF_relayVars(PublisherStep(p) /\ UNCHANGED late)
  /\ WF_relayVars(Tick)

-----------------------------------------------------------------------------
\* Every variable has its type.
TypeOK == StoreTypeOK /\ PublisherTypeOK /\ late \in BOOLEAN

(***************************************************************************)
(* The table never says published of a row no message was sent for, though *)
(* the outcome is recorded in a transaction of its own, maybe by a         *)
(* publisher that has lost its claim and read the row long ago.            *)
(***************************************************************************)
PublishedWasEmitted ==
  \A e \in EventId : outbox[e].status = "published" => emitted[e] > 0

\* A row is given up only after outbox_max_attempts claims, and no claim
\* produces more than one message, early claims of retries included.
AttemptsAccountForMessages ==
  \A e \in EventId :
    /\ emitted[e] <= outbox[e].attempts
    /\ outbox[e].delay > ClockLead => outbox[e].attempts = 0
    /\ outbox[e].status = "failed" => outbox[e].attempts >= OutboxMaxAttempts

\* SKIP LOCKED and locked_at together: no row is in two hands at a time, as
\* long as no claim has timed out in a publisher's hand.
ClaimsAreExclusive ==
  ~late => \A p, q \in Publisher : p # q => InHand(p) \cap InHand(q) = {}

\* Every duplicate message is due to a failure or to a claim that timed out.
DuplicatesNeedFaults == ~late => \A e \in EventId : emitted[e] <= 1 + faults

\* A publisher gives up on a row it got no message out for only after
\* outbox_max_attempts failures, whichever publishers made the attempts.
GivingUpNeedsFaults ==
  ~late => \A e \in EventId :
    outbox[e].status = "failed" /\ emitted[e] = 0 => faults >= OutboxMaxAttempts

\* The outcome of a row stands once it is recorded, unless a claim timed out.
OutcomeIsFinal ==
  [][\A e \in EventId :
       ~late /\ outbox[e].status \in {"published", "failed"} =>
         outbox'[e].status = outbox[e].status]_relayVars

\* Every row is published or given up in the end, and stays so.
EventuallyRelayed ==
  \A e \in EventId :
    Exists(e) ~> [](outbox[e].status \in {"published", "failed"})
=============================================================================
