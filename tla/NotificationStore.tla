--------------------------- MODULE NotificationStore ---------------------------
(***************************************************************************)
(* What the publisher and the workers share: the outbox_events table of    *)
(* PostgreSQL and the RabbitMQ queues.  A database transaction is one      *)
(* step.                                                                   *)
(*                                                                         *)
(* Time.  A timestamp column is kept as the number of ticks left until     *)
(* that instant, 0 once it is reached, so "available_at <= now" reads      *)
(* delay = 0 and one Tick moves every clock of the system.  All processes  *)
(* read the same clock, but for ClockLead in OutboxPublisher.              *)
(*                                                                         *)
(* Faults.  Crashes, failing transactions, failing publishes and lost      *)
(* connections each use up one of MaxFaults.                               *)
(***************************************************************************)
EXTENDS Naturals, FiniteSets

CONSTANTS
  Notification,   \* ids of the notifications that bulk requests may create
  High,           \* those of type transactional (routing key notification.high)
  EventId,        \* ids of outbox rows: the bound on the rows ever inserted
  DeliveryLimit,  \* x-delivery-limit of the quorum queues
  MaxFaults       \* bound on the failures of one behaviour

ASSUME StoreAssumption ==
  /\ Notification # {} /\ High \subseteq Notification
  /\ EventId # {}
  /\ DeliveryLimit \in Nat /\ MaxFaults \in Nat

VARIABLES
  outbox,    \* table outbox_events
  emitted,   \* how many messages the broker has accepted for an outbox row
  queue,     \* messages ready in notifications.high and notifications.low
  dlq,       \* messages in notifications.dlq
  faults     \* failures so far

storeVars == <<outbox, emitted, queue, dlq, faults>>

-----------------------------------------------------------------------------
EventType == {"created", "retry", "failed"}
OutboxStatus == {"pending", "processing", "published", "failed"}

\* The columns of an outbox row that decide anything; locked is whether
\* locked_at is set, lease the time left until it becomes older than
\* outbox_claim_timeout_seconds.
OutboxEvent ==
  [n: Notification, type: EventType, status: OutboxStatus \cup {"absent"},
   attempts: Nat, delay: Nat, locked: BOOLEAN, lease: Nat]

Message == [n: Notification, event: EventId, copy: Nat, deliveries: Nat]

NoEvent ==
  [n |-> CHOOSE n \in Notification : TRUE, type |-> "created",
   status |-> "absent", attempts |-> 0, delay |-> 0, locked |-> FALSE, lease |-> 0]

NoMessage ==
  [n |-> CHOOSE n \in Notification : TRUE, event |-> CHOOSE e \in EventId : TRUE,
   copy |-> 0, deliveries |-> 0]

StoreTypeOK ==
  /\ outbox \in [EventId -> OutboxEvent]
  /\ emitted \in [EventId -> Nat]
  /\ queue \in SUBSET Message
  /\ dlq \in SUBSET Message
  /\ faults \in 0..MaxFaults

StoreInit ==
  /\ outbox = [e \in EventId |-> NoEvent]
  /\ emitted = [e \in EventId |-> 0]
  /\ queue = {}
  /\ dlq = {}
  /\ faults = 0

-----------------------------------------------------------------------------
Exists(e) == outbox[e].status # "absent"

HasRoom == \E e \in EventId : ~Exists(e)

FreshEvent == CHOOSE e \in EventId : ~Exists(e)

\* A new row is pending, and may be claimed once delay has passed.
NewEvent(n, type, delay) ==
  [n |-> n, type |-> type, status |-> "pending", attempts |-> 0,
   delay |-> delay, locked |-> FALSE, lease |-> 0]

\* add_outbox_event, in the transaction of its caller.
AddOutboxEvent(n, type, delay) ==
  /\ HasRoom
  /\ outbox' = [outbox EXCEPT ![FreshEvent] = NewEvent(n, type, delay)]

\* The broker accepts one more message for row e.  Failure notices go through
\* the dead-letter exchange, everything else to the queue of its routing key.
Emit(e) ==
  LET m == [n |-> outbox[e].n, event |-> e, copy |-> emitted[e] + 1, deliveries |-> 0]
  IN  /\ emitted' = [emitted EXCEPT ![e] = @ + 1]
      /\ IF outbox[e].type = "failed"
         THEN dlq' = dlq \cup {m} /\ UNCHANGED queue
         ELSE queue' = queue \cup {m} /\ UNCHANGED dlq

\* Mutant: a rejected message is not requeued.
RejectWithoutRequeue(m) == dlq' = dlq \cup {m} /\ UNCHANGED queue

\* An unacknowledged message goes back to its queue, or to the dead-letter
\* queue once it has been returned more than DeliveryLimit times.
ReturnToQueue(m) ==
  IF m.deliveries >= DeliveryLimit
  THEN dlq' = dlq \cup {m} /\ UNCHANGED queue
  ELSE /\ queue' = queue \cup {[m EXCEPT !.deliveries = @ + 1]}
       /\ UNCHANGED dlq

Fault == faults < MaxFaults /\ faults' = faults + 1

-----------------------------------------------------------------------------
CountDown(t) == IF t = 0 THEN 0 ELSE t - 1

TickOutbox ==
  outbox' = [e \in EventId |->
               [outbox[e] EXCEPT !.delay = CountDown(@), !.lease = CountDown(@)]]
=============================================================================
