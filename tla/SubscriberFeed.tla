----------------------------- MODULE SubscriberFeed -----------------------------
(***************************************************************************)
(* The read API: a client pages through the notifications of a subscriber  *)
(* (GET /subscribers/{id}/notifications), or asks for one of them, while   *)
(* the pipeline goes on.  Every request runs two statements at READ        *)
(* COMMITTED, the rows first and then their histories, and other           *)
(* transactions commit in between.                                         *)
(***************************************************************************)
EXTENDS Naturals, FiniteSets, Sequences

CONSTANTS
  Notification,  \* ids of the subscriber's notifications; numbers, for their order
  CreatedAt,     \* created_at of each, from the clocks of several API processes
  Channel,       \* channel of each
  MaxRetries,    \* max_retries
  Limit          \* page size that the client asks for

ASSUME FeedAssumption ==
  /\ Notification \subseteq Nat
  /\ CreatedAt \in [Notification -> Nat]
  /\ Channel \in [Notification -> {"sms", "email"}]
  /\ MaxRetries \in Nat
  /\ Limit \in 1..100

VARIABLES
  status, attempts, history, notices,  \* as in NotificationLifecycle
  reader                               \* where the client is, and what it has been shown

rows == <<status, attempts, history, notices>>
vars == <<rows, reader>>

\* The pipeline with providers of any speed: NotificationDelivery refines it.
Pipeline == INSTANCE NotificationLifecycle WITH Timely <- FALSE

-----------------------------------------------------------------------------
Status == {"queued", "sent", "delivered", "dropped"}
Filter == [status: Status \cup {"any"}, channel: {"sms", "email", "any"}]

Row == [n: Notification, status: Status, attempts: 0..MaxRetries]
Item == [row: Row, history: Seq(Status)]

Matches(n, f, st) ==
  /\ st[n] # "absent"
  /\ f.status \in {"any", st[n]}
  /\ f.channel \in {"any", Channel[n]}

Matching(f, st) == {n \in Notification : Matches(n, f, st)}

(***************************************************************************)
(* page is what the first statement read and shown the last response; seen *)
(* are the notifications shown in this walk, wanted those that matched at  *)
(* its start, moved what has happened to the selection since.              *)
(***************************************************************************)
Reader ==
  [pc: {"idle", "asking", "loading", "fetching", "done"}, filter: Filter, offset: Nat,
   page: SUBSET Row, shown: SUBSET Item, seen: SUBSET Notification,
   wanted: SUBSET Notification, repeated: BOOLEAN,
   moved: SUBSET {"arrived", "departed"}]

Idle ==
  [pc |-> "idle", filter |-> [status |-> "any", channel |-> "any"],
   offset |-> 0, page |-> {}, shown |-> {}, seen |-> {}, wanted |-> {},
   repeated |-> FALSE, moved |-> {}]

Init ==
  /\ Pipeline!Init
  /\ reader = Idle

-----------------------------------------------------------------------------
(* What the writers do.                                                    *)

Watch ==
  LET before == Matching(reader.filter, status)
      after  == Matching(reader.filter, status')
  IN  reader' = [reader EXCEPT !.moved =
                   @ \cup (IF after \subseteq before THEN {} ELSE {"arrived"})
                     \cup (IF before \subseteq after THEN {} ELSE {"departed"})]

\* A batch holds at most one notification for a subscriber.  The status and
\* its history row are written in one transaction.
Write(n) ==
  /\ \/ Pipeline!Accept({n})
     \/ Pipeline!Attempt(n)
     \/ Pipeline!Deliver(n)
     \/ Pipeline!DropWithNotice(n)
  /\ Watch

-----------------------------------------------------------------------------
(* list_for_subscriber.                                                    *)

NewestFirst(m, n) == CreatedAt[m] > CreatedAt[n]   \* Mutant: ties stay open.

\* ORDER BY created_at DESC, id DESC
Before(m, n) ==
  CreatedAt[m] > CreatedAt[n] \/ (CreatedAt[m] = CreatedAt[n] /\ m > n)

AtMost(k, bound) == IF k < bound THEN k ELSE bound

\* What LIMIT and OFFSET may leave of a selection S in that order; Q is skipped.
IsPage(P, S) ==
  \E Q \in SUBSET (S \ P) :
    /\ Cardinality(Q) = AtMost(reader.offset, Cardinality(S))
    /\ Cardinality(P) = AtMost(Limit, Cardinality(S \ Q))
    /\ \A m \in Q, n \in S \ Q : ~Before(n, m)
    /\ \A m \in P, n \in S \ (P \cup Q) : ~Before(n, m)

\* Mutant: the attempt that comes next.
RowWithNextAttempt(n) == [n |-> n, status |-> status[n], attempts |-> attempts[n] + 1]

RowOf(n) == [n |-> n, status |-> status[n], attempts |-> attempts[n]]

\* The client starts a walk from offset 0.
Begin(f) ==
  /\ reader.pc \in {"idle", "done"}
  /\ reader' = [Idle EXCEPT !.pc = "asking", !.filter = f, !.wanted = Matching(f, status)]
  /\ UNCHANGED rows

SelectRows ==
  /\ reader.pc = "asking"
  /\ \E P \in SUBSET Matching(reader.filter, status) :
       /\ IsPage(P, Matching(reader.filter, status))
       /\ reader' = [reader EXCEPT !.pc = "loading", !.page = {RowOf(n) : n \in P}]
  /\ UNCHANGED rows

\* selectinload(Notification.history) and _to_item.
ToItem(row) == [row |-> row, history |-> history[row.n]]

\* The client asks for the next page unless this one was not full.
LoadHistories ==
  /\ reader.pc = "loading"
  /\ LET ids == {row.n : row \in reader.page}
     IN  reader' = [reader EXCEPT
           !.pc = IF Cardinality(ids) < Limit THEN "done" ELSE "asking",
           !.offset = @ + Limit, !.page = {},
           !.shown = {ToItem(row) : row \in reader.page},
           !.seen = @ \cup ids,
           !.repeated = @ \/ ids \cap reader.seen # {}]
  /\ UNCHANGED rows

-----------------------------------------------------------------------------
(* get_notification; one that is absent is answered 404.                   *)

SelectOne(n) ==
  /\ reader.pc \in {"idle", "done"}
  /\ reader' = IF status[n] = "absent" THEN Idle
               ELSE [Idle EXCEPT !.pc = "fetching", !.page = {RowOf(n)}]
  /\ UNCHANGED rows

LoadHistory ==
  /\ reader.pc = "fetching"
  /\ reader' = [reader EXCEPT !.pc = "idle", !.page = {},
                              !.shown = {ToItem(row) : row \in reader.page}]
  /\ UNCHANGED rows

-----------------------------------------------------------------------------
Next ==
  \/ \E n \in Notification : Write(n)
  \/ \E f \in Filter : Begin(f)
  \/ SelectRows \/ LoadHistories
  \/ \E n \in Notification : SelectOne(n)
  \/ LoadHistory

Spec == Init /\ [][Next]_vars

-----------------------------------------------------------------------------
\* Every variable has its type.
TypeOK ==
  /\ status \in [Notification -> Status \cup {"absent"}]
  /\ attempts \in [Notification -> 0..MaxRetries]
  /\ notices \in [Notification -> Nat]
  /\ history \in [Notification -> Seq(Status)]
  /\ reader \in Reader

(***************************************************************************)
(* A finished walk has shown every notification that matched at its start, *)
(* though batches with any created_at are committed meanwhile, unless a    *)
(* notification has left the selection.  Without a filter for a status     *)
(* none ever does; one for a final status is left only when a late result  *)
(* has replaced another, which the history tells.                          *)
(***************************************************************************)
NothingSkipped ==
  /\ reader.pc = "done" /\ "departed" \notin reader.moved => reader.wanted \subseteq reader.seen
  /\ "departed" \in reader.moved =>
       \/ reader.filter.status \in {"queued", "sent"}
       \/ /\ reader.filter.status \in {"delivered", "dropped"}
          /\ \E n \in Notification : Pipeline!Results(n) > 1

\* No notification is shown twice in a walk unless another one has come into
\* the selection.
NothingRepeated == reader.repeated => "arrived" \in reader.moved

(***************************************************************************)
(* An item is never ahead of its history, which is read later: the history *)
(* tells of every attempt that the row counts, and of its current status.  *)
(***************************************************************************)
ItemsTellHistory ==
  \A item \in reader.shown :
    /\ Cardinality({i \in DOMAIN item.history : item.history[i] = "sent"})
         >= item.row.attempts
    /\ \E i \in DOMAIN item.history : item.history[i] = item.row.status
=============================================================================
