------------------------- MODULE NotificationLifecycle -------------------------
(***************************************************************************)
(* What a client is promised of each notification, without saying who      *)
(* works on it: app/services/status_transitions.py together with           *)
(* max_retries, the history and the failure notices of a notification.     *)
(***************************************************************************)
EXTENDS Naturals, Sequences

CONSTANTS
  Notification,
  MaxRetries,
  Timely    \* TRUE: the result of an attempt is written before its lock expires

VARIABLES
  status,    \* notifications.status
  attempts,  \* notifications.attempts
  history,   \* the statuses in notification_status_history, oldest first
  notices    \* failure notices written

vars == <<status, attempts, history, notices>>

-----------------------------------------------------------------------------
Final == {"delivered", "dropped"}

AllowedTransitions ==
  {<<"queued", "sent">>, <<"sent", "delivered">>, <<"queued", "dropped">>,
   <<"sent", "dropped">>, <<"delivered", "delivered">>, <<"dropped", "dropped">>}

CanTransition(current, target) == <<current, target>> \in AllowedTransitions

\* How many final statuses the history of n tells.
Results(n) == Len(history[n]) - attempts[n] - 1

RecordOld(n, s) ==   \* Mutant: the status that the step replaces is recorded.
  history' = [history EXCEPT ![n] = Append(@, status[n])]

Record(n, s) == history' = [history EXCEPT ![n] = Append(@, s)]

Init ==
  /\ status = [n \in Notification |-> "absent"]
  /\ attempts = [n \in Notification |-> 0]
  /\ history = [n \in Notification |-> <<>>]
  /\ notices = [n \in Notification |-> 0]

Accept(S) ==
  /\ S # {}
  /\ \A n \in S : status[n] = "absent"
  /\ status' = [n \in Notification |-> IF n \in S THEN "queued" ELSE status[n]]
  /\ history' = [n \in Notification |-> IF n \in S THEN <<"queued">> ELSE history[n]]
  /\ UNCHANGED <<attempts, notices>>

\* A further attempt leaves the status at "sent".
Attempt(n) ==
  /\ CanTransition(status[n], "sent") \/ status[n] = "sent"
  /\ attempts[n] < MaxRetries
  /\ attempts' = [attempts EXCEPT ![n] = @ + 1]
  /\ status' = [status EXCEPT ![n] = "sent"]
  /\ Record(n, "sent")
  /\ UNCHANGED notices

(***************************************************************************)
(* A final status stands, unless results can come late: apply does not see *)
(* that one is there, and replaces it.  Each attempt has one result, and   *)
(* the drop for want of attempts may come on top.                          *)
(***************************************************************************)
MayFinish(n, s) ==
  \/ status[n] \notin Final /\ CanTransition(status[n], s)
  \/ ~Timely /\ status[n] \in Final /\ Results(n) <= attempts[n]

Deliver(n) ==
  /\ MayFinish(n, "delivered")
  /\ status' = [status EXCEPT ![n] = "delivered"]
  /\ Record(n, "delivered")
  /\ UNCHANGED <<attempts, notices>>

DropWithNotice(n) ==
  /\ MayFinish(n, "dropped")
  /\ status' = [status EXCEPT ![n] = "dropped"]
  /\ Record(n, "dropped")
  /\ notices' = [notices EXCEPT ![n] = @ + 1]
  /\ UNCHANGED attempts

Next ==
  \/ \E S \in SUBSET Notification : Accept(S)
  \/ \E n \in Notification : Attempt(n) \/ Deliver(n) \/ DropWithNotice(n)

Spec == Init /\ [][Next]_vars
=============================================================================
