------------------------------- MODULE MCDelivery -------------------------------
(* Small instances of the delivery pipeline for TLC.                       *)
EXTENDS NotificationDelivery, TLC

\* Every worker serves both queues, or each one queue as in docker-compose.yml.
AllBoth == [w \in Worker |-> "both"]

HighAndLow == [w \in Worker |-> IF w = CHOOSE v \in Worker : TRUE THEN "high" ELSE "low"]
OneTick == <<1>>
LongerThanLock == <<3>>   \* than LockTTL in long_backoff.cfg
NoBackoff == <<>>

Symmetry == Permutations(Worker) \cup Permutations(Publisher)
=============================================================================
