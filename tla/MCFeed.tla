--------------------------------- MODULE MCFeed ---------------------------------
(* Small instances of the read API for TLC.                                *)
EXTENDS SubscriberFeed, TLC

\* The two oldest notifications have the same created_at.
TwoAtOnce == [n \in Notification |-> IF n <= 2 THEN 1 ELSE n]
FirstIsEmail == [n \in Notification |-> IF n = 1 THEN "email" ELSE "sms"]
=============================================================================
