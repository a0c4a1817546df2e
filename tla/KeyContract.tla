------------------------------ MODULE KeyContract ------------------------------
(***************************************************************************)
(* What an Idempotency-Key promises its clients, without saying how: a     *)
(* batch is accepted when no earlier one is protected, and a repetition is *)
(* told of the batch that protects the key.                                *)
(***************************************************************************)
EXTENDS Naturals, FiniteSets, Sequences

CONSTANTS Request, Body, None, KeyTTL

VARIABLES
  accepted,  \* the requests whose batch was accepted
  left,      \* how long each batch is still protected
  reply      \* what each request is going to be told

vars == <<accepted, left, reply>>

-----------------------------------------------------------------------------
Names(status, b) ==
  [status |-> status, batch |-> b,
   created |-> Cardinality({Body[b][i] : i \in DOMAIN Body[b]})]

Says(status) == [status |-> status, batch |-> None, created |-> 0]

Init ==
  /\ accepted = {}
  /\ left = [r \in Request |-> 0]
  /\ reply = [r \in Request |-> Says("none")]

\* The batches that a repetition may be told of: none but the protected one,
\* if there is one.
Standing == {b \in accepted : \A c \in accepted \ {b} : left[c] = 0}

\* The acceptance may fail to reach the client.
Accept(r) ==
  /\ r \notin accepted
  /\ \A b \in accepted : left[b] = 0
  /\ accepted' = accepted \cup {r}
  /\ \E t \in 0..KeyTTL : left' = [left EXCEPT ![r] = t]
  /\ reply' = [reply EXCEPT ![r] = Names("accepted", r)]
     \/ reply' = [reply EXCEPT ![r] = Says("error")]

Repeat(r) ==
  /\ reply[r] = Says("none")
  /\ \E b \in Standing :
       IF Body[b] = Body[r]
       THEN reply' = [reply EXCEPT ![r] = Names("already_exists", b)]
       ELSE reply' = [reply EXCEPT ![r] = Says("conflict")]
  /\ UNCHANGED <<accepted, left>>

\* A request may be refused for the moment, fail, or die without an answer.
NoAnswer(r) ==
  /\ \E status \in {"in_progress", "error", "none"} :
       reply' = [reply EXCEPT ![r] = Says(status)]
  /\ reply'[r] = Says("in_progress") => reply[r] = Says("none")
  /\ UNCHANGED <<accepted, left>>

Tick ==
  /\ left' = [r \in Request |-> IF left[r] = 0 THEN 0 ELSE left[r] - 1]
  /\ UNCHANGED <<accepted, reply>>

Next ==
  \/ \E r \in Request : Accept(r) \/ Repeat(r) \/ NoAnswer(r)
  \/ Tick

Spec == Init /\ [][Next]_vars
=============================================================================
