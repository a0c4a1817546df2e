----------------------------- MODULE MCIdempotency -----------------------------
(* Small instances of the idempotent bulk request for TLC.                 *)
EXTENDS Idempotency, TLC

\* All requests but one have the same body, which names a recipient twice; the
\* other has the same recipients in another order.
OneDiffers ==
  [r \in Request |-> IF r = CHOOSE s \in Request : TRUE THEN <<2, 1>> ELSE <<1, 2, 2>>]
=============================================================================
