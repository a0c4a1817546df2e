-------------------------------- MODULE MCRelay --------------------------------
(* Small instances of the outbox relay for TLC.                            *)
EXTENDS OutboxRelay, TLC

Symmetry == Permutations(Publisher)
=============================================================================
