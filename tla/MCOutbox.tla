------------------------------ MODULE MCOutbox ------------------------------
(* Instances of Outbox for TLC. *)
EXTENDS Outbox, TLC

CONSTANTS r1, r2

Symmetry == Permutations(Relays)
=============================================================================
