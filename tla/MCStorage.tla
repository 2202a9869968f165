----------------------------- MODULE MCStorage -----------------------------
(* Instance of Storage for TLC. *)
EXTENDS Storage, TLC

CONSTANTS v1, v2

Symmetry == Permutations({v1, v2})
=============================================================================
