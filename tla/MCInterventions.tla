-------------------------- MODULE MCInterventions --------------------------
(* Instance of Interventions for TLC. *)
EXTENDS Interventions, TLC

CONSTANTS t1, t2, t3, c1, c2

Symmetry == Permutations({t1, t2, t3})
=============================================================================
