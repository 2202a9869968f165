------------------------------ MODULE MCInference ------------------------------
(* Instances of Inference for TLC. *)
EXTENDS Inference

CONSTANTS r1, r2, t1, t2, t3
=============================================================================
