------------------------------ MODULE MCRules ------------------------------
(* An instance of Scheduler for TLC. *)
EXTENDS Scheduler

CONSTANTS q1
=============================================================================
