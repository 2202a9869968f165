------------------------------ MODULE MCScanRuns ------------------------------
(* Instances of ScanRuns for TLC. *)
EXTENDS ScanRuns

CONSTANTS q1, s1, s2, c1, c2, c3
=============================================================================
