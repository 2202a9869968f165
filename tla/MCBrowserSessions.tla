-------------------------- MODULE MCBrowserSessions --------------------------
(* Instances of BrowserSessions for TLC. *)
EXTENDS BrowserSessions, TLC

CONSTANTS src1, s1, s2, s3

SessionSymmetry == Permutations({s1, s2, s3})
=============================================================================
