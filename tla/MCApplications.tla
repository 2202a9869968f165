--------------------------- MODULE MCApplications ---------------------------
(* Instances of Applications for TLC. *)
EXTENDS Applications, TLC

CONSTANTS a1, a2, a3, l1, l2, p1, i1, i2, c1, c2, empty, full

Setting(auto, ls, n, z) == [automatic |-> auto, covers |-> ls, cap |-> n, zone |-> z]

\* Review only, automatic with one slot, automatic with two slots and a day ahead.
ThreeSettings == {Setting(FALSE, {}, 1, 0), Setting(TRUE, {l1, l2}, 1, 0), Setting(TRUE, {l1, l2}, 2, 1)}
OneSetting    == {Setting(FALSE, {}, 1, 0)}

QuotaSymmetry   == Permutations({a1, a2}) \cup Permutations({l1, l2}) \cup Permutations({i1, i2})
RetrySymmetry   == Permutations({a1, a2}) \cup Permutations({i1, i2})
=============================================================================
