------------------------- MODULE MCStorageOverview -------------------------
(* One user exports and deletes; a second one competes for the cache. *)
EXTENDS StorageOverview, TLC

CONSTANTS u1, u2, k1, j1, d1, d2, r1, r2

TwoUsers == {u1, u2}
OneKey == {k1}
FirstUsers == [k \in Keys |-> u1]
OneJob == {j1}
TwoDels == {d1, d2}
TwoAsks == {r1, r2}

Symmetry == Permutations(Dels) \cup Permutations(Asks)
=============================================================================
