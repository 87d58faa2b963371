------------------------- MODULE MCProtectedStream -------------------------
EXTENDS ProtectedStream, TLC

CONSTANTS u1, u2, t1, t2, t3, s1, s2, s3

OneUser == {u1}
TwoUsers == {u1, u2}
TwoTransfers == {t1, t2}
ThreeTransfers == {t1, t2, t3}
TwoSets == {s1, s2}
ThreeSets == {s1, s2, s3}

Symmetry == Permutations(Transfers) \cup Permutations(SetIds)
=============================================================================
