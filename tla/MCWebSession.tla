--------------------------- MODULE MCWebSession ---------------------------
EXTENDS WebSession, TLC

CONSTANTS u1, u2, i1, i2, i3, r1, r2, s1, s2

OneUser == {u1}
TwoUsers == {u1, u2}
TwoSids == {i1, i2}
ThreeSids == {i1, i2, i3}
OneReq == {r1}
TwoReqs == {r1, r2}
NoSocks == {}
OneSock == {s1}
TwoSocks == {s1, s2}

Symmetry == Permutations(Reqs) \cup Permutations(Socks) \cup Permutations(Sids)
=============================================================================
