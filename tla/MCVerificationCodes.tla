------------------------ MODULE MCVerificationCodes ------------------------
EXTENDS VerificationCodes, TLC

CONSTANTS u1, s1, s2, e0, e1, e2, r1, r2

OneUser == {u1}
TwoSignups == {s1, s2}
ThreeAddresses == {e0, e1, e2}
Home == [u \in Users |-> e0]
TwoReqs == {r1, r2}

Symmetry == Permutations(Reqs) \cup Permutations({e1, e2}) \cup Permutations(Signups)
=============================================================================
