--------------------------- MODULE MCWorkerLease ---------------------------
EXTENDS WorkerLease, TLC

CONSTANTS u1, a1, a2, p1, p2, c1, c2

OneOwner == {u1}
OneAccount == {a1}
TwoAccounts == {a1, a2}
SameOwner == [a \in Accounts |-> u1]
NoPosts == {}
OnePost == {p1}
TwoPosts == {p1, p2}
NoCmds == {}
OneCmd == {c1}
TwoCmds == {c1, c2}

CmdSymmetry == Permutations(Cmds)
=============================================================================
