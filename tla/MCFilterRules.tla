--------------------------- MODULE MCFilterRules ---------------------------
EXTENDS FilterRules, TLC

CONSTANTS u1, a1, p1, c1, c2, t1, t2, s1

OneOwner == {u1}
OneAccount == {a1}
SameOwner == [a \in Accounts |-> u1]
OnePost == {p1}
OneChat == {c1}
TwoChats == {c1, c2}
TwoTitles == {t1, t2}
OneSender == {s1}

Symmetry == Permutations(Chats) \cup Permutations(Titles)
=============================================================================
