------------------------- MODULE MCTelegramConnect -------------------------
(* Two users who both sign in to the same Telegram identity. *)
EXTENDS TelegramConnect, TLC

CONSTANTS u1, u2, i1, t1, t2, r1, r2, r3

TwoUsers == {u1, u2}
OneIdentity == {i1}
TwoAttempts == {t1, t2}
ThreeReqs == {r1, r2, r3}

Symmetry == Permutations(Users) \cup Permutations(Attempts) \cup Permutations(Reqs)
=============================================================================
