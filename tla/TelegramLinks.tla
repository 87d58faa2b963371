--------------------------- MODULE TelegramLinks ---------------------------
(***************************************************************************)
(* What users are promised about the Telegram identities they connect: an  *)
(* identity belongs to the user who connected it first, for ever, and is   *)
(* connected only while that user is approved, by a login of the present   *)
(* generation.                                                             *)
(***************************************************************************)
EXTENDS Naturals

CONSTANTS Users, Identities, MaxVer

VARIABLES
    approved, ver,
    owner,      \* for each identity, the set of the users it belongs to
    under       \* for each identity, the generations its session was stored under

vars == <<approved, ver, owner, under>>

Init ==
    /\ approved \in [Users -> BOOLEAN]
    /\ ver = [u \in Users |-> 0]
    /\ owner = [i \in Identities |-> {}]
    /\ under = [i \in Identities |-> {}]

Connect(u, i) ==
    /\ approved[u]
    /\ owner[i] \subseteq {u}
    /\ owner' = [owner EXCEPT ![i] = {u}]
    /\ under' = [under EXCEPT ![i] = {ver[u]}]
    /\ UNCHANGED <<approved, ver>>

Disconnect(i) ==
    /\ under' = [under EXCEPT ![i] = {}]
    /\ UNCHANGED <<approved, ver, owner>>

(* The generation of a user only grows, and does so with every suspension. *)
Authority(u) ==
    /\ \E v \in ver[u] .. MaxVer, b \in BOOLEAN :
        /\ approved[u] /\ ~b => v > ver[u]
        /\ ver' = [ver EXCEPT ![u] = v]
        /\ approved' = [approved EXCEPT ![u] = b]
    /\ UNCHANGED <<owner, under>>

Next ==
    \/ \E u \in Users, i \in Identities : Connect(u, i)
    \/ \E i \in Identities : Disconnect(i)
    \/ \E u \in Users : Authority(u)

Spec == Init /\ [][Next]_vars
=============================================================================
