---------------------------- MODULE ArchiveGate ----------------------------
(***************************************************************************)
(* What suspension promises about the archive, with no worker, no requests *)
(* and no locks: a message is archived only while its owner is approved    *)
(* and only under the owner's current authorization generation             *)
(* (users.auth_version).  Ingestion implements it.                         *)
(***************************************************************************)
EXTENDS Naturals, Sequences

CONSTANT Users

VARIABLES
    approved,   \* users.is_approved
    ver,        \* users.auth_version
    saved       \* for each owner, the generations of the archived messages

vars == <<approved, ver, saved>>

Init ==
    /\ approved \in [Users -> BOOLEAN]
    /\ ver = [u \in Users |-> 0]
    /\ saved = [u \in Users |-> << >>]

Approve(u) ==
    /\ approved' = [approved EXCEPT ![u] = TRUE]
    /\ UNCHANGED <<ver, saved>>

(* Only the transition from approved to suspended opens a new generation. *)
Suspend(u) ==
    /\ approved[u]
    /\ approved' = [approved EXCEPT ![u] = FALSE]
    /\ ver' = [ver EXCEPT ![u] = @ + 1]
    /\ UNCHANGED saved

(* A password or e-mail change opens a new generation, approval unchanged. *)
ChangeCredential(u) ==
    /\ approved[u]
    /\ ver' = [ver EXCEPT ![u] = @ + 1]
    /\ UNCHANGED <<approved, saved>>

Save(u) ==
    /\ approved[u]
    /\ saved' = [saved EXCEPT ![u] = Append(@, ver[u])]
    /\ UNCHANGED <<approved, ver>>

Next ==
    \E u \in Users :
        Approve(u) \/ Suspend(u) \/ ChangeCredential(u) \/ Save(u)

Spec == Init /\ [][Next]_vars

-----------------------------------------------------------------------------
TypeOK ==
    /\ approved \in [Users -> BOOLEAN]
    /\ ver \in [Users -> Nat]
    /\ saved \in [Users -> Seq(Nat)]

(* The archive of an owner never goes back to an earlier generation: once a
   message of a later generation is stored, none of an earlier one follows,
   and no generation is ahead of the owner's. *)
GenerationsInOrder ==
    \A u \in Users :
        /\ \A i \in 1 .. Len(saved[u]) : saved[u][i] <= ver[u]
        /\ \A i, j \in 1 .. Len(saved[u]) : i <= j => saved[u][i] <= saved[u][j]
=============================================================================
