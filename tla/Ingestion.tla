----------------------------- MODULE Ingestion -----------------------------
(***************************************************************************)
(* POST /messages on the Node server, against the transactions that revoke *)
(* its authority: setApproval (accountApproval.js) and the password and    *)
(* e-mail changes (profile.js).  All of them lock the owner's row of       *)
(* `users`; a request that holds the row is one whose pc is "locked".      *)
(*                                                                         *)
(* The caller is the worker, but nothing is assumed of it here: a request  *)
(* names any account and claims any generation.                            *)
(***************************************************************************)
EXTENDS Naturals, Sequences

CONSTANTS
    Users,
    Accounts,      \* telegram_accounts.id
    Owner,         \* telegram_accounts.user_id, never updated
    Posts,         \* slots for POST /messages requests being served
    NoAccount,     \* the account of a free slot
    MaxVer,        \* bound on auth_version
    MaxSaved       \* bound on the messages archived for one owner

ASSUME OwnerAssumption == Owner \in [Accounts -> Users]
ASSUME NoAccountAssumption == NoAccount \notin Accounts
ASSUME BoundAssumption == MaxVer \in Nat /\ MaxSaved \in Nat

VARIABLES
    approved,   \* users.is_approved
    ver,        \* users.auth_version
    saved,      \* for each owner, the generations of the archived messages
    post        \* the requests in progress

vars == <<approved, ver, saved, post>>

FreePost == [pc |-> "free", acct |-> NoAccount, gen |-> 0]

TypeOK ==
    /\ approved \in [Users -> BOOLEAN]
    /\ ver \in [Users -> 0 .. MaxVer]
    /\ saved \in [Users -> Seq(0 .. MaxVer)]
    /\ post \in [Posts -> [pc : {"free", "check", "locked"},
                           acct : Accounts \cup {NoAccount},
                           gen : 0 .. MaxVer]]

Init ==
    /\ approved \in [Users -> BOOLEAN]
    /\ ver = [u \in Users |-> 0]
    /\ saved = [u \in Users |-> << >>]
    /\ post = [p \in Posts |-> FreePost]

-----------------------------------------------------------------------------
(* SELECT ... FOR UPDATE on the owner: who holds the row of u.  (An operator
   named X_Y, here and below, is a faulty variant of X; no specification uses
   it.  The README says which property each of them breaks.) *)
HoldsRow_PlainSelect(p, u) == FALSE

HoldsRow(p, u) == post[p].pc = "locked" /\ Owner[post[p].acct] = u

RowFree(u) == \A p \in Posts : ~HoldsRow(p, u)

Reply(p) == post' = [post EXCEPT ![p] = FreePost]

(* The request arrives and its filter check passes: from here on only the
   transaction decides. *)
Receive(p, a, g) ==
    /\ post[p].pc = "free"
    /\ post' = [post EXCEPT ![p] = [pc |-> "check", acct |-> a, gen |-> g]]
    /\ UNCHANGED <<approved, ver, saved>>

(* What the transaction reads once it has the row. *)
Admissible_AnyGeneration(p) == approved[Owner[post[p].acct]]

Admissible_NotNewer(p) ==
    LET u == Owner[post[p].acct] IN approved[u] /\ post[p].gen <= ver[u]

Admissible_Suspended(p) == post[p].gen = ver[Owner[post[p].acct]]

Admissible(p) ==
    LET u == Owner[post[p].acct] IN approved[u] /\ post[p].gen = ver[u]

(* beginTransaction; the owner is locked and found approved, at the
   generation the payload names. *)
Lock(p) ==
    /\ post[p].pc = "check"
    /\ RowFree(Owner[post[p].acct])
    /\ Admissible(p)
    /\ post' = [post EXCEPT ![p].pc = "locked"]
    /\ UNCHANGED <<approved, ver, saved>>

(* The same read finds the owner suspended or the generation old: rollback
   and 403. *)
Reject(p) ==
    /\ post[p].pc = "check"
    /\ RowFree(Owner[post[p].acct])
    /\ ~Admissible(p)
    /\ Reply(p)
    /\ UNCHANGED <<approved, ver, saved>>

(* The sender, channel, message and media upserts become visible and the row
   is released. *)
Commit(p) ==
    LET u == Owner[post[p].acct] IN
    /\ post[p].pc = "locked"
    /\ Len(saved[u]) < MaxSaved
    /\ saved' = [saved EXCEPT ![u] = Append(@, post[p].gen)]
    /\ Reply(p)
    /\ UNCHANGED <<approved, ver>>

(* Validation failure, pool failure, lock timeout, deadlock victim, foreign
   media key or the end of the Node process: nothing is stored. *)
Abort(p) ==
    /\ post[p].pc # "free"
    /\ Reply(p)
    /\ UNCHANGED <<approved, ver, saved>>

-----------------------------------------------------------------------------
(* setApproval(userId, TRUE): the generation is left alone. *)
Approve(u) ==
    /\ RowFree(u)
    /\ approved' = [approved EXCEPT ![u] = TRUE]
    /\ UNCHANGED <<ver, saved, post>>

Suspend_EveryRetry(u) ==
    /\ RowFree(u)
    /\ approved[u] => ver[u] < MaxVer
    /\ ver' = [ver EXCEPT ![u] = @ + 1]
    /\ approved' = [approved EXCEPT ![u] = FALSE]
    /\ UNCHANGED <<saved, post>>

(* setApproval(userId, FALSE): a retry of a suspension changes nothing. *)
Suspend(u) ==
    /\ RowFree(u)
    /\ approved[u] => ver[u] < MaxVer
    /\ ver' = [ver EXCEPT ![u] = IF approved[u] THEN @ + 1 ELSE @]
    /\ approved' = [approved EXCEPT ![u] = FALSE]
    /\ UNCHANGED <<saved, post>>

(* POST /profile/password and /profile/email/verify.  The transaction wants
   auth_version equal to the session's; sessions are issued to approved users
   only and a suspension advances auth_version, so the user is approved. *)
ChangeCredential(u) ==
    /\ RowFree(u)
    /\ approved[u]
    /\ ver[u] < MaxVer
    /\ ver' = [ver EXCEPT ![u] = @ + 1]
    /\ UNCHANGED <<approved, saved, post>>

-----------------------------------------------------------------------------
Serve(p) == Lock(p) \/ Reject(p) \/ Commit(p) \/ Abort(p)

Next ==
    \/ \E p \in Posts :
        \/ \E a \in Accounts, g \in 0 .. MaxVer : Receive(p, a, g)
        \/ Serve(p)
    \/ \E u \in Users : Approve(u) \/ Suspend(u) \/ ChangeCredential(u)

Spec == Init /\ [][Next]_vars

-----------------------------------------------------------------------------
(* A transaction past its check is still authorized: nobody suspends the owner
   or opens a new generation between the SELECT ... FOR UPDATE and the commit
   (messages.post.js: "no message can commit after a completed suspension
   transaction"). *)
LockedIsCurrent ==
    \A p \in Posts : post[p].pc = "locked" => Admissible(p)

(* Once an owner is suspended, nothing more of the generations up to that
   suspension is archived, however long a request was on its way: the archive
   grows only at an approved owner and by its current generation. *)
NothingAfterSuspension ==
    [][\A u \in Users :
          saved'[u] # saved[u] =>
              /\ approved[u] /\ approved'[u]
              /\ saved'[u] = Append(saved[u], ver[u])]_vars

(* The archive as the owner is promised it. *)
Gate == INSTANCE ArchiveGate

ImplementsGate == Gate!Spec

GenerationsInOrder == Gate!GenerationsInOrder
=============================================================================
