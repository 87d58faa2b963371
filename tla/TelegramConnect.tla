-------------------------- MODULE TelegramConnect --------------------------
(***************************************************************************)
(* Connecting a Telegram account (telegram-connect.js): the login attempts *)
(* a user makes, the calls to Telegram they wait for, and the transaction  *)
(* that stores the session; against suspensions (accountApproval.js),      *)
(* credential changes (profile.js) and the removal of a connection         *)
(* (telegram-accounts.js).                                                 *)
(***************************************************************************)
EXTENDS Naturals

CONSTANTS
    Users, NoUser,
    Identities, NoIdentity,     \* telegram_user_id
    Attempts, NoAttempt,        \* the UUIDs of telegram_login_attempts
    Reqs,                       \* slots for requests being served
    MaxVer                      \* bound on auth_version

ASSUME NoValuesAssumption ==
    NoUser \notin Users /\ NoIdentity \notin Identities /\ NoAttempt \notin Attempts
ASSUME MaxVerAssumption == MaxVer \in Nat

VARIABLES
    approved, ver,  \* users.is_approved, users.auth_version
    attempt,        \* rows of telegram_login_attempts
    issued,         \* history: the ids that have been used
    completed,      \* history: the attempts whose login was stored
    accounts,       \* rows of telegram_accounts; gens, the generation under
                    \* which the session was stored, stands for the session
    req             \* the requests in progress

vars == <<approved, ver, attempt, issued, completed, accounts, req>>

NoRow == [user |-> NoUser, status |-> "none"]

Idle == [pc |-> "idle", kind |-> "start", user |-> NoUser, gen |-> 0,
         att |-> NoAttempt, ident |-> NoIdentity, found |-> FALSE]

Account == [ident : Identities, user : Users, gens : SUBSET (0 .. MaxVer)]

TypeOK ==
    /\ approved \in [Users -> BOOLEAN] /\ ver \in [Users -> 0 .. MaxVer]
    /\ attempt \in [Attempts -> [user : Users \cup {NoUser},
                                 status : {"none", "code_sent", "password_required"}]]
    /\ \A t \in Attempts : attempt[t].user = NoUser <=> attempt[t].status = "none"
    /\ issued \subseteq Attempts /\ completed \subseteq issued
    /\ \A t \in Attempts \ issued : attempt[t] = NoRow
    /\ accounts \subseteq Account
    /\ \A a, b \in accounts : a.ident = b.ident => a = b
    /\ req \in [Reqs -> [pc : {"idle", "telegram", "signed_in", "owner", "account"},
                         kind : {"start", "code", "password"},
                         user : Users \cup {NoUser}, gen : 0 .. MaxVer,
                         att : Attempts \cup {NoAttempt},
                         ident : Identities \cup {NoIdentity}, found : BOOLEAN]]
    /\ \A r \in Reqs :
        /\ req[r].pc # "idle" => req[r].user # NoUser
        /\ req[r].pc \notin {"idle", "telegram"} =>
              req[r].att \in issued /\ req[r].ident # NoIdentity

Init ==
    /\ approved \in [Users -> BOOLEAN]
    /\ ver = [u \in Users |-> 0]
    /\ attempt = [t \in Attempts |-> NoRow]
    /\ issued = {} /\ completed = {}
    /\ accounts = {}
    /\ req = [r \in Reqs |-> Idle]

-----------------------------------------------------------------------------
(* Row locks: finalizeConnection locks its user, then the account. *)
UserFree(u) == \A r \in Reqs : ~(req[r].user = u /\ req[r].pc \in {"owner", "account"})

AccountFree(i) == \A r \in Reqs : ~(req[r].ident = i /\ req[r].pc = "account" /\ req[r].found)

RowsOf(i) == {a \in accounts : a.ident = i}

Reply(r) == req' = [req EXCEPT ![r] = Idle]

(* POST /start: requireAuth has found the session valid, so the user approved
   and at the session's generation; Telegram is asked to send a code. *)
Start(r, u) ==
    /\ req[r].pc = "idle"
    /\ approved[u]
    /\ req' = [req EXCEPT ![r] = [Idle EXCEPT !.pc = "telegram", !.user = u, !.gen = ver[u]]]
    /\ UNCHANGED <<approved, ver, attempt, issued, completed, accounts>>

(* The code is sent: the attempt is stored.  Nothing is asked of the user
   again; the foreign key waits for a transaction that holds the user's row. *)
CodeSent(r, t) ==
    /\ req[r].pc = "telegram" /\ req[r].kind = "start"
    /\ t \notin issued
    /\ UserFree(req[r].user)
    /\ attempt' = [attempt EXCEPT ![t] = [user |-> req[r].user, status |-> "code_sent"]]
    /\ issued' = issued \cup {t}
    /\ Reply(r)
    /\ UNCHANGED <<approved, ver, completed, accounts>>

(* POST /verify-code and /verify-password: ownedAttempt reads the attempt and
   Telegram is asked, with no lock and no mark on the attempt. *)
Verify(r, t, kind) ==
    LET u == attempt[t].user IN
    /\ req[r].pc = "idle"
    /\ u # NoUser /\ approved[u]
    /\ kind = "password" => attempt[t].status = "password_required"
    /\ req' = [req EXCEPT ![r] = [Idle EXCEPT !.pc = "telegram", !.kind = kind, !.user = u,
                                              !.gen = ver[u], !.att = t]]
    /\ UNCHANGED <<approved, ver, attempt, issued, completed, accounts>>

(* Telegram wants the password: UPDATE of the attempt, if it is there.  (X_Y
   is a faulty variant of X, see the README.) *)
AskPassword_Upsert(r) ==
    /\ req[r].pc = "telegram" /\ req[r].kind = "code"
    /\ attempt' = [attempt EXCEPT ![req[r].att] =
                      [user |-> req[r].user, status |-> "password_required"]]
    /\ Reply(r)
    /\ UNCHANGED <<approved, ver, issued, completed, accounts>>

AskPassword(r) ==
    /\ req[r].pc = "telegram" /\ req[r].kind = "code"
    /\ attempt' = [attempt EXCEPT ![req[r].att].status =
                      IF @ = "none" THEN @ ELSE "password_required"]
    /\ Reply(r)
    /\ UNCHANGED <<approved, ver, issued, completed, accounts>>

(* Telegram has signed the user in as i. *)
SignedIn(r, i) ==
    /\ req[r].pc = "telegram" /\ req[r].kind # "start"
    /\ req' = [req EXCEPT ![r].pc = "signed_in", ![r].ident = i]
    /\ UNCHANGED <<approved, ver, attempt, issued, completed, accounts>>

(* finalizeConnection: the user's row is locked; it must be approved and at
   the generation of the session of the request. *)
Authorized_Approved(r) == approved[req[r].user]

Authorized(r) == LET u == req[r].user IN approved[u] /\ ver[u] = req[r].gen

LockOwner(r) ==
    /\ req[r].pc = "signed_in"
    /\ UserFree(req[r].user)
    /\ Authorized(r)
    /\ req' = [req EXCEPT ![r].pc = "owner"]
    /\ UNCHANGED <<approved, ver, attempt, issued, completed, accounts>>

(* SELECT ... FOR UPDATE of the identity's row, which must not be another
   user's.  Where there is none, two users may both find none. *)
LinkedElsewhere(r) == \E a \in RowsOf(req[r].ident) : a.user # req[r].user

LockAccount(r) ==
    /\ req[r].pc = "owner"
    /\ AccountFree(req[r].ident)
    /\ ~LinkedElsewhere(r)
    /\ req' = [req EXCEPT ![r].pc = "account", ![r].found = RowsOf(req[r].ident) # {}]
    /\ UNCHANGED <<approved, ver, attempt, issued, completed, accounts>>

(* The UNIQUE KEY on telegram_user_id. *)
Insertable_PerUser(r) ==
    req[r].found \/ \A a \in RowsOf(req[r].ident) : a.user # req[r].user

Insertable(r) == req[r].found \/ RowsOf(req[r].ident) = {}

(* The row is updated or inserted, the attempt deleted, the transaction
   committed. *)
Store(r) ==
    LET i == req[r].ident IN
    /\ req[r].pc = "account"
    /\ Insertable(r)
    /\ accounts' = (accounts \ {a \in RowsOf(i) : a.user = req[r].user}) \cup
                   {[ident |-> i, user |-> req[r].user, gens |-> {req[r].gen}]}
    /\ attempt' = [attempt EXCEPT ![req[r].att] = NoRow]
    /\ completed' = completed \cup {req[r].att}
    /\ Reply(r)
    /\ UNCHANGED <<approved, ver, issued>>

(* A wrong or expired code, the 30 seconds are over, a check or a statement
   fails, the transaction is a deadlock's victim, or Node ends. *)
Fail(r) ==
    /\ req[r].pc # "idle"
    /\ Reply(r)
    /\ UNCHANGED <<approved, ver, attempt, issued, completed, accounts>>

-----------------------------------------------------------------------------
(* Ten minutes are over; the next request for the attempt deletes it. *)
Expire(t) ==
    /\ attempt[t] # NoRow
    /\ attempt' = [attempt EXCEPT ![t] = NoRow]
    /\ UNCHANGED <<approved, ver, issued, completed, accounts, req>>

Approve(u) ==
    /\ UserFree(u)
    /\ approved' = [approved EXCEPT ![u] = TRUE]
    /\ UNCHANGED <<ver, attempt, issued, completed, accounts, req>>

(* setApproval(userId, FALSE) deletes the user's attempts. *)
Suspend(u) ==
    /\ UserFree(u)
    /\ approved[u] => ver[u] < MaxVer
    /\ ver' = [ver EXCEPT ![u] = IF approved[u] THEN @ + 1 ELSE @]
    /\ approved' = [approved EXCEPT ![u] = FALSE]
    /\ attempt' = [t \in Attempts |-> IF attempt[t].user = u THEN NoRow ELSE attempt[t]]
    /\ UNCHANGED <<issued, completed, accounts, req>>

ChangeCredential(u) ==
    /\ UserFree(u)
    /\ approved[u]
    /\ ver[u] < MaxVer
    /\ ver' = [ver EXCEPT ![u] = @ + 1]
    /\ UNCHANGED <<approved, attempt, issued, completed, accounts, req>>

(* DELETE /:id/connection clears the session and keeps the row. *)
Remove(a) ==
    /\ AccountFree(a.ident)
    /\ accounts' = (accounts \ {a}) \cup {[a EXCEPT !.gens = {}]}
    /\ UNCHANGED <<approved, ver, attempt, issued, completed, req>>

-----------------------------------------------------------------------------
Next ==
    \/ \E r \in Reqs :
        \/ \E u \in Users : Start(r, u)
        \/ \E t \in Attempts : CodeSent(r, t)
        \/ \E t \in Attempts, kind \in {"code", "password"} : Verify(r, t, kind)
        \/ AskPassword(r)
        \/ \E i \in Identities : SignedIn(r, i)
        \/ LockOwner(r) \/ LockAccount(r) \/ Store(r) \/ Fail(r)
    \/ \E t \in Attempts : Expire(t)
    \/ \E u \in Users : Approve(u) \/ Suspend(u) \/ ChangeCredential(u)
    \/ \E a \in accounts : Remove(a)

Spec == Init /\ [][Next]_vars

-----------------------------------------------------------------------------
(* An attempt whose login has been stored is gone, also when another request
   read it before and is answered later (STEP4_TELEGRAM_AUTH_TESTING.md: "A
   completed attempt is deleted, so its attempt-status route returns 404"). *)
CompletedAttemptGone == \A t \in completed : attempt[t] = NoRow

(* Whatever logins, calls and revocations overlap, an identity stays with the
   user who connected it first, and a session is stored for an approved user
   only, by a login of the present generation
   (STEP4_TELEGRAM_AUTH_TESTING.md: "Attempt the same Telegram identity as
   another user; expect 409 with no ownership change"). *)
Links == INSTANCE TelegramLinks WITH
    owner <- [i \in Identities |-> {a.user : a \in RowsOf(i)}],
    under <- [i \in Identities |-> UNION {a.gens : a \in RowsOf(i)}]

ImplementsLinks == Links!Spec
=============================================================================
