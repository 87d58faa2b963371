----------------------- MODULE TelegramConnect_proofs -----------------------
(* The login path for any number of users, identities, attempts, requests and
   generations. *)
EXTENDS TelegramConnect, TLAPS

USE NoValuesAssumption, MaxVerAssumption

-----------------------------------------------------------------------------
(* The type invariant, a part for each table. *)

UsersOK == approved \in [Users -> BOOLEAN] /\ ver \in [Users -> 0 .. MaxVer]

Row == [user : Users \cup {NoUser}, status : {"none", "code_sent", "password_required"}]

AttemptsOK ==
    /\ attempt \in [Attempts -> Row]
    /\ \A t \in Attempts : attempt[t].user = NoUser <=> attempt[t].status = "none"
    /\ issued \subseteq Attempts /\ completed \subseteq issued
    /\ \A t \in Attempts \ issued : attempt[t] = NoRow

AccountsOK == accounts \subseteq Account /\ \A a, b \in accounts : a.ident = b.ident => a = b

Req == [pc : {"idle", "telegram", "signed_in", "owner", "account"},
        kind : {"start", "code", "password"},
        user : Users \cup {NoUser}, gen : 0 .. MaxVer,
        att : Attempts \cup {NoAttempt},
        ident : Identities \cup {NoIdentity}, found : BOOLEAN]

(* A request in progress has a user; past the sign-in it has an identity and,
   unless it only starts a login, an attempt that was issued. *)
Formed(q, ids) ==
    /\ q.pc # "idle" => q.user # NoUser
    /\ q.pc \notin {"idle", "telegram"} => q.ident # NoIdentity /\ q.kind # "start"
    /\ q.kind # "start" => q.att \in ids

ReqsOK == req \in [Reqs -> Req] /\ \A r \in Reqs : Formed(req[r], issued)

Parts == UsersOK /\ AttemptsOK /\ AccountsOK /\ ReqsOK

LEMMA PartsTyped == Parts => TypeOK
  BY DEF Parts, TypeOK, UsersOK, AttemptsOK, AccountsOK, ReqsOK, Row, Req, Formed

(* A request that has found the identity's row has found one of its user's,
   and the row stays. *)
OwnRow ==
    \A r \in Reqs : req[r].pc = "account" /\ req[r].found =>
        /\ \E a \in accounts : a.ident = req[r].ident
        /\ \A a \in accounts : a.ident = req[r].ident => a.user = req[r].user

(* A request that holds its user's row stays authorized. *)
LockedCurrent ==
    \A r \in Reqs : req[r].pc \in {"owner", "account"} => Authorized(r)

IInv == Parts /\ OwnRow /\ LockedCurrent /\ CompletedAttemptGone

-----------------------------------------------------------------------------
(* What the actions do to the requests. *)

LEMMA IdleTyped == Idle \in Req /\ \A ids : Formed(Idle, ids)
  BY DEF Idle, Req, Formed

LEMMA Becomes ==
    ASSUME ReqsOK, issued \subseteq issued', NEW r \in Reqs,
           NEW q \in Req, Formed(q, issued'), req' = [req EXCEPT ![r] = q]
    PROVE  ReqsOK'
  <1>1. req' \in [Reqs -> Req]
    BY DEF ReqsOK
  <1>2. ASSUME NEW s \in Reqs PROVE Formed(req'[s], issued')
    BY DEF ReqsOK, Formed
  <1> QED BY <1>1, <1>2 DEF ReqsOK

LEMMA Replies ==
    ASSUME ReqsOK, issued \subseteq issued', NEW r \in Reqs, Reply(r)
    PROVE  ReqsOK'
  <1> QED BY IdleTyped, Becomes DEF Reply

(* The steps of a verification after Telegram has answered. *)
LEMMA Steps ==
    ASSUME Parts, NEW r \in Reqs,
           (\E i \in Identities : SignedIn(r, i)) \/ LockOwner(r) \/ LockAccount(r)
    PROVE  ReqsOK' /\ UNCHANGED <<approved, ver, attempt, issued, completed, accounts>>
  <1>1. req[r] \in Req /\ Formed(req[r], issued) /\ ReqsOK
    BY DEF Parts, ReqsOK
  <1>2. ASSUME NEW i \in Identities, SignedIn(r, i) PROVE ReqsOK'
    <2> DEFINE q == [req[r] EXCEPT !.pc = "signed_in", !.ident = i]
    <2>1. q \in Req /\ Formed(q, issued')
      BY <1>1, <1>2 DEF SignedIn, Req, Formed
    <2>2. req' = [req EXCEPT ![r] = q] /\ UNCHANGED issued
      BY <1>1, <1>2 DEF SignedIn, ReqsOK
    <2> HIDE DEF q
    <2> QED BY <1>1, <2>1, <2>2, Becomes
  <1>3. ASSUME LockOwner(r) PROVE ReqsOK'
    <2> DEFINE q == [req[r] EXCEPT !.pc = "owner"]
    <2>1. q \in Req /\ Formed(q, issued')
      BY <1>1, <1>3 DEF LockOwner, Req, Formed
    <2>2. req' = [req EXCEPT ![r] = q] /\ UNCHANGED issued
      BY <1>1, <1>3 DEF LockOwner, ReqsOK
    <2> HIDE DEF q
    <2> QED BY <1>1, <2>1, <2>2, Becomes
  <1>4. ASSUME LockAccount(r) PROVE ReqsOK'
    <2> DEFINE q == [req[r] EXCEPT !.pc = "account", !.found = RowsOf(req[r].ident) # {}]
    <2>1. q \in Req /\ Formed(q, issued')
      BY <1>1, <1>4 DEF LockAccount, Req, Formed
    <2>2. req' = [req EXCEPT ![r] = q] /\ UNCHANGED issued
      BY <1>1, <1>4 DEF LockAccount, ReqsOK
    <2> HIDE DEF q
    <2> QED BY <1>1, <2>1, <2>2, Becomes
  <1> QED BY <1>2, <1>3, <1>4 DEF SignedIn, LockOwner, LockAccount

LEMMA StartStep ==
    ASSUME Parts, NEW r \in Reqs, NEW u \in Users, Start(r, u)
    PROVE  ReqsOK' /\ UNCHANGED <<approved, ver, attempt, issued, completed, accounts>>
  <1> DEFINE q == [Idle EXCEPT !.pc = "telegram", !.user = u, !.gen = ver[u]]
  <1>1. q \in Req /\ Formed(q, issued')
    BY DEF Parts, UsersOK, Idle, Req, Formed
  <1>2. req' = [req EXCEPT ![r] = q] /\ UNCHANGED <<approved, ver, attempt, issued, completed, accounts>>
    BY DEF Start
  <1> HIDE DEF q
  <1> QED BY <1>1, <1>2, Becomes DEF Parts

LEMMA VerifyStep ==
    ASSUME Parts, NEW r \in Reqs, NEW t \in Attempts, NEW kind \in {"code", "password"},
           Verify(r, t, kind)
    PROVE  ReqsOK' /\ UNCHANGED <<approved, ver, attempt, issued, completed, accounts>>
  <1> DEFINE u == attempt[t].user
             q == [Idle EXCEPT !.pc = "telegram", !.kind = kind, !.user = u,
                               !.gen = ver[u], !.att = t]
  <1>1. u \in Users /\ t \in issued
    BY DEF Verify, Parts, AttemptsOK, Row, NoRow
  <1>2. q \in Req
    BY <1>1 DEF Parts, UsersOK, Idle, Req
  <1>3. req' = [req EXCEPT ![r] = q] /\ UNCHANGED <<approved, ver, attempt, issued, completed, accounts>>
    BY DEF Verify
  <1>4. Formed(q, issued')
    BY <1>1, <1>3 DEF Idle, Formed
  <1> HIDE DEF q
  <1> QED BY <1>2, <1>3, <1>4, Becomes DEF Parts

-----------------------------------------------------------------------------
(* What a login stores: the one row of its identity. *)
LEMMA StoredRow ==
    ASSUME IInv, NEW r \in Reqs, Store(r)
    PROVE  /\ req[r].ident \in Identities /\ req[r].user \in Users
           /\ req[r].gen \in 0 .. MaxVer /\ req[r].att \in issued
           /\ \A a \in RowsOf(req[r].ident) : a.user = req[r].user
           /\ accounts' = (accounts \ RowsOf(req[r].ident)) \cup
                 {[ident |-> req[r].ident, user |-> req[r].user, gens |-> {req[r].gen}]}
  <1> USE DEF Store
  <1>1. req[r] \in Req /\ Formed(req[r], issued)
    BY DEF IInv, Parts, ReqsOK
  <1>2. /\ req[r].ident \in Identities /\ req[r].user \in Users
        /\ req[r].gen \in 0 .. MaxVer /\ req[r].att \in issued
    BY <1>1 DEF Req, Formed
  <1>3. \A a \in RowsOf(req[r].ident) : a.user = req[r].user
    BY <1>1 DEF IInv, OwnRow, RowsOf, Insertable, Req
  <1>4. {a \in RowsOf(req[r].ident) : a.user = req[r].user} = RowsOf(req[r].ident)
    BY <1>3
  <1> QED BY <1>2, <1>3, <1>4

LEMMA StoreStep ==
    ASSUME IInv, NEW r \in Reqs, Store(r)
    PROVE  IInv'
  <1> DEFINE i == req[r].ident
             new == [ident |-> i, user |-> req[r].user, gens |-> {req[r].gen}]
  <1>1. /\ i \in Identities /\ req[r].user \in Users
        /\ req[r].gen \in 0 .. MaxVer /\ req[r].att \in issued
        /\ \A a \in RowsOf(i) : a.user = req[r].user
        /\ accounts' = (accounts \ RowsOf(i)) \cup {new}
    BY StoredRow
  <1>2. UsersOK' /\ ReqsOK'
    BY Replies DEF IInv, Parts, UsersOK, Store
  <1>3. AttemptsOK'
    BY <1>1 DEF IInv, Parts, AttemptsOK, Store, NoRow, Row
  <1>4. AccountsOK'
    <2>1. new \in Account
      BY <1>1 DEF Account
    <2>2. accounts' \subseteq Account
      BY <1>1, <2>1 DEF IInv, Parts, AccountsOK
    <2>3. ASSUME NEW a \in accounts', NEW b \in accounts', a.ident = b.ident PROVE a = b
      BY <1>1, <2>3 DEF IInv, Parts, AccountsOK, RowsOf
    <2> QED BY <2>2, <2>3 DEF AccountsOK
  <1>5. OwnRow'
    <2> SUFFICES ASSUME NEW s \in Reqs, req'[s].pc = "account", req'[s].found
                 PROVE  /\ \E a \in accounts' : a.ident = req'[s].ident
                        /\ \A a \in accounts' : a.ident = req'[s].ident => a.user = req'[s].user
      BY DEF OwnRow
    <2>1. req'[s] = req[s]
      BY DEF Store, Reply, Idle, IInv, Parts, ReqsOK
    <2>2. PICK b \in accounts : b.ident = req[s].ident
      BY <2>1 DEF IInv, OwnRow
    <2>3. \A a \in accounts : a.ident = req[s].ident => a.user = req[s].user
      BY <2>1 DEF IInv, OwnRow
    <2>4. new \in accounts' /\ \A a \in accounts' : a = new \/ (a \in accounts /\ a.ident # i)
      BY <1>1 DEF RowsOf
    <2>5. CASE req[s].ident = i
      <3>1. req[r].user = req[s].user
        BY <1>1, <2>2, <2>3, <2>5 DEF RowsOf
      <3> QED BY <2>1, <2>4, <2>5, <3>1
    <2>6. CASE req[s].ident # i
      <3>1. b \in accounts'
        BY <1>1, <2>2, <2>6 DEF RowsOf
      <3> QED BY <2>1, <2>2, <2>3, <2>4, <2>6, <3>1
    <2> QED BY <2>5, <2>6
  <1>6. LockedCurrent'
    BY DEF IInv, Parts, ReqsOK, LockedCurrent, Authorized, Store, Reply, Idle
  <1>7. CompletedAttemptGone'
    BY <1>1 DEF IInv, Parts, AttemptsOK, CompletedAttemptGone, Store
  <1> QED BY <1>2, <1>3, <1>4, <1>5, <1>6, <1>7 DEF IInv, Parts

-----------------------------------------------------------------------------
(* The other steps of a request. *)

(* A step after which request r holds no lock keeps what the others hold. *)
LEMMA Unlocked ==
    ASSUME IInv, NEW r \in Reqs, NEW q, q.pc \notin {"owner", "account"},
           req' = [req EXCEPT ![r] = q], UNCHANGED <<approved, ver, accounts>>
    PROVE  UsersOK' /\ AccountsOK' /\ OwnRow' /\ LockedCurrent'
  <1>1. \A s \in Reqs : req'[s] = req[s] \/ req'[s].pc \notin {"owner", "account"}
    BY DEF IInv, Parts, ReqsOK
  <1>2. UsersOK' /\ AccountsOK'
    BY DEF IInv, Parts, UsersOK, AccountsOK
  <1>3. OwnRow'
    BY <1>1 DEF IInv, OwnRow
  <1>4. LockedCurrent'
    BY <1>1 DEF IInv, LockedCurrent, Authorized
  <1> QED BY <1>2, <1>3, <1>4

LEMMA Untouched ==
    ASSUME IInv, UNCHANGED <<attempt, issued, completed>>
    PROVE  AttemptsOK' /\ CompletedAttemptGone'
  BY DEF IInv, Parts, AttemptsOK, CompletedAttemptGone

LEMMA RequestStep ==
    ASSUME IInv, NEW r \in Reqs,
           \/ \E u \in Users : Start(r, u)
           \/ \E t \in Attempts : CodeSent(r, t)
           \/ \E t \in Attempts, kind \in {"code", "password"} : Verify(r, t, kind)
           \/ AskPassword(r)
           \/ \E i \in Identities : SignedIn(r, i)
           \/ LockOwner(r) \/ LockAccount(r) \/ Fail(r)
    PROVE  IInv'
  <1>1. ASSUME NEW u \in Users, Start(r, u) PROVE IInv'
    <2>1. OwnRow' /\ LockedCurrent' /\ UsersOK' /\ AccountsOK'
      BY <1>1, Unlocked DEF Start, Idle
    <2> QED BY <1>1, <2>1, StartStep, Untouched DEF IInv, Parts
  <1>2. ASSUME NEW t \in Attempts, CodeSent(r, t) PROVE IInv'
    <2>1. OwnRow' /\ LockedCurrent' /\ UsersOK' /\ AccountsOK'
      BY <1>2, Unlocked DEF CodeSent, Reply, Idle
    <2>2. ReqsOK'
      BY <1>2, Replies DEF CodeSent, IInv, Parts
    <2>3. req[r].user \in Users
      BY <1>2 DEF CodeSent, IInv, Parts, ReqsOK, Req, Formed
    <2>4. AttemptsOK'
      <3>1. attempt' \in [Attempts -> Row] /\ issued' \subseteq Attempts /\ completed' \subseteq issued'
        BY <1>2, <2>3 DEF CodeSent, IInv, Parts, AttemptsOK, Row
      <3>2. \A x \in Attempts : x # t => attempt'[x] = attempt[x]
        BY <1>2 DEF CodeSent, IInv, Parts, AttemptsOK
      <3>3. attempt'[t] = [user |-> req[r].user, status |-> "code_sent"]
        BY <1>2 DEF CodeSent, IInv, Parts, AttemptsOK
      <3>4. \A x \in Attempts : attempt'[x].user = NoUser <=> attempt'[x].status = "none"
        BY <2>3, <3>2, <3>3, NoValuesAssumption DEF IInv, Parts, AttemptsOK
      <3>5. \A x \in Attempts \ issued' : attempt'[x] = NoRow
        BY <1>2, <3>2 DEF CodeSent, IInv, Parts, AttemptsOK
      <3> QED BY <3>1, <3>4, <3>5 DEF AttemptsOK
    <2>5. CompletedAttemptGone'
      BY <1>2 DEF CodeSent, IInv, Parts, AttemptsOK, CompletedAttemptGone
    <2> QED BY <2>1, <2>2, <2>4, <2>5 DEF IInv, Parts
  <1>3. ASSUME NEW t \in Attempts, NEW kind \in {"code", "password"}, Verify(r, t, kind)
        PROVE  IInv'
    <2>1. OwnRow' /\ LockedCurrent' /\ UsersOK' /\ AccountsOK'
      BY <1>3, Unlocked DEF Verify, Idle
    <2> QED BY <1>3, <2>1, VerifyStep, Untouched DEF IInv, Parts
  <1>4. ASSUME AskPassword(r) PROVE IInv'
    <2>1. OwnRow' /\ LockedCurrent' /\ UsersOK' /\ AccountsOK'
      BY <1>4, Unlocked DEF AskPassword, Reply, Idle
    <2>2. ReqsOK'
      BY <1>4, Replies DEF AskPassword, IInv, Parts
    <2> DEFINE t == req[r].att
    <2>3. t \in issued
      BY <1>4 DEF AskPassword, IInv, Parts, ReqsOK, Formed
    <2>4. /\ attempt'[t].user = attempt[t].user
          /\ attempt[t].status = "none" => attempt'[t] = attempt[t]
          /\ attempt[t].status # "none" => attempt'[t].status = "password_required"
          /\ attempt'[t] \in Row
          /\ attempt' = [attempt EXCEPT ![t] = attempt'[t]]
      BY <1>4, <2>3 DEF AskPassword, IInv, Parts, AttemptsOK, Row
    <2>5. AttemptsOK'
      BY <1>4, <2>3, <2>4 DEF AskPassword, IInv, Parts, AttemptsOK
    <2>6. CompletedAttemptGone'
      BY <1>4, <2>3, <2>4 DEF AskPassword, IInv, Parts, AttemptsOK, CompletedAttemptGone, NoRow
    <2> QED BY <2>1, <2>2, <2>5, <2>6 DEF IInv, Parts
  <1>5. ASSUME NEW i \in Identities, SignedIn(r, i) PROVE IInv'
    <2>1. OwnRow' /\ LockedCurrent' /\ UsersOK' /\ AccountsOK'
      <3> DEFINE q == [req[r] EXCEPT !.pc = "signed_in", !.ident = i]
      <3>1. q.pc = "signed_in" /\ req' = [req EXCEPT ![r] = q] /\ UNCHANGED <<approved, ver, accounts>>
        BY <1>5 DEF SignedIn, IInv, Parts, ReqsOK, Req
      <3> HIDE DEF q
      <3> QED BY <3>1, Unlocked
    <2> QED BY <1>5, <2>1, Steps, Untouched DEF IInv, Parts
  <1>6. ASSUME LockOwner(r) PROVE IInv'
    <2>1. UNCHANGED <<approved, ver, accounts>> /\ ReqsOK' /\ AttemptsOK' /\ CompletedAttemptGone'
      BY <1>6, Steps, Untouched DEF IInv
    <2>2. \A s \in Reqs : s # r => req'[s] = req[s]
      BY <1>6 DEF LockOwner, IInv, Parts, ReqsOK
    <2>3. req'[r].pc = "owner" /\ req'[r].user = req[r].user /\ req'[r].gen = req[r].gen
      BY <1>6 DEF LockOwner, IInv, Parts, ReqsOK, Req
    <2>4. OwnRow'
      BY <2>1, <2>2, <2>3 DEF IInv, OwnRow
    <2>5. LockedCurrent'
      BY <1>6, <2>1, <2>2, <2>3 DEF IInv, LockedCurrent, Authorized, LockOwner
    <2> QED BY <2>1, <2>4, <2>5 DEF IInv, Parts, UsersOK, AccountsOK
  <1>7. ASSUME LockAccount(r) PROVE IInv'
    <2>1. UNCHANGED <<approved, ver, accounts>> /\ ReqsOK' /\ AttemptsOK' /\ CompletedAttemptGone'
      BY <1>7, Steps, Untouched DEF IInv
    <2>2. \A s \in Reqs : s # r => req'[s] = req[s]
      BY <1>7 DEF LockAccount, IInv, Parts, ReqsOK
    <2>3. /\ req'[r].user = req[r].user /\ req'[r].gen = req[r].gen
          /\ req'[r].ident = req[r].ident
          /\ req'[r].found => \E a \in accounts : a.ident = req[r].ident
          /\ \A a \in accounts : a.ident = req[r].ident => a.user = req[r].user
      BY <1>7 DEF LockAccount, LinkedElsewhere, RowsOf, IInv, Parts, ReqsOK, Req
    <2>4. OwnRow'
      BY <2>1, <2>2, <2>3 DEF IInv, OwnRow
    <2>5. LockedCurrent'
      <3>1. Authorized(r)
        BY <1>7 DEF IInv, LockedCurrent, LockAccount
      <3> QED BY <2>1, <2>2, <2>3, <3>1 DEF IInv, LockedCurrent, Authorized
    <2> QED BY <2>1, <2>4, <2>5 DEF IInv, Parts, UsersOK, AccountsOK
  <1>8. ASSUME Fail(r) PROVE IInv'
    <2>1. OwnRow' /\ LockedCurrent' /\ UsersOK' /\ AccountsOK'
      BY <1>8, Unlocked DEF Fail, Reply, Idle
    <2> QED BY <1>8, <2>1, Replies, Untouched DEF Fail, IInv, Parts
  <1> QED BY <1>1, <1>2, <1>3, <1>4, <1>5, <1>6, <1>7, <1>8

-----------------------------------------------------------------------------
(* The steps of the other parts of the application. *)

LEMMA OtherStep ==
    ASSUME IInv,
           \/ \E t \in Attempts : Expire(t)
           \/ \E u \in Users : Approve(u) \/ Suspend(u) \/ ChangeCredential(u)
           \/ \E a \in accounts : Remove(a)
    PROVE  IInv'
  <1>1. ASSUME NEW t \in Attempts, Expire(t) PROVE IInv'
    <2>1. AttemptsOK' /\ CompletedAttemptGone'
      BY <1>1 DEF Expire, NoRow, Row, IInv, Parts, AttemptsOK, CompletedAttemptGone
    <2> QED BY <1>1, <2>1 DEF Expire, IInv, Parts, UsersOK, AccountsOK, ReqsOK, OwnRow,
                              LockedCurrent, Authorized
  <1>2. ASSUME NEW u \in Users, Approve(u) PROVE IInv'
    <2>1. AttemptsOK' /\ CompletedAttemptGone' /\ AccountsOK' /\ ReqsOK' /\ OwnRow'
      BY <1>2, Untouched DEF Approve, IInv, Parts, AccountsOK, ReqsOK, OwnRow
    <2>2. UsersOK' /\ LockedCurrent'
      BY <1>2 DEF Approve, IInv, Parts, UsersOK, ReqsOK, Req, Formed, LockedCurrent, Authorized
    <2> QED BY <2>1, <2>2 DEF IInv, Parts
  <1>3. ASSUME NEW u \in Users, Suspend(u) PROVE IInv'
    <2>1. AccountsOK' /\ ReqsOK' /\ OwnRow'
      BY <1>3 DEF Suspend, IInv, Parts, AccountsOK, ReqsOK, OwnRow
    <2>2. UsersOK'
      BY <1>3 DEF Suspend, IInv, Parts, UsersOK
    <2>3. LockedCurrent'
      BY <1>3 DEF Suspend, UserFree, IInv, Parts, UsersOK, LockedCurrent, Authorized
    <2>4. AttemptsOK' /\ CompletedAttemptGone'
      BY <1>3 DEF Suspend, NoRow, Row, IInv, Parts, AttemptsOK, CompletedAttemptGone
    <2> QED BY <2>1, <2>2, <2>3, <2>4 DEF IInv, Parts
  <1>4. ASSUME NEW u \in Users, ChangeCredential(u) PROVE IInv'
    <2>1. AttemptsOK' /\ CompletedAttemptGone' /\ AccountsOK' /\ ReqsOK' /\ OwnRow'
      BY <1>4, Untouched DEF ChangeCredential, IInv, Parts, AccountsOK, ReqsOK, OwnRow
    <2>2. UsersOK'
      BY <1>4 DEF ChangeCredential, IInv, Parts, UsersOK
    <2>3. LockedCurrent'
      BY <1>4 DEF ChangeCredential, UserFree, IInv, Parts, UsersOK, LockedCurrent, Authorized
    <2> QED BY <2>1, <2>2, <2>3 DEF IInv, Parts
  <1>5. ASSUME NEW a \in accounts, Remove(a) PROVE IInv'
    <2> DEFINE b == [a EXCEPT !.gens = {}]
    <2>1. b \in Account /\ b.ident = a.ident /\ b.user = a.user
      BY DEF IInv, Parts, AccountsOK, Account
    <2>2. accounts' = (accounts \ {a}) \cup {b} /\ UNCHANGED <<approved, ver, attempt, issued, completed, req>>
      BY <1>5 DEF Remove
    <2> HIDE DEF b
    <2>3. AccountsOK'
      BY <2>1, <2>2 DEF IInv, Parts, AccountsOK
    <2>4. OwnRow'
      BY <2>1, <2>2 DEF IInv, OwnRow
    <2>5. UsersOK' /\ ReqsOK' /\ LockedCurrent' /\ AttemptsOK' /\ CompletedAttemptGone'
      BY <2>2, Untouched DEF IInv, Parts, UsersOK, ReqsOK, LockedCurrent, Authorized
    <2> QED BY <2>3, <2>4, <2>5 DEF IInv, Parts
  <1> QED BY <1>1, <1>2, <1>3, <1>4, <1>5

-----------------------------------------------------------------------------
LEMMA Start0 == Init => IInv
  <1> SUFFICES ASSUME Init PROVE IInv
    OBVIOUS
  <1> USE DEF Init
  <1>1. UsersOK
    BY DEF UsersOK
  <1>2. AttemptsOK
    BY DEF AttemptsOK, NoRow, Row
  <1>3. AccountsOK
    BY DEF AccountsOK
  <1>4. ReqsOK
    BY IdleTyped DEF ReqsOK
  <1>5. OwnRow /\ LockedCurrent /\ CompletedAttemptGone
    BY DEF OwnRow, LockedCurrent, CompletedAttemptGone, Idle
  <1> QED BY <1>1, <1>2, <1>3, <1>4, <1>5 DEF IInv, Parts

LEMMA Inductive == IInv /\ [Next]_vars => IInv'
  <1> SUFFICES ASSUME IInv, [Next]_vars PROVE IInv'
    OBVIOUS
  <1>1. CASE UNCHANGED vars
    BY <1>1 DEF vars, IInv, Parts, UsersOK, AttemptsOK, AccountsOK, ReqsOK, OwnRow,
                LockedCurrent, Authorized, CompletedAttemptGone
  <1>2. CASE Next
    BY <1>2, RequestStep, StoreStep, OtherStep DEF Next
  <1> QED BY <1>1, <1>2

(* The tables and the requests are always well formed; in particular there is
   one row for an identity (the UNIQUE KEY on telegram_user_id). *)
THEOREM TypeCorrect == Spec => []TypeOK
  <1>1. Spec => []IInv
    BY Start0, Inductive, PTL DEF Spec
  <1>2. IInv => TypeOK
    BY PartsTyped DEF IInv
  <1> QED BY <1>1, <1>2, PTL

(* An attempt whose login was stored is gone, whatever request read it
   before: only an INSERT with a new id makes one, and an UPDATE of a deleted
   row does nothing. *)
THEOREM CompletedGone == Spec => []CompletedAttemptGone
  <1>1. Spec => []IInv
    BY Start0, Inductive, PTL DEF Spec
  <1> QED BY <1>1, PTL DEF IInv

-----------------------------------------------------------------------------
(* The refinement: what the rows say of each identity. *)

Owners(A, i) == {a.user : a \in {b \in A : b.ident = i}}
Under(A, i) == UNION {a.gens : a \in {b \in A : b.ident = i}}

LEMMA StartLinks == Init => Links!Init
  <1> SUFFICES ASSUME Init PROVE Links!Init
    OBVIOUS
  <1>1. \A i : Owners({}, i) = {} /\ Under({}, i) = {}
    BY DEF Owners, Under
  <1> QED BY <1>1 DEF Init, Links!Init, Owners, Under, RowsOf

(* A login connects the identity to its user under the present generation. *)
LEMMA StoreLinks ==
    ASSUME IInv, NEW r \in Reqs, Store(r)
    PROVE  \E u \in Users, i \in Identities : Links!Connect(u, i)
  <1>1. PICK u \in Users, i \in Identities : u = req[r].user /\ i = req[r].ident
    BY StoredRow
  <1> DEFINE new == [ident |-> i, user |-> u, gens |-> {ver[u]}]
  <1>2. approved[u] /\ ver[u] = req[r].gen /\ UNCHANGED <<approved, ver>>
    BY <1>1 DEF Store, IInv, LockedCurrent, Authorized
  <1>3. /\ \A a \in RowsOf(i) : a.user = u
        /\ accounts' = (accounts \ RowsOf(i)) \cup {new}
    BY <1>1, <1>2, StoredRow
  <1>4. new.ident = i /\ new.user = u /\ new.gens = {ver[u]}
    OBVIOUS
  <1> HIDE DEF new
  <1>5. /\ Owners(accounts, i) \subseteq {u}
        /\ Owners(accounts', i) = {u} /\ Under(accounts', i) = {ver[u]}
    <2>1. {a \in accounts' : a.ident = i} = {new}
      BY <1>3, <1>4 DEF RowsOf
    <2> QED BY <1>3, <1>4, <2>1 DEF Owners, Under, RowsOf
  <1>6. ASSUME NEW j \in Identities, j # i
        PROVE  {a \in accounts' : a.ident = j} = {a \in accounts : a.ident = j}
    BY <1>3, <1>4, <1>6 DEF RowsOf
  <1>7. \A j \in Identities : j # i =>
          Owners(accounts', j) = Owners(accounts, j) /\ Under(accounts', j) = Under(accounts, j)
    BY <1>6 DEF Owners, Under
  <1>8. /\ [j \in Identities |-> Owners(accounts', j)]
             = [[j \in Identities |-> Owners(accounts, j)] EXCEPT ![i] = {u}]
        /\ [j \in Identities |-> Under(accounts', j)]
             = [[j \in Identities |-> Under(accounts, j)] EXCEPT ![i] = {ver[u]}]
    BY <1>5, <1>7
  <1>9. Links!Connect(u, i)
    BY <1>2, <1>5, <1>8 DEF Links!Connect, Owners, Under, RowsOf
  <1> QED BY <1>9

(* The removal of a connection disconnects its identity. *)
LEMMA RemoveLinks ==
    ASSUME IInv, NEW a \in accounts, Remove(a)
    PROVE  \E i \in Identities : Links!Disconnect(i)
  <1> DEFINE i == a.ident
             new == [a EXCEPT !.gens = {}]
  <1>1. /\ i \in Identities /\ new.ident = i /\ new.user = a.user /\ new.gens = {}
        /\ \A b \in accounts : b.ident = i => b = a
    BY DEF IInv, Parts, AccountsOK, Account
  <1>2. accounts' = (accounts \ {a}) \cup {new} /\ UNCHANGED <<approved, ver>>
    BY DEF Remove
  <1> HIDE DEF new
  <1>3. {b \in accounts' : b.ident = i} = {new} /\ {b \in accounts : b.ident = i} = {a}
    BY <1>1, <1>2
  <1>4. Owners(accounts', i) = Owners(accounts, i) /\ Under(accounts', i) = {}
    BY <1>1, <1>3 DEF Owners, Under
  <1>5. ASSUME NEW j \in Identities, j # i
        PROVE  {b \in accounts' : b.ident = j} = {b \in accounts : b.ident = j}
    BY <1>1, <1>2, <1>5
  <1>6. \A j \in Identities : j # i =>
          Owners(accounts', j) = Owners(accounts, j) /\ Under(accounts', j) = Under(accounts, j)
    BY <1>5 DEF Owners, Under
  <1>7. /\ [j \in Identities |-> Owners(accounts', j)] = [j \in Identities |-> Owners(accounts, j)]
        /\ [j \in Identities |-> Under(accounts', j)]
             = [[j \in Identities |-> Under(accounts, j)] EXCEPT ![i] = {}]
    BY <1>1, <1>4, <1>6
  <1>8. Links!Disconnect(i)
    BY <1>1, <1>2, <1>7 DEF Links!Disconnect, Owners, Under, RowsOf
  <1> QED BY <1>1, <1>8

(* An approval, a suspension or a credential change is a step of the user's
   authority, and leaves the identities alone. *)
LEMMA AuthorityLinks ==
    ASSUME IInv, NEW u \in Users, Approve(u) \/ Suspend(u) \/ ChangeCredential(u)
    PROVE  Links!Authority(u)
  <1>1. /\ ver'[u] \in ver[u] .. MaxVer /\ ver' = [ver EXCEPT ![u] = ver'[u]]
        /\ approved[u] /\ ~approved'[u] => ver'[u] > ver[u]
    <2>1. CASE Approve(u)
      BY <2>1 DEF Approve, IInv, Parts, UsersOK
    <2>2. CASE Suspend(u)
      <3>1. ver[u] \in 0 .. MaxVer /\ ver'[u] = (IF approved[u] THEN ver[u] + 1 ELSE ver[u])
        BY <2>2 DEF Suspend, IInv, Parts, UsersOK
      <3>2. CASE approved[u]
        BY <2>2, <3>1, <3>2 DEF Suspend, IInv, Parts, UsersOK
      <3>3. CASE ~approved[u]
        BY <2>2, <3>1, <3>3 DEF Suspend, IInv, Parts, UsersOK
      <3> QED BY <3>2, <3>3
    <2>3. CASE ChangeCredential(u)
      <3>1. ver[u] \in 0 .. MaxVer /\ ver'[u] = ver[u] + 1 /\ approved' = approved
        BY <2>3 DEF ChangeCredential, IInv, Parts, UsersOK
      <3> QED BY <2>3, <3>1 DEF ChangeCredential, IInv, Parts, UsersOK
    <2> QED BY <2>1, <2>2, <2>3
  <1>2. approved'[u] \in BOOLEAN /\ approved' = [approved EXCEPT ![u] = approved'[u]]
    BY DEF Approve, Suspend, ChangeCredential, IInv, Parts, UsersOK
  <1>3. accounts' = accounts
    BY DEF Approve, Suspend, ChangeCredential
  <1>4. UNCHANGED <<[i \in Identities |-> {a.user : a \in RowsOf(i)}],
                    [i \in Identities |-> UNION {a.gens : a \in RowsOf(i)}]>>
    BY <1>3 DEF RowsOf
  <1> QED BY <1>1, <1>2, <1>4 DEF Links!Authority

LEMMA StepLinks == IInv /\ [Next]_vars => [Links!Next]_(Links!vars)
  <1> SUFFICES ASSUME IInv, [Next]_vars PROVE [Links!Next]_(Links!vars)
    OBVIOUS
  <1>1. ASSUME UNCHANGED <<approved, ver, accounts>> PROVE UNCHANGED Links!vars
    BY <1>1 DEF Links!vars, RowsOf
  <1>2. CASE UNCHANGED vars
    BY <1>1, <1>2 DEF vars
  <1>3. ASSUME NEW r \in Reqs, NEW u \in Users, Start(r, u) PROVE UNCHANGED Links!vars
    BY <1>1, <1>3 DEF Start
  <1>4. ASSUME NEW r \in Reqs, NEW t \in Attempts,
               CodeSent(r, t) \/ Verify(r, t, "code") \/ Verify(r, t, "password")
        PROVE  UNCHANGED Links!vars
    BY <1>1, <1>4 DEF CodeSent, Verify
  <1>5. ASSUME NEW r \in Reqs, AskPassword(r) \/ (\E i \in Identities : SignedIn(r, i))
                               \/ LockOwner(r) \/ LockAccount(r) \/ Fail(r)
        PROVE  UNCHANGED Links!vars
    BY <1>1, <1>5 DEF AskPassword, SignedIn, LockOwner, LockAccount, Fail
  <1>6. ASSUME NEW r \in Reqs, Store(r) PROVE Links!Next
    BY <1>6, StoreLinks DEF Links!Next
  <1>7. ASSUME NEW t \in Attempts, Expire(t) PROVE UNCHANGED Links!vars
    BY <1>1, <1>7 DEF Expire
  <1>8. ASSUME NEW u \in Users, Approve(u) \/ Suspend(u) \/ ChangeCredential(u)
        PROVE  Links!Next
    BY <1>8, AuthorityLinks DEF Links!Next
  <1>9. ASSUME NEW a \in accounts, Remove(a) PROVE Links!Next
    BY <1>9, RemoveLinks DEF Links!Next
  <1> QED BY <1>2, <1>3, <1>4, <1>5, <1>6, <1>7, <1>8, <1>9 DEF Next

(* Logins, approvals, credential changes and removals together keep the
   promise of TelegramLinks: an identity never changes hands, and a session is
   stored for an approved user only, by a login of the present generation,
   also when the authority changes while Telegram is being asked. *)
THEOREM Refinement == Spec => ImplementsLinks
  <1>1. Spec => []IInv
    BY Start0, Inductive, PTL DEF Spec
  <1> QED BY <1>1, StartLinks, StepLinks, PTL DEF Spec, ImplementsLinks, Links!Spec
=============================================================================
