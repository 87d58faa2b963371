--------------------------- MODULE Archive_proofs ----------------------------
(* What reaches the archive, for any number of owners, accounts, chats, rules,
   requests and messages on their way: first the barrier of Ingestion and the
   gate it implements, then the filters that run on top of it. *)
EXTENDS FilterRules, TLAPS

USE OwnerAssumption, NoAccountAssumption, BoundAssumption

(* A request in progress names an account. *)
PostsNamed == \A p \in Posts : post[p].pc # "free" => post[p].acct \in Accounts

IInv == TypeOK /\ PostsNamed /\ LockedIsCurrent

-----------------------------------------------------------------------------
LEMMA TypeStep == TypeOK /\ PostsNamed /\ [Next]_vars => TypeOK' /\ PostsNamed'
  <1> SUFFICES ASSUME TypeOK, PostsNamed, [Next]_vars PROVE TypeOK' /\ PostsNamed'
    OBVIOUS
  <1> USE DEF TypeOK, PostsNamed, FreePost
  <1>1. ASSUME NEW p \in Posts, NEW a \in Accounts, NEW g \in 0 .. MaxVer, Receive(p, a, g)
        PROVE  TypeOK' /\ PostsNamed'
    BY <1>1 DEF Receive
  <1>2. ASSUME NEW p \in Posts, Lock(p) PROVE TypeOK' /\ PostsNamed'
    BY <1>2 DEF Lock
  <1>3. ASSUME NEW p \in Posts, Reject(p) \/ Abort(p) PROVE TypeOK' /\ PostsNamed'
    <2>1. Reply(p) /\ UNCHANGED <<approved, ver, saved>>
      BY <1>3, Zenon DEF Reject, Abort
    <2> QED BY <2>1 DEF Reply
  <1>4. ASSUME NEW p \in Posts, Commit(p) PROVE TypeOK' /\ PostsNamed'
    <2> DEFINE u == Owner[post[p].acct]
    <2>1. u \in Users /\ post[p].gen \in 0 .. MaxVer /\ saved[u] \in Seq(0 .. MaxVer)
      BY <1>4 DEF Commit
    <2>2. Append(saved[u], post[p].gen) \in Seq(0 .. MaxVer)
      BY <2>1
    <2>3. saved' \in [Users -> Seq(0 .. MaxVer)]
      BY <1>4, <2>1, <2>2 DEF Commit
    <2> QED BY <1>4, <2>3 DEF Commit, Reply
  <1>5. ASSUME NEW u \in Users, Approve(u) PROVE TypeOK' /\ PostsNamed'
    BY <1>5 DEF Approve
  <1>6. ASSUME NEW u \in Users, Suspend(u) PROVE TypeOK' /\ PostsNamed'
    <2>1. approved' \in [Users -> BOOLEAN]
      BY <1>6, Zenon DEF Suspend
    <2>2. ver' \in [Users -> 0 .. MaxVer]
      <3>1. CASE approved[u] = TRUE
        BY <1>6, <3>1 DEF Suspend
      <3>2. CASE approved[u] = FALSE
        BY <1>6, <3>2 DEF Suspend
      <3> QED BY <3>1, <3>2
    <2> QED BY <1>6, <2>1, <2>2 DEF Suspend
  <1>7. ASSUME NEW u \in Users, ChangeCredential(u) PROVE TypeOK' /\ PostsNamed'
    BY <1>7 DEF ChangeCredential
  <1>8. CASE UNCHANGED vars
    BY <1>8 DEF vars
  <1> QED BY <1>1, <1>2, <1>3, <1>4, <1>5, <1>6, <1>7, <1>8 DEF Next, Serve

(* Every value of the system's variables stays in its type. *)
THEOREM TypeCorrect == Spec => []TypeOK
  <1>1. Init => TypeOK /\ PostsNamed
    BY DEF Init, TypeOK, PostsNamed, FreePost
  <1> QED BY <1>1, TypeStep, PTL DEF Spec

-----------------------------------------------------------------------------
(* A transaction on a user's row changes nothing that a request past its check
   depends on: that request holds the row of its own owner. *)
LEMMA RowChange ==
    ASSUME TypeOK, PostsNamed, LockedIsCurrent,
           NEW u \in Users, RowFree(u), UNCHANGED post,
           \A w \in Users \ {u} : approved'[w] = approved[w] /\ ver'[w] = ver[w]
    PROVE  LockedIsCurrent'
  <1> SUFFICES ASSUME NEW p \in Posts, post[p].pc = "locked" PROVE Admissible(p)'
    BY DEF LockedIsCurrent
  <1> DEFINE w == Owner[post[p].acct]
  <1>1. w \in Users /\ w # u
    BY DEF PostsNamed, RowFree, HoldsRow
  <1>2. approved[w] /\ post[p].gen = ver[w]
    BY DEF LockedIsCurrent, Admissible
  <1>3. approved'[w] = approved[w] /\ ver'[w] = ver[w]
    BY <1>1
  <1> QED BY <1>2, <1>3, Zenon DEF Admissible

LEMMA LockStep == IInv /\ [Next]_vars => LockedIsCurrent'
  <1> SUFFICES ASSUME IInv, [Next]_vars PROVE LockedIsCurrent'
    OBVIOUS
  <1> USE DEF IInv
  <1>1. ASSUME NEW p \in Posts, NEW a \in Accounts, NEW g \in 0 .. MaxVer, Receive(p, a, g)
        PROVE  LockedIsCurrent'
    BY <1>1 DEF Receive, LockedIsCurrent, Admissible, TypeOK
  <1>2. ASSUME NEW p \in Posts, Lock(p) PROVE LockedIsCurrent'
    BY <1>2 DEF Lock, LockedIsCurrent, Admissible, TypeOK
  <1>3. ASSUME NEW p \in Posts, Reject(p) \/ Abort(p) \/ Commit(p) PROVE LockedIsCurrent'
    <2>1. Reply(p) /\ UNCHANGED <<approved, ver>>
      BY <1>3, Zenon DEF Reject, Abort, Commit
    <2> QED BY <2>1 DEF Reply, FreePost, LockedIsCurrent, Admissible, TypeOK
  <1>4. ASSUME NEW u \in Users, Approve(u) PROVE LockedIsCurrent'
    BY <1>4, RowChange DEF Approve, TypeOK
  <1>5. ASSUME NEW u \in Users, Suspend(u) PROVE LockedIsCurrent'
    BY <1>5, RowChange DEF Suspend, TypeOK
  <1>6. ASSUME NEW u \in Users, ChangeCredential(u) PROVE LockedIsCurrent'
    BY <1>6, RowChange DEF ChangeCredential, TypeOK
  <1>7. CASE UNCHANGED vars
    BY <1>7 DEF vars, LockedIsCurrent, Admissible
  <1> QED BY <1>1, <1>2, <1>3, <1>4, <1>5, <1>6, <1>7 DEF Next, Serve

LEMMA Inductive == Spec => []IInv
  <1>1. Init => IInv
    BY DEF Init, IInv, TypeOK, PostsNamed, LockedIsCurrent, FreePost
  <1>2. IInv /\ [Next]_vars => IInv'
    BY TypeStep, LockStep DEF IInv
  <1> QED BY <1>1, <1>2, PTL DEF Spec

(* Between the SELECT ... FOR UPDATE of POST /messages and its commit, the
   owner stays approved and at the generation that was checked. *)
THEOREM LockedCurrent == Spec => []LockedIsCurrent
  <1>1. IInv => LockedIsCurrent
    BY DEF IInv
  <1> QED BY <1>1, Inductive, PTL

(* What a commit does, seen by its owner. *)
LEMMA CommitSaves ==
    ASSUME IInv, NEW p \in Posts, Commit(p)
    PROVE  \E u \in Users : /\ approved[u]
                            /\ saved' = [saved EXCEPT ![u] = Append(saved[u], ver[u])]
                            /\ approved' = approved /\ ver' = ver
  <1> DEFINE u == Owner[post[p].acct]
  <1>1. u \in Users
    BY DEF IInv, PostsNamed, Commit
  <1>2. approved[u] /\ post[p].gen = ver[u]
    BY DEF IInv, LockedIsCurrent, Commit, Admissible
  <1> QED BY <1>1, <1>2, Zenon DEF Commit

(* The archive is left alone by every other step. *)
LEMMA OthersKeep ==
    ASSUME [Next]_vars, ~ \E p \in Posts : Commit(p) PROVE saved' = saved
  BY DEF Next, Serve, vars, Receive, Lock, Reject, Abort, Approve, Suspend, ChangeCredential

(* Nothing is archived for a suspended owner, nor under a generation that was
   current before the latest suspension or password change. *)
THEOREM Barrier == Spec => NothingAfterSuspension
  <1> DEFINE Grows(u) == /\ approved[u] /\ approved'[u]
                         /\ saved'[u] = Append(saved[u], ver[u])
  <1>1. ASSUME IInv, [Next]_vars, NEW w \in Users, saved'[w] # saved[w] PROVE Grows(w)
    <2>1. PICK p \in Posts : Commit(p)
      BY <1>1, OthersKeep
    <2>2. PICK u \in Users : /\ approved[u]
                             /\ saved' = [saved EXCEPT ![u] = Append(saved[u], ver[u])]
                             /\ approved' = approved /\ ver' = ver
      BY <1>1, <2>1, CommitSaves
    <2>3. w = u
      BY <1>1, <2>2 DEF IInv, TypeOK
    <2>4. saved'[u] = Append(saved[u], ver[u])
      BY <1>1, <2>2 DEF IInv, TypeOK
    <2> QED BY <2>2, <2>3, <2>4, Zenon
  <1>2. IInv /\ [Next]_vars => [\A u \in Users : saved'[u] # saved[u] => Grows(u)]_vars
    BY <1>1
  <1> QED BY <1>2, Inductive, PTL DEF Spec, NothingAfterSuspension

-----------------------------------------------------------------------------
(* Every step of the server is a step of the archive as the owner sees it, or
   none at all: arriving requests, checks and refusals are invisible, and
   suspending a suspended owner is a stutter. *)
LEMMA GateStep == IInv /\ [Next]_vars => [Gate!Next]_(Gate!vars)
  <1> SUFFICES ASSUME IInv, [Next]_vars PROVE [Gate!Next]_(Gate!vars)
    OBVIOUS
  <1> USE DEF Gate!vars
  <1>1. ASSUME NEW p \in Posts,
               \/ \E a \in Accounts, g \in 0 .. MaxVer : Receive(p, a, g)
               \/ Lock(p) \/ Reject(p) \/ Abort(p)
        PROVE  UNCHANGED Gate!vars
    BY <1>1, Zenon DEF Receive, Lock, Reject, Abort
  <1>2. ASSUME NEW p \in Posts, Commit(p) PROVE Gate!Next
    BY <1>2, CommitSaves, Zenon DEF Gate!Next, Gate!Save
  <1>3. ASSUME NEW u \in Users, Approve(u) PROVE Gate!Next
    BY <1>3, Zenon DEF Approve, Gate!Next, Gate!Approve
  <1>4. ASSUME NEW u \in Users, Suspend(u) PROVE Gate!Next \/ UNCHANGED Gate!vars
    <2>1. CASE approved[u]
      <3>1. ver' = [ver EXCEPT ![u] = ver[u] + 1]
        BY <1>4, <2>1 DEF Suspend
      <3> QED BY <1>4, <2>1, <3>1, Zenon DEF Suspend, Gate!Next, Gate!Suspend
    <2>2. CASE ~approved[u]
      <3>1. ver' = ver
        BY <1>4, <2>2 DEF Suspend, IInv, TypeOK
      <3>2. approved' = approved
        <4>1. approved[u] = FALSE
          BY <2>2, Zenon DEF IInv, TypeOK
        <4> QED BY <1>4, <4>1 DEF Suspend, IInv, TypeOK
      <3> QED BY <1>4, <3>1, <3>2 DEF Suspend
    <2> QED BY <2>1, <2>2
  <1>5. ASSUME NEW u \in Users, ChangeCredential(u) PROVE Gate!Next
    BY <1>5, Zenon DEF ChangeCredential, Gate!Next, Gate!ChangeCredential
  <1>6. CASE UNCHANGED vars
    BY <1>6 DEF vars
  <1> QED BY <1>1, <1>2, <1>3, <1>4, <1>5, <1>6, Zenon DEF Next, Serve

(* POST /messages under the row locks implements the archive that is promised,
   for any number of owners, accounts and concurrent requests. *)
THEOREM Refinement == Spec => ImplementsGate
  <1>1. Init => Gate!Init
    BY DEF Init, Gate!Init
  <1> QED BY <1>1, GateStep, Inductive, PTL DEF Spec, ImplementsGate, Gate!Spec

-----------------------------------------------------------------------------
(* Appending a generation that no stored one exceeds keeps a sequence in
   order: the fact Save rests on. *)
LEMMA AppendInOrder ==
    ASSUME NEW s \in Seq(Nat), NEW g \in Nat,
           \A i \in 1 .. Len(s) : s[i] <= g,
           \A i, j \in 1 .. Len(s) : i <= j => s[i] <= s[j]
    PROVE  /\ Append(s, g) \in Seq(Nat)
           /\ \A i \in 1 .. Len(Append(s, g)) : Append(s, g)[i] <= g
           /\ \A i, j \in 1 .. Len(Append(s, g)) :
                i <= j => Append(s, g)[i] <= Append(s, g)[j]
  <1> DEFINE t == Append(s, g)
  <1>1. /\ t \in Seq(Nat)
        /\ Len(t) = Len(s) + 1
        /\ t[Len(s) + 1] = g
        /\ \A i \in 1 .. Len(s) : t[i] = s[i]
    OBVIOUS
  <1>2. \A i \in 1 .. Len(t) : i \in 1 .. Len(s) \/ i = Len(s) + 1
    BY <1>1
  <1>3. \A i \in 1 .. Len(t) : t[i] \in Nat /\ t[i] <= g
    BY <1>1, <1>2
  <1>4. ASSUME NEW i \in 1 .. Len(t), NEW j \in 1 .. Len(t), i <= j
        PROVE  t[i] <= t[j]
    <2>1. CASE j = Len(s) + 1
      BY <1>1, <1>3, <2>1
    <2>2. CASE j \in 1 .. Len(s)
      <3>1. i \in 1 .. Len(s)
        BY <1>4, <2>2, <1>2
      <3> QED BY <1>1, <1>4, <2>2, <3>1
    <2> QED BY <1>2, <2>1, <2>2
  <1> QED BY <1>1, <1>3, <1>4

(* The abstract archive by itself. *)
OrderInv == Gate!TypeOK /\ Gate!GenerationsInOrder

LEMMA OrderStep == OrderInv /\ [Gate!Next]_(Gate!vars) => OrderInv'
  <1> SUFFICES ASSUME OrderInv, [Gate!Next]_(Gate!vars) PROVE OrderInv'
    OBVIOUS
  <1> USE DEF OrderInv, Gate!TypeOK, Gate!GenerationsInOrder
  <1>1. ASSUME NEW u \in Users, Gate!Approve(u) PROVE OrderInv'
    BY <1>1 DEF Gate!Approve
  <1>2. ASSUME NEW u \in Users, Gate!Suspend(u) \/ Gate!ChangeCredential(u) PROVE OrderInv'
    <2>1. ver' = [ver EXCEPT ![u] = @ + 1] /\ saved' = saved
      BY <1>2 DEF Gate!Suspend, Gate!ChangeCredential
    <2>2. Gate!TypeOK'
      <3>1. approved' \in [Users -> BOOLEAN]
        BY <1>2, Zenon DEF Gate!Suspend, Gate!ChangeCredential
      <3>2. ver' \in [Users -> Nat]
        BY <2>1
      <3> QED BY <2>1, <3>1, <3>2, Zenon
    <2>3. \A w \in Users : ver[w] \in Nat /\ ver'[w] \in Nat /\ ver[w] <= ver'[w]
      BY <2>1
    <2>4. \A w \in Users : \A i \in 1 .. Len(saved[w]) : saved[w][i] \in Nat
      OBVIOUS
    <2> QED BY <2>1, <2>2, <2>3, <2>4
  <1>3. ASSUME NEW u \in Users, Gate!Save(u) PROVE OrderInv'
    <2>1. /\ saved[u] \in Seq(Nat) /\ ver[u] \in Nat
          /\ saved'[u] = Append(saved[u], ver[u])
          /\ \A w \in Users \ {u} : saved'[w] = saved[w]
          /\ approved' = approved /\ ver' = ver
          /\ saved' = [saved EXCEPT ![u] = Append(saved[u], ver[u])]
      BY <1>3 DEF Gate!Save
    <2>2. /\ saved'[u] \in Seq(Nat)
          /\ \A i \in 1 .. Len(saved'[u]) : saved'[u][i] <= ver[u]
          /\ \A i, j \in 1 .. Len(saved'[u]) : i <= j => saved'[u][i] <= saved'[u][j]
      BY <2>1, AppendInOrder, Zenon
    <2>3. Gate!TypeOK'
      BY <2>1, <2>2
    <2> QED BY <2>1, <2>2, <2>3
  <1>4. CASE UNCHANGED Gate!vars
    BY <1>4 DEF Gate!vars
  <1> QED BY <1>1, <1>2, <1>3, <1>4 DEF Gate!Next

(* The archive of an owner is in the order of the generations, for any number
   of owners, suspensions and messages: nothing of a revoked generation is
   stored after something of a later one. *)
THEOREM GateOrdered == Gate!Spec => []GenerationsInOrder
  <1>1. Gate!Init => OrderInv
    BY DEF Gate!Init, OrderInv, Gate!TypeOK, Gate!GenerationsInOrder
  <1>2. OrderInv => GenerationsInOrder
    BY DEF OrderInv, GenerationsInOrder
  <1> QED BY <1>1, <1>2, OrderStep, PTL DEF Gate!Spec

(* So the archive of every owner is in the order of the generations, whatever
   requests are in progress. *)
THEOREM InOrder == Spec => []GenerationsInOrder
  BY GateOrdered, Refinement, PTL DEF ImplementsGate

-----------------------------------------------------------------------------
(* The filters. *)

USE NamesAssumption, NoMsgAssumption

(* The messages under way, as far as the proofs need them; a request of the
   ingestion path carries one that has passed both checks. *)
MsgsOK ==
    /\ msg \in [Posts -> Carried \cup {NoMsg}]
    /\ post \in [Posts -> [pc : {"free", "check", "locked"},
                           acct : Accounts \cup {NoAccount}, gen : 0 .. MaxVer]]
    /\ errors \in 0 .. MaxErrors
    /\ \A p \in Posts : post[p].pc # "free" => msg[p] # NoMsg /\ msg[p].pc = "posted"

(* What a check that lets message p pass does to it. *)
Advanced(p) ==
    IF msg[p].pc = "worker"
    THEN msg'[p] = [msg[p] EXCEPT !.pc = "server", !.rule = FALSE]
    ELSE msg'[p] = [msg[p] EXCEPT !.pc = "posted", !.rule = FALSE]

(* What a step may do to message p: nothing, take it away, bring a new one,
   read the switches, or let it pass by the switches, by the rules or because
   a query failed. *)
Effect(p) ==
    \/ msg'[p] = msg[p] /\ errors' >= errors
    \/ msg'[p] = NoMsg /\ errors' >= errors
    \/ /\ msg[p] = NoMsg
       /\ msg'[p] \in Carried /\ msg'[p].pc = "worker" /\ ~msg'[p].rule
       /\ msg'[p].of.chat # Private => msg'[p].of.title \in Titles
       /\ errors' = errors
    \/ /\ Checking(p) /\ archiveOn[msg[p].acct]
       /\ msg'[p] = [msg[p] EXCEPT !.rule = TRUE]
       /\ errors' = errors
    \/ /\ Checking(p) /\ archiveOn[msg[p].acct] /\ ~filtersOn[msg[p].acct]
       /\ Advanced(p) /\ errors' = errors
    \/ /\ Checking(p) /\ msg[p].rule /\ Allows(msg[p].acct, msg[p].of)
       /\ Advanced(p) /\ errors' = errors
    \/ Checking(p) /\ errors < MaxErrors /\ errors' = errors + 1 /\ Advanced(p)

(* One message moves at a time. *)
Alone(p) == \A q \in Posts : q # p => msg'[q] = msg[q] /\ post'[q] = post[q]

-----------------------------------------------------------------------------
(* The requests of the ingestion path. *)
LEMMA Passing ==
    ASSUME MsgsOK, NEW p \in Posts, Checking(p), Passed(p)
    PROVE  /\ [Next]_vars
           /\ msg' \in [Posts -> Carried \cup {NoMsg}]
           /\ Advanced(p) /\ Alone(p)
           /\ post' \in [Posts -> [pc : {"free", "check", "locked"},
                                   acct : Accounts \cup {NoAccount}, gen : 0 .. MaxVer]]
           /\ post'[p].pc # "free" => msg'[p] # NoMsg /\ msg'[p].pc = "posted"
  <1> DEFINE T == [pc : {"free", "check", "locked"},
                   acct : Accounts \cup {NoAccount}, gen : 0 .. MaxVer]
  <1>1. msg[p] \in Carried /\ msg[p].acct \in Accounts /\ post[p].pc = "free"
    BY DEF MsgsOK, Checking, Carried
  <1>2. CASE msg[p].pc = "worker"
    <2>1. UNCHANGED vars /\ msg' = [msg EXCEPT ![p].pc = "server", ![p].rule = FALSE]
      BY <1>2 DEF Passed
    <2> QED BY <1>1, <1>2, <2>1 DEF MsgsOK, Carried, Advanced, Alone, vars
  <1>3. CASE msg[p].pc # "worker"
    <2>1. PICK g \in 0 .. MaxVer : Receive(p, msg[p].acct, g)
      BY <1>3 DEF Passed
    <2>2. msg' = [msg EXCEPT ![p].pc = "posted", ![p].rule = FALSE]
      BY <1>3 DEF Passed
    <2>3. Next
      BY <1>1, <2>1 DEF Next
    <2>4. post' \in [Posts -> T] /\ \A q \in Posts : q # p => post'[q] = post[q]
      BY <1>1, <2>1 DEF Receive, MsgsOK
    <2>5. /\ msg'[p] = [msg[p] EXCEPT !.pc = "posted", !.rule = FALSE]
          /\ msg'[p] \in Carried /\ msg'[p].pc = "posted"
          /\ \A q \in Posts : q # p => msg'[q] = msg[q]
      BY <1>1, <2>2 DEF MsgsOK, Carried
    <2>6. msg' \in [Posts -> Carried \cup {NoMsg}]
      BY <2>2, <2>5 DEF MsgsOK
    <2> QED BY <1>3, <2>3, <2>4, <2>5, <2>6 DEF Advanced, Alone
  <1> QED BY <1>2, <1>3

(* A step of a message: the table of messages and the ingestion path stay in
   agreement. *)
LEMMA MessageStep ==
    ASSUME MsgsOK, NEW p \in Posts,
           \/ \E a \in Accounts, c \in Chats \cup {Private}, s \in Senders \cup {NoSender} :
                 Arrive(p, a, c, s)
           \/ CheckSwitches(p) \/ CheckRule(p) \/ CheckFails(p) \/ GiveUp(p)
           \/ Begin(p) \/ Store(p) \/ Fail(p),
           title \in [Chats -> Titles]
    PROVE  [Next]_vars /\ MsgsOK' /\ Effect(p) /\ Alone(p)
  <1>e. errors \in 0 .. MaxErrors /\ errors \in Nat
    BY DEF MsgsOK
  <1>1. ASSUME NEW a \in Accounts, NEW c \in Chats \cup {Private},
               NEW s \in Senders \cup {NoSender}, Arrive(p, a, c, s)
        PROVE  [Next]_vars /\ MsgsOK' /\ Effect(p) /\ Alone(p)
    <2> DEFINE m == [chat |-> c, sender |-> s,
                     title |-> IF c = Private THEN NoTitle ELSE title[c]]
               q == [pc |-> "worker", rule |-> FALSE, acct |-> a, of |-> m]
    <2>1. m \in Message /\ (m.chat # Private => m.title \in Titles)
      BY DEF Message
    <2>2. /\ q \in Carried /\ q.pc = "worker" /\ ~q.rule
          /\ q.of.chat # Private => q.of.title \in Titles
      BY <2>1 DEF Carried
    <2>3. msg' = [msg EXCEPT ![p] = q] /\ msg[p] = NoMsg /\ UNCHANGED <<vars, errors>>
      BY <1>1 DEF Arrive
    <2> HIDE DEF q, m
    <2>4. Effect(p) /\ Alone(p)
      BY <2>2, <2>3 DEF Effect, Alone, MsgsOK, vars
    <2>5. MsgsOK'
      BY <2>2, <2>3 DEF MsgsOK, vars
    <2> QED BY <2>3, <2>4, <2>5
  <1>2. ASSUME Drop(p), UNCHANGED <<vars, errors>>, post[p].pc = "free"
        PROVE  [Next]_vars /\ MsgsOK' /\ Effect(p) /\ Alone(p)
    BY <1>2, <1>e DEF Drop, MsgsOK, Effect, Alone, vars
  <1>3. ASSUME Checking(p) PROVE post[p].pc = "free" /\ msg[p] \in Carried
    BY <1>3 DEF Checking, MsgsOK
  <1>4. ASSUME Checking(p), Passed(p), errors' \in 0 .. MaxErrors
        PROVE  [Next]_vars /\ MsgsOK' /\ Advanced(p) /\ Alone(p)
    <2>1. /\ [Next]_vars
          /\ msg' \in [Posts -> Carried \cup {NoMsg}]
          /\ Advanced(p) /\ Alone(p)
          /\ post' \in [Posts -> [pc : {"free", "check", "locked"},
                                  acct : Accounts \cup {NoAccount}, gen : 0 .. MaxVer]]
          /\ post'[p].pc # "free" => msg'[p] # NoMsg /\ msg'[p].pc = "posted"
      BY <1>4, Passing
    <2>2. MsgsOK'
      BY <1>4, <2>1 DEF MsgsOK, Alone
    <2> QED BY <2>1, <2>2
  <1>5. ASSUME CheckSwitches(p) PROVE [Next]_vars /\ MsgsOK' /\ Effect(p) /\ Alone(p)
    <2>1. CASE Drop(p) /\ UNCHANGED vars
      BY <1>2, <1>3, <1>5, <2>1 DEF CheckSwitches
    <2>2. CASE archiveOn[msg[p].acct] /\ ~filtersOn[msg[p].acct] /\ Passed(p)
      BY <1>4, <1>5, <1>e, <2>2 DEF CheckSwitches, Effect
    <2>3. CASE archiveOn[msg[p].acct] /\ msg' = [msg EXCEPT ![p].rule = TRUE] /\ UNCHANGED vars
      <3>1. /\ msg'[p] = [msg[p] EXCEPT !.rule = TRUE] /\ msg'[p] \in Carried
            /\ \A q \in Posts : q # p => msg'[q] = msg[q]
        BY <1>3, <1>5, <2>3 DEF CheckSwitches, MsgsOK, Carried
      <3>2. MsgsOK'
        BY <1>3, <1>5, <2>3, <3>1 DEF CheckSwitches, MsgsOK, vars
      <3> QED BY <1>5, <2>3, <3>1, <3>2 DEF CheckSwitches, Effect, Alone, vars
    <2> QED BY <1>5, <2>1, <2>2, <2>3 DEF CheckSwitches
  <1>6. ASSUME CheckRule(p) PROVE [Next]_vars /\ MsgsOK' /\ Effect(p) /\ Alone(p)
    <2>1. CASE Drop(p) /\ UNCHANGED vars
      BY <1>2, <1>3, <1>6, <2>1 DEF CheckRule
    <2>2. CASE Allows(msg[p].acct, msg[p].of) /\ Passed(p)
      BY <1>4, <1>6, <1>e, <2>2 DEF CheckRule, Effect
    <2> QED BY <1>6, <2>1, <2>2 DEF CheckRule
  <1>7. ASSUME CheckFails(p) PROVE [Next]_vars /\ MsgsOK' /\ Effect(p) /\ Alone(p)
    <2>1. errors < MaxErrors /\ errors' = errors + 1 /\ errors' \in 0 .. MaxErrors
      BY <1>7, <1>e DEF CheckFails
    <2>2. Checking(p) /\ Passed(p)
      BY <1>7 DEF CheckFails
    <2> QED BY <1>4, <2>1, <2>2 DEF Effect
  <1>8. ASSUME GiveUp(p) PROVE [Next]_vars /\ MsgsOK' /\ Effect(p) /\ Alone(p)
    BY <1>2, <1>3, <1>8 DEF GiveUp
  <1>9. ASSUME Begin(p) PROVE [Next]_vars /\ MsgsOK' /\ Effect(p) /\ Alone(p)
    <2>1. Next
      BY <1>9 DEF Begin, Next, Serve
    <2>2. post' = [post EXCEPT ![p].pc = "locked"] /\ post[p].pc = "check" /\ UNCHANGED <<msg, errors>>
      BY <1>9 DEF Begin, Lock
    <2>3. MsgsOK'
      BY <2>2 DEF MsgsOK
    <2>4. Alone(p)
      BY <2>2 DEF Alone, MsgsOK
    <2>5. Effect(p)
      BY <2>2, <1>e DEF Effect
    <2> QED BY <2>1, <2>3, <2>4, <2>5
  <1>10. ASSUME Store(p) \/ Fail(p) PROVE [Next]_vars /\ MsgsOK' /\ Effect(p) /\ Alone(p)
    <2>1. Next
      BY <1>10 DEF Store, Fail, Next, Serve
    <2>2. Reply(p) /\ Drop(p) /\ errors' = errors
      BY <1>10 DEF Store, Fail, Commit, Reject, Abort
    <2>3. MsgsOK'
      BY <2>2 DEF MsgsOK, Reply, Drop, FreePost
    <2>4. msg'[p] = NoMsg /\ Alone(p)
      BY <2>2 DEF MsgsOK, Alone, Reply, Drop
    <2>5. Effect(p)
      BY <2>2, <2>4, <1>e DEF Effect
    <2> QED BY <2>1, <2>3, <2>4, <2>5
  <1> QED BY <1>1, <1>5, <1>6, <1>7, <1>8, <1>9, <1>10

(* Every other step leaves the messages alone. *)
LEMMA RuleStep ==
    ASSUME MsgsOK,
           \/ \E a \in Accounts :
                \/ SwitchArchive(a) \/ SwitchFilters(a)
                \/ \E mode \in Modes :
                     \/ CreateRule(a, mode)
                     \/ \E s \in Senders : SetSender(a, s, mode)
           \/ \E r \in channels, mode \in Modes : SetChannel(r, mode)
           \/ EditRule \/ EditSenderRule
           \/ \E c \in Chats, t \in Titles : Rename(c, t)
           \/ Authority
    PROVE  [Next]_vars /\ UNCHANGED <<post, msg, errors>>
  <1>1. CASE Authority
    <2>1. PICK u \in Users : Approve(u) \/ Suspend(u) \/ ChangeCredential(u)
      BY <1>1 DEF Authority
    <2>2. Next
      BY <2>1 DEF Next
    <2>3. UNCHANGED <<post, msg, errors>>
      BY <1>1, <2>1 DEF Authority, Approve, Suspend, ChangeCredential
    <2> QED BY <2>2, <2>3
  <1>2. CASE UNCHANGED <<vars, msg, errors>>
    BY <1>2 DEF vars
  <1> QED BY <1>1, <1>2 DEF SwitchArchive, SwitchFilters, CreateRule, SetSender, SetChannel,
                            EditRule, EditSenderRule, Rename, ChangesRules

-----------------------------------------------------------------------------
(* The tables of rules and channels. *)

RulesOK ==
    /\ archiveOn \in [Accounts -> BOOLEAN] /\ filtersOn \in [Accounts -> BOOLEAN]
    /\ channelRules \subseteq [acct : Accounts, chat : Chats \cup {NoChat},
                               key : Titles, mode : Modes]
    /\ senderRules \subseteq [acct : Accounts, sender : Senders,
                              by : {"id", "name"}, mode : Modes]
    /\ \A r, s \in channelRules : r.acct = s.acct /\ r # s =>
          r.key # s.key /\ (r.chat = s.chat => r.chat = NoChat)

ChannelsOK ==
    /\ title \in [Chats -> Titles]
    /\ channels \subseteq [acct : Accounts, chat : Chats, title : Titles]
    /\ \A r, s \in channels : r.acct = s.acct /\ r # s =>
          r.chat # s.chat /\ r.title # s.title

(* A message of a channel carries a title. *)
WithTitles == \A p \in Posts :
    msg[p] # NoMsg /\ msg[p].of.chat # Private => msg[p].of.title \in Titles

FInv == MsgsOK /\ WithTitles /\ RulesOK /\ ChannelsOK

(* The upsert keeps one row for a chat and for a title. *)
LEMMA OneRowEach ==
    ASSUME ChannelsOK, NEW a \in Accounts, NEW m \in Message,
           m.chat # Private => m.title \in Titles, UpsertChannel(a, m), title' = title
    PROVE  ChannelsOK'
  <1>1. CASE channels' = channels
    BY <1>1 DEF ChannelsOK
  <1>2. CASE channels' # channels
    <2> DEFINE row == [acct |-> a, chat |-> m.chat, title |-> m.title]
    <2>1. /\ m.chat \in Chats /\ m.title \in Titles
          /\ channels' = (channels \ RowOf(a, m.chat)) \cup {row}
          /\ RowOf(a, m.chat) # {} \/ Titled(a, m.title) = {}
      BY <1>2 DEF UpsertChannel, Message
    <2>2. row.acct = a /\ row.chat = m.chat /\ row.title = m.title
      OBVIOUS
    <2>3. row \in [acct : Accounts, chat : Chats, title : Titles]
      BY <2>1
    <2> HIDE DEF row
    <2>4. ASSUME NEW r \in channels, r \notin RowOf(a, m.chat), r.acct = a
          PROVE  r.chat # m.chat /\ r.title # m.title
      BY <2>1, <2>4 DEF UpsertChannel, RowOf, Titled
    <2>5. \A r, s \in channels' : r.acct = s.acct /\ r # s =>
             r.chat # s.chat /\ r.title # s.title
      BY <2>1, <2>2, <2>4 DEF ChannelsOK
    <2> QED BY <2>1, <2>3, <2>5 DEF ChannelsOK
  <1> QED BY <1>1, <1>2

(* No page and no request makes two rules for one chat or one title. *)
LEMMA RulesKept ==
    ASSUME RulesOK, ChannelsOK,
           \/ \E a \in Accounts, mode \in Modes :
                CreateRule(a, mode) \/ \E s \in Senders : SetSender(a, s, mode)
           \/ \E r \in channels, mode \in Modes : SetChannel(r, mode)
           \/ EditRule \/ EditSenderRule
    PROVE  RulesOK' /\ UNCHANGED <<title, channels>>
  <1> DEFINE CR == [acct : Accounts, chat : Chats \cup {NoChat}, key : Titles, mode : Modes]
             SR == [acct : Accounts, sender : Senders, by : {"id", "name"}, mode : Modes]
             Unique(R) == \A r, s \in R : r.acct = s.acct /\ r # s =>
                             r.key # s.key /\ (r.chat = s.chat => r.chat = NoChat)
  <1>1. ASSUME ChangesRules, channelRules' \subseteq CR, senderRules' \subseteq SR,
               Unique(channelRules')
        PROVE  RulesOK' /\ UNCHANGED <<title, channels>>
    BY <1>1 DEF RulesOK, ChangesRules
  <1>2. channelRules \subseteq CR /\ senderRules \subseteq SR /\ Unique(channelRules)
    BY DEF RulesOK
  <1>3. ASSUME NEW a \in Accounts, NEW mode \in Modes, NEW t \in Titles, ChangesRules,
               \A f \in channelRules : f.acct = a => f.key # t,
               channelRules' = channelRules \cup
                 {[acct |-> a, chat |-> NoChat, key |-> t, mode |-> mode]},
               senderRules' = senderRules
        PROVE  RulesOK' /\ UNCHANGED <<title, channels>>
    <2> DEFINE new == [acct |-> a, chat |-> NoChat, key |-> t, mode |-> mode]
    <2>1. new \in CR /\ new.acct = a /\ new.chat = NoChat /\ new.key = t
      OBVIOUS
    <2>2. channelRules' = channelRules \cup {new}
      BY <1>3
    <2> HIDE DEF new
    <2>3. ASSUME NEW f \in channelRules PROVE f.chat = NoChat \/ f.chat \in Chats
      BY <1>2, <2>3
    <2>4. Unique(channelRules')
      BY <1>2, <1>3, <2>1, <2>2, <2>3
    <2> QED BY <1>1, <1>2, <1>3, <2>1, <2>2, <2>4
  <1>4. ASSUME ChangesRules, channelRules' = channelRules, senderRules' \subseteq SR
        PROVE  RulesOK' /\ UNCHANGED <<title, channels>>
    BY <1>1, <1>2, <1>4
  <1>5. ASSUME NEW a \in Accounts, NEW mode \in Modes, CreateRule(a, mode)
        PROVE  RulesOK' /\ UNCHANGED <<title, channels>>
    <2>1. ASSUME NEW s \in Senders,
                 senderRules' = senderRules \cup
                   {[acct |-> a, sender |-> s, by |-> "name", mode |-> mode]},
                 channelRules' = channelRules
          PROVE  RulesOK' /\ UNCHANGED <<title, channels>>
      BY <1>2, <1>4, <1>5, <2>1 DEF CreateRule
    <2> QED BY <1>3, <1>5, <2>1 DEF CreateRule
  <1>6. ASSUME NEW a \in Accounts, NEW mode \in Modes, NEW s \in Senders, SetSender(a, s, mode)
        PROVE  RulesOK' /\ UNCHANGED <<title, channels>>
    BY <1>2, <1>4, <1>6 DEF SetSender
  <1>7. ASSUME NEW r \in channels, NEW mode \in Modes, SetChannel(r, mode)
        PROVE  RulesOK' /\ UNCHANGED <<title, channels>>
    <2>1. r.acct \in Accounts /\ r.chat \in Chats /\ r.title \in Titles
      BY DEF ChannelsOK
    <2>2. CASE OldRules(r) = {}
      <3> DEFINE new == [acct |-> r.acct, chat |-> r.chat, key |-> r.title, mode |-> mode]
      <3>1. new \in CR /\ new.acct = r.acct /\ new.chat = r.chat /\ new.key = r.title
        BY <2>1
      <3>2. channelRules' = channelRules \cup {new}
        BY <1>7, <2>2 DEF SetChannel
      <3>3. \A f \in channelRules : f.acct = r.acct => f.chat # r.chat /\ f.key # r.title
        BY <2>2 DEF OldRules
      <3> HIDE DEF new
      <3>4. Unique(channelRules')
        BY <1>2, <3>1, <3>2, <3>3
      <3> QED BY <1>1, <1>2, <1>7, <3>1, <3>2, <3>4 DEF SetChannel
    <2>3. CASE OldRules(r) # {}
      <3> DEFINE new(f) == [f EXCEPT !.mode = mode]
      <3>1. channelRules' = (channelRules \ OldRules(r)) \cup {new(f) : f \in OldRules(r)}
        BY <1>7, <2>3 DEF SetChannel
      <3>2. OldRules(r) \subseteq channelRules
        BY DEF OldRules
      <3>3. ASSUME NEW f \in channelRules
            PROVE  /\ new(f) \in CR /\ new(f).acct = f.acct /\ new(f).chat = f.chat
                   /\ new(f).key = f.key
        BY <1>2, <3>3
      <3> HIDE DEF new
      <3>4. channelRules' \subseteq CR
        BY <1>2, <3>1, <3>2, <3>3
      <3>5. Unique(channelRules')
        <4>1. ASSUME NEW x \in channelRules'
              PROVE  \E f \in channelRules :
                        /\ x = f \/ x = new(f)
                        /\ x = new(f) \/ f \notin OldRules(r)
                        /\ x.acct = f.acct /\ x.chat = f.chat /\ x.key = f.key
                        /\ f \in OldRules(r) => x = new(f)
                        /\ f \notin OldRules(r) => x = f
          BY <3>1, <3>2, <3>3
        <4> QED BY <1>2, <4>1
      <3> QED BY <1>1, <1>2, <1>7, <3>4, <3>5 DEF SetChannel
    <2> QED BY <2>2, <2>3
  <1>8. ASSUME EditRule PROVE RulesOK' /\ UNCHANGED <<title, channels>>
    <2>1. ASSUME NEW f \in channelRules, NEW mode \in Modes,
                 channelRules' = (channelRules \ {f}) \cup {[f EXCEPT !.mode = mode]}
          PROVE  RulesOK' /\ UNCHANGED <<title, channels>>
      <3> DEFINE new == [f EXCEPT !.mode = mode]
      <3>1. new \in CR /\ new.acct = f.acct /\ new.chat = f.chat /\ new.key = f.key
        BY <1>2
      <3>2. channelRules' = (channelRules \ {f}) \cup {new}
        BY <2>1
      <3> HIDE DEF new
      <3>3. Unique(channelRules')
        BY <1>2, <3>1, <3>2
      <3> QED BY <1>1, <1>2, <1>8, <3>1, <3>2, <3>3 DEF EditRule
    <2>2. ASSUME NEW f \in channelRules, channelRules' = channelRules \ {f}
          PROVE  RulesOK' /\ UNCHANGED <<title, channels>>
      BY <1>1, <1>2, <1>8, <2>2 DEF EditRule
    <2> QED BY <1>8, <2>1, <2>2 DEF EditRule
  <1>9. ASSUME EditSenderRule PROVE RulesOK' /\ UNCHANGED <<title, channels>>
    <2>1. senderRules' \subseteq SR
      BY <1>2, <1>9 DEF EditSenderRule
    <2> QED BY <1>4, <1>9, <2>1 DEF EditSenderRule
  <1> QED BY <1>5, <1>6, <1>7, <1>8, <1>9

-----------------------------------------------------------------------------
(* The invariant of the tables and the messages. *)

LEMMA FStart == FilterInit => FInv
  <1> SUFFICES ASSUME FilterInit PROVE FInv
    OBVIOUS
  <1>1. MsgsOK
    BY DEF FilterInit, Init, FreePost, MsgsOK
  <1>2. WithTitles
    BY DEF FilterInit, WithTitles
  <1>3. RulesOK /\ ChannelsOK
    BY DEF FilterInit, RulesOK, ChannelsOK
  <1> QED BY <1>1, <1>2, <1>3 DEF FInv

LEMMA TitlesKept ==
    ASSUME MsgsOK, WithTitles, NEW p \in Posts, Effect(p), Alone(p)
    PROVE  WithTitles'
  <1> SUFFICES ASSUME NEW q \in Posts, msg'[q] # NoMsg, msg'[q].of.chat # Private
               PROVE  msg'[q].of.title \in Titles
    BY DEF WithTitles
  <1>1. CASE q # p
    BY <1>1 DEF Alone, WithTitles
  <1>2. CASE q = p
    <2>1. ASSUME Checking(p), msg'[p].of = msg[p].of PROVE msg'[q].of.title \in Titles
      BY <1>2, <2>1 DEF Checking, WithTitles
    <2>2. Checking(p) => msg[p] \in Carried
      BY DEF Checking, MsgsOK
    <2>3. ASSUME Checking(p),
                 Advanced(p) \/ msg'[p] = [msg[p] EXCEPT !.rule = TRUE]
          PROVE  msg'[p].of = msg[p].of
      BY <2>2, <2>3 DEF Advanced, Carried
    <2>4. \/ msg'[p] = msg[p]
          \/ msg'[p] = NoMsg
          \/ msg'[p].of.chat # Private => msg'[p].of.title \in Titles
          \/ Checking(p) /\ (Advanced(p) \/ msg'[p] = [msg[p] EXCEPT !.rule = TRUE])
      BY DEF Effect
    <2> QED BY <1>2, <2>1, <2>3, <2>4 DEF WithTitles
  <1> QED BY <1>1, <1>2

(* The tables under a step of a message: only the transaction touches one. *)
LEMMA TablesKept ==
    ASSUME FInv, NEW p \in Posts,
           \/ \E a \in Accounts, c \in Chats \cup {Private}, s \in Senders \cup {NoSender} :
                 Arrive(p, a, c, s)
           \/ CheckSwitches(p) \/ CheckRule(p) \/ CheckFails(p) \/ GiveUp(p)
           \/ Begin(p) \/ Store(p) \/ Fail(p)
    PROVE  RulesOK' /\ ChannelsOK'
  <1>1. ASSUME UNCHANGED ruleVars PROVE RulesOK' /\ ChannelsOK'
    BY <1>1 DEF FInv, RulesOK, ChannelsOK, ruleVars
  <1>2. CASE Store(p)
    <2>1. UpsertChannel(msg[p].acct, msg[p].of) /\ post[p].pc = "locked"
          /\ UNCHANGED <<archiveOn, filtersOn, title, channelRules, senderRules>>
      BY <1>2 DEF Store, Commit
    <2>2. msg[p] # NoMsg /\ msg[p] \in Carried
      BY <2>1 DEF FInv, MsgsOK
    <2>3. /\ msg[p].acct \in Accounts /\ msg[p].of \in Message
          /\ msg[p].of.chat # Private => msg[p].of.title \in Titles
      BY <2>2 DEF Carried, FInv, WithTitles
    <2>4. ChannelsOK'
      BY <2>1, <2>3, OneRowEach DEF FInv
    <2> QED BY <2>1, <2>4 DEF FInv, RulesOK
  <1> QED BY <1>1, <1>2 DEF Arrive, CheckSwitches, CheckRule, CheckFails, GiveUp, Begin, Fail

LEMMA FStep == FInv /\ [FilterNext]_filterVars => FInv' /\ [Next]_vars
  <1> SUFFICES ASSUME FInv, [FilterNext]_filterVars PROVE FInv' /\ [Next]_vars
    OBVIOUS
  <1>1. CASE UNCHANGED filterVars
    BY <1>1 DEF filterVars, vars, ruleVars, FInv, MsgsOK, WithTitles, RulesOK, ChannelsOK
  <1>2. ASSUME NEW p \in Posts,
               \/ \E a \in Accounts, c \in Chats \cup {Private}, s \in Senders \cup {NoSender} :
                     Arrive(p, a, c, s)
               \/ CheckSwitches(p) \/ CheckRule(p) \/ CheckFails(p) \/ GiveUp(p)
               \/ Begin(p) \/ Store(p) \/ Fail(p)
        PROVE  FInv' /\ [Next]_vars
    <2>1. MsgsOK /\ WithTitles /\ title \in [Chats -> Titles]
      BY DEF FInv, ChannelsOK
    <2>2. [Next]_vars /\ MsgsOK' /\ Effect(p) /\ Alone(p)
      BY <1>2, <2>1, MessageStep
    <2>3. WithTitles'
      BY <2>1, <2>2, TitlesKept
    <2> QED BY <1>2, <2>2, <2>3, TablesKept DEF FInv
  <1>3. ASSUME \/ \E a \in Accounts :
                   \/ SwitchArchive(a) \/ SwitchFilters(a)
                   \/ \E mode \in Modes :
                        \/ CreateRule(a, mode)
                        \/ \E s \in Senders : SetSender(a, s, mode)
               \/ \E r \in channels, mode \in Modes : SetChannel(r, mode)
               \/ EditRule \/ EditSenderRule
               \/ \E c \in Chats, t \in Titles : Rename(c, t)
               \/ Authority
        PROVE  FInv' /\ [Next]_vars
    <2>1. [Next]_vars /\ UNCHANGED <<post, msg, errors>>
      BY <1>3, RuleStep DEF FInv
    <2>2. MsgsOK' /\ WithTitles'
      BY <2>1 DEF FInv, MsgsOK, WithTitles
    <2>3. ASSUME NEW a \in Accounts, SwitchArchive(a) \/ SwitchFilters(a)
          PROVE  RulesOK' /\ ChannelsOK'
      BY <2>3 DEF SwitchArchive, SwitchFilters, FInv, RulesOK, ChannelsOK
    <2>4. ASSUME NEW c \in Chats, NEW t \in Titles, Rename(c, t)
          PROVE  RulesOK' /\ ChannelsOK'
      BY <2>4 DEF Rename, FInv, RulesOK, ChannelsOK
    <2>5. ASSUME Authority PROVE RulesOK' /\ ChannelsOK'
      BY <2>5 DEF Authority, ruleVars, FInv, RulesOK, ChannelsOK
    <2>6. ASSUME \/ \E a \in Accounts, mode \in Modes :
                      CreateRule(a, mode) \/ \E s \in Senders : SetSender(a, s, mode)
                 \/ \E r \in channels, mode \in Modes : SetChannel(r, mode)
                 \/ EditRule \/ EditSenderRule
          PROVE  RulesOK' /\ ChannelsOK'
      BY <2>6, RulesKept DEF FInv, ChannelsOK
    <2> QED BY <1>3, <2>1, <2>2, <2>3, <2>4, <2>5, <2>6 DEF FInv
  <1>4. CASE FilterNext
    BY <1>2, <1>3, <1>4 DEF FilterNext, Step
  <1> QED BY <1>1, <1>4

(* The filters change nothing of what the ingestion path is: every behaviour
   with them is one of Ingestion, whose theorems therefore hold here. *)
THEOREM Composition == FilterSpec => Spec
  <1>1. FilterInit => Init
    BY DEF FilterInit
  <1> QED BY <1>1, FStart, FStep, PTL DEF FilterSpec, Spec

BlockedOK == blocked \subseteq Posts \X {"paused", "denied"}

LEMMA BlockedKept == BlockedOK /\ [FilterNext]_filterVars => BlockedOK'
  <1>1. ASSUME FilterNext PROVE BlockedOK'
    <2>1. blocked' = {b \in Posts \X {"paused", "denied"} :
                        /\ b[2] \in Reasons(b[1])'
                        /\ b \in blocked \/ msg[b[1]] = NoMsg}
      BY <1>1 DEF FilterNext
    <2> QED BY <2>1, Zenon DEF BlockedOK
  <1>2. ASSUME UNCHANGED filterVars, BlockedOK PROVE BlockedOK'
    BY <1>2 DEF filterVars, BlockedOK
  <1> QED BY <1>1, <1>2

(* The tables stay well formed: one row of channels for a chat and for a
   title, one rule for a chat and for a title, whatever titles are exchanged
   while messages are stored. *)
THEOREM FilterTypeCorrect == FilterSpec => []FilterTypeOK
  <1>1. FilterSpec => []FInv
    BY FStart, FStep, PTL DEF FilterSpec
  <1>2. FilterSpec => []TypeOK
    BY Composition, TypeCorrect, PTL
  <1>3. FilterSpec => []BlockedOK
    <2>1. FilterInit => BlockedOK
      BY DEF FilterInit, BlockedOK
    <2>2. BlockedOK /\ [FilterNext]_filterVars => BlockedOK'
      BY BlockedKept
    <2> QED BY <2>1, <2>2, PTL DEF FilterSpec
  <1>4. FInv /\ TypeOK /\ BlockedOK => FilterTypeOK
    BY DEF FInv, MsgsOK, RulesOK, ChannelsOK, BlockedOK, FilterTypeOK
  <1> QED BY <1>1, <1>2, <1>3, <1>4, PTL

-----------------------------------------------------------------------------
(* Refused messages *)

(* What has stood against a message since it arrived still does, and the
   message has passed at most one check, by a failure. *)
Standing ==
    \A p \in Posts, why \in {"paused", "denied"} : <<p, why>> \in blocked =>
        /\ why \in Reasons(p)
        /\ msg[p].pc = "worker" \/ (msg[p].pc = "server" /\ errors > 0)
        /\ why = "paused" => ~msg[p].rule

LEMMA StandingStep ==
    ASSUME MaxErrors <= 1, FInv, FInv', Standing, FilterNext,
           \A p \in Posts : Effect(p)
    PROVE  Standing'
  <1> SUFFICES ASSUME NEW p \in Posts, NEW why \in {"paused", "denied"},
                      <<p, why>> \in blocked'
               PROVE  /\ why \in Reasons(p)'
                      /\ msg'[p].pc = "worker" \/ (msg'[p].pc = "server" /\ errors' > 0)
                      /\ why = "paused" => ~msg'[p].rule
    BY DEF Standing
  <1>1. why \in Reasons(p)' /\ (<<p, why>> \in blocked \/ msg[p] = NoMsg)
    BY DEF FilterNext
  <1>2. msg'[p] # NoMsg
    BY <1>1 DEF Reasons
  <1>e. errors \in Nat /\ errors' \in Nat
    BY DEF FInv, MsgsOK
  <1>3. CASE msg[p] = NoMsg
    BY <1>1, <1>2, <1>3, <1>e DEF Effect, Checking
  <1>4. CASE msg[p] # NoMsg
    <2>1. /\ why \in Reasons(p)
          /\ msg[p].pc = "worker" \/ (msg[p].pc = "server" /\ errors > 0)
          /\ why = "paused" => ~msg[p].rule
      BY <1>1, <1>4 DEF Standing
    <2>2. /\ why = "paused" => ~archiveOn[msg[p].acct]
          /\ why = "denied" => filtersOn[msg[p].acct] /\ ~Allows(msg[p].acct, msg[p].of)
      BY <2>1, <1>4 DEF Reasons
    <2>3. \/ msg'[p] = msg[p] /\ errors' >= errors
          \/ msg'[p] = [msg[p] EXCEPT !.rule = TRUE] /\ archiveOn[msg[p].acct] /\ errors' = errors
          \/ errors < MaxErrors /\ errors' = errors + 1 /\ Advanced(p)
      BY <1>2, <1>4, <2>1, <2>2 DEF Effect
    <2>4. msg[p] \in Carried
      BY <1>4 DEF FInv, MsgsOK
    <2>5. CASE msg'[p] = msg[p] /\ errors' >= errors
      BY <1>1, <1>e, <2>1, <2>5
    <2>6. CASE msg'[p] = [msg[p] EXCEPT !.rule = TRUE] /\ archiveOn[msg[p].acct] /\ errors' = errors
      BY <1>1, <2>1, <2>2, <2>4, <2>6 DEF Carried
    <2>7. CASE errors < MaxErrors /\ errors' = errors + 1 /\ Advanced(p)
      <3>1. errors = 0 /\ errors' > 0
        BY <1>e, <2>7
      <3>2. msg'[p] = [msg[p] EXCEPT !.pc = "server", !.rule = FALSE]
        BY <2>1, <2>7, <3>1 DEF Advanced
      <3>3. msg'[p].pc = "server" /\ msg'[p].rule = FALSE
        BY <2>4, <3>2 DEF Carried
      <3> QED BY <1>1, <3>1, <3>3
    <2> QED BY <2>3, <2>5, <2>6, <2>7
  <1> QED BY <1>3, <1>4

(* Each step has an effect on each message. *)
LEMMA Effects ==
    ASSUME FInv, FilterNext
    PROVE  \A p \in Posts : Effect(p)
  <1>1. ASSUME NEW p \in Posts,
               \/ \E a \in Accounts, c \in Chats \cup {Private}, s \in Senders \cup {NoSender} :
                     Arrive(p, a, c, s)
               \/ CheckSwitches(p) \/ CheckRule(p) \/ CheckFails(p) \/ GiveUp(p)
               \/ Begin(p) \/ Store(p) \/ Fail(p)
        PROVE  \A q \in Posts : Effect(q)
    <2>1. Effect(p) /\ Alone(p)
      BY <1>1, MessageStep DEF FInv, ChannelsOK
    <2>2. errors' >= errors
      BY <2>1 DEF Effect, FInv, MsgsOK
    <2> QED BY <2>1, <2>2 DEF Alone, Effect
  <1>2. ASSUME UNCHANGED <<msg, errors>> PROVE \A q \in Posts : Effect(q)
    BY <1>2 DEF Effect, FInv, MsgsOK
  <1>3. ASSUME \/ \E a \in Accounts :
                   \/ SwitchArchive(a) \/ SwitchFilters(a)
                   \/ \E mode \in Modes :
                        \/ CreateRule(a, mode)
                        \/ \E s \in Senders : SetSender(a, s, mode)
               \/ \E r \in channels, mode \in Modes : SetChannel(r, mode)
               \/ EditRule \/ EditSenderRule
               \/ \E c \in Chats, t \in Titles : Rename(c, t)
               \/ Authority
        PROVE  UNCHANGED <<msg, errors>>
    BY <1>3, RuleStep DEF FInv
  <1> QED BY <1>1, <1>2, <1>3 DEF FilterNext, Step

(* While at most one query fails, no message is archived that a pause or the
   rules have stood against for all of its way, for any number of accounts,
   rules and messages: the server asks again what the worker has asked. *)
THEOREM Refused == ASSUME MaxErrors <= 1 PROVE FilterSpec => BlockedNotArchived
  <1>1. FilterInit => FInv /\ BlockedOK /\ Standing
    BY FStart DEF FilterInit, BlockedOK, Standing
  <1>2. FInv /\ BlockedOK /\ Standing /\ [FilterNext]_filterVars
           => FInv' /\ BlockedOK' /\ Standing'
    <2> SUFFICES ASSUME FInv, BlockedOK, Standing, [FilterNext]_filterVars
                 PROVE  FInv' /\ BlockedOK' /\ Standing'
      OBVIOUS
    <2>0. BlockedOK'
      BY BlockedKept
    <2>1. FInv'
      BY FStep
    <2>2. ASSUME UNCHANGED filterVars PROVE Standing'
      <3>1. \A p : Reasons(p)' = Reasons(p)
        BY <2>2 DEF filterVars, ruleVars, Reasons, Allows, Known, Matching
      <3> QED BY <2>2, <3>1 DEF filterVars, Standing
    <2>3. ASSUME FilterNext PROVE Standing'
      <3>1. \A p \in Posts : Effect(p)
        BY <2>3, Effects
      <3> QED BY <2>1, <2>3, <3>1, StandingStep
    <2> QED BY <2>0, <2>1, <2>2, <2>3
  <1>3. FInv /\ BlockedOK /\ Standing => \A p \in Posts : Store(p) => \A b \in blocked : b[1] # p
    <2> SUFFICES ASSUME FInv, BlockedOK, Standing, NEW p \in Posts, Store(p),
                        NEW b \in blocked, b[1] = p
                 PROVE  FALSE
      OBVIOUS
    <2>1. msg[p].pc = "posted"
      BY DEF Store, Commit, FInv, MsgsOK
    <2>2. b[2] \in {"paused", "denied"} /\ <<p, b[2]>> \in blocked
      BY DEF BlockedOK
    <2> QED BY <2>1, <2>2 DEF Standing
  <1> QED BY <1>1, <1>2, <1>3, PTL DEF FilterSpec, BlockedNotArchived
=============================================================================
