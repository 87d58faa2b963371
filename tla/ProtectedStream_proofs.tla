----------------------- MODULE ProtectedStream_proofs -----------------------
(* The registry of open responses, for any number of users and responses. *)
EXTENDS ProtectedStream, TLAPS

USE NoneAssumption, BoundAssumption

IInv == TypeOK /\ RegistryClean

Xfer == [pc : {"idle", "checked", "open", "ended"}, user : Users \cup {NoUser},
         authVersion : 0 .. MaxVer, active : SetIds \cup {NoSet}]

-----------------------------------------------------------------------------
LEMMA Typed ==
    ASSUME TypeOK, NEW t \in Transfers
    PROVE  /\ xfer[t] \in Xfer
           /\ xfer[t].pc # "idle" => xfer[t].user \in Users
           /\ xfer[t].pc \in {"open", "ended"} => xfer[t].active \in SetIds
  BY DEF TypeOK, Xfer

(* A response is in no other Set than the one it has joined, and in that one
   only while it is open. *)
LEMMA OneSet ==
    ASSUME IInv, NEW r \in SetIds, NEW t \in members[r]
    PROVE  t \in Transfers /\ xfer[t].pc = "open" /\ xfer[t].active = r
  BY DEF IInv, TypeOK, RegistryClean

(* Two users never share a Set. *)
LEMMA OwnSets ==
    ASSUME IInv, NEW u \in Users, NEW v \in Users,
           transfers[u] # NoSet, transfers[u] = transfers[v]
    PROVE  u = v
  <1>1. PICK t : t \in members[transfers[u]]
    BY DEF IInv, RegistryClean
  <1>2. t \in Registered(u) /\ t \in Registered(v)
    BY <1>1 DEF Registered
  <1> QED BY <1>2 DEF IInv, RegistryClean

(* One response moves. *)
LEMMA Replaced ==
    ASSUME TypeOK, NEW t \in Transfers, NEW q \in Xfer, xfer' = [xfer EXCEPT ![t] = q],
           q.pc = "idle" <=> q.user = NoUser,
           q.pc \in {"idle", "checked"} <=> q.active = NoSet
    PROVE  /\ xfer' \in [Transfers -> Xfer] /\ xfer'[t] = q
           /\ \A s \in Transfers \ {t} : xfer'[s] = xfer[s]
           /\ \A s \in Transfers :
                /\ xfer'[s].pc = "idle" <=> xfer'[s].user = NoUser
                /\ xfer'[s].pc \in {"idle", "checked"} <=> xfer'[s].active = NoSet
  <1>1. /\ xfer' \in [Transfers -> Xfer] /\ xfer'[t] = q
        /\ \A s \in Transfers \ {t} : xfer'[s] = xfer[s]
    BY DEF TypeOK, Xfer
  <1>2. ASSUME NEW s \in Transfers
        PROVE  /\ xfer'[s].pc = "idle" <=> xfer'[s].user = NoUser
               /\ xfer'[s].pc \in {"idle", "checked"} <=> xfer'[s].active = NoSet
    <2>1. CASE s = t
      BY <1>1, <2>1
    <2>2. CASE s # t
      <3>1. xfer'[s] = xfer[s]
        BY <1>1, <2>2
      <3> QED BY <3>1 DEF TypeOK
    <2> QED BY <2>1, <2>2
  <1> QED BY <1>1, <1>2

-----------------------------------------------------------------------------
LEMMA CheckStep ==
    ASSUME IInv, NEW t \in Transfers, NEW u \in Users, Check(t, u)
    PROVE  IInv'
  <1> DEFINE q == [Idle EXCEPT !.pc = "checked", !.user = u, !.authVersion = ver[u]]
  <1>1. TypeOK /\ xfer' = [xfer EXCEPT ![t] = q] /\ xfer[t].pc = "idle"
        /\ UNCHANGED <<approved, ver, revoking, transfers, members, late>>
    BY DEF Check, userVars, IInv
  <1>2. q \in Xfer /\ q.pc = "checked" /\ q.user = u /\ q.active = NoSet
    BY <1>1 DEF Idle, Xfer, TypeOK
  <1> HIDE DEF q
  <1>3. /\ xfer' \in [Transfers -> Xfer] /\ \A s \in Transfers \ {t} : xfer'[s] = xfer[s]
        /\ \A s \in Transfers :
             /\ xfer'[s].pc = "idle" <=> xfer'[s].user = NoUser
             /\ xfer'[s].pc \in {"idle", "checked"} <=> xfer'[s].active = NoSet
    BY <1>1, <1>2, Replaced
  <1>4. TypeOK'
    BY <1>1, <1>3 DEF TypeOK, Xfer
  <1>5. ASSUME NEW r \in SetIds, NEW s \in members[r]
        PROVE  xfer'[s] = xfer[s]
    BY <1>1, <1>3, OneSet
  <1>6. RegistryClean'
    <2>1. \A r \in SetIds : \A s \in members'[r] : xfer'[s].pc = "open" /\ xfer'[s].active = r
      BY <1>1, <1>5, OneSet
    <2>2. \A v \in Users : transfers'[v] # NoSet => members'[transfers'[v]] # {}
      BY <1>1 DEF IInv, RegistryClean
    <2>3. \A v \in Users : \A s \in Registered(v)' : xfer'[s].user = v
      <3> SUFFICES ASSUME NEW v \in Users, NEW s \in Registered(v)'
                   PROVE  xfer'[s].user = v
        OBVIOUS
      <3>1. s \in Registered(v) /\ transfers[v] \in SetIds /\ s \in members[transfers[v]]
        BY <1>1 DEF Registered, TypeOK
      <3> QED BY <1>5, <3>1 DEF IInv, RegistryClean
    <2> QED BY <2>1, <2>2, <2>3 DEF RegistryClean
  <1> QED BY <1>4, <1>6 DEF IInv

LEMMA WatchStep ==
    ASSUME IInv, NEW t \in Transfers, Watch(t)
    PROVE  IInv'
  <1>1. PICK u \in Users : u = xfer[t].user
    BY Typed DEF Watch, IInv
  <1>2. PICK r \in SetIds :
           /\ IF transfers[u] # NoSet THEN r = transfers[u] ELSE Unused(r)
           /\ members' = [members EXCEPT ![r] = IF transfers[u] # NoSet THEN @ \cup {t} ELSE {t}]
           /\ transfers' = [transfers EXCEPT ![u] = r]
           /\ xfer' = [xfer EXCEPT ![t].pc = "open", ![t].active = r]
    BY <1>1 DEF Watch
  <1> DEFINE q == [xfer[t] EXCEPT !.pc = "open", !.active = r]
  <1>3. TypeOK /\ xfer[t].pc = "checked" /\ UNCHANGED <<approved, ver, revoking, late>>
    BY DEF Watch, userVars, IInv
  <1>4. q \in Xfer /\ q.pc = "open" /\ q.active = r /\ q.user = u
    BY <1>1, <1>3, Typed DEF Xfer
  <1>5. xfer' = [xfer EXCEPT ![t] = q]
    BY <1>2, <1>3 DEF TypeOK
  <1> HIDE DEF q
  <1>6. /\ xfer' \in [Transfers -> Xfer] /\ xfer'[t] = q
        /\ \A s \in Transfers \ {t} : xfer'[s] = xfer[s]
        /\ \A s \in Transfers :
             /\ xfer'[s].pc = "idle" <=> xfer'[s].user = NoUser
             /\ xfer'[s].pc \in {"idle", "checked"} <=> xfer'[s].active = NoSet
    BY <1>3, <1>4, <1>5, Replaced
  <1>7. /\ members' \in [SetIds -> SUBSET Transfers]
        /\ t \in members'[r] /\ members'[r] \subseteq members[r] \cup {t}
        /\ transfers[u] = NoSet => members'[r] = {t}
        /\ \A o \in SetIds \ {r} : members'[o] = members[o]
    BY <1>2, <1>3 DEF TypeOK
  <1>8. /\ transfers' \in [Users -> SetIds \cup {NoSet}] /\ transfers'[u] = r
        /\ \A v \in Users \ {u} : transfers'[v] = transfers[v]
    BY <1>2, <1>3 DEF TypeOK
  <1>9. TypeOK'
    BY <1>3, <1>6, <1>7, <1>8 DEF TypeOK, Xfer
  <1>10. ASSUME NEW o \in SetIds, NEW s \in members[o]
         PROVE  s # t /\ s \in Transfers /\ xfer'[s] = xfer[s]
    BY <1>3, <1>6, OneSet
  <1>11. ASSUME NEW v \in Users \ {u}
         PROVE  transfers[v] # r
    <2>1. CASE transfers[u] # NoSet
      BY <1>2, <2>1, OwnSets
    <2>2. CASE transfers[u] = NoSet
      BY <1>2, <2>2 DEF Unused
    <2> QED BY <2>1, <2>2
  <1>12. RegistryClean'
    <2>1. ASSUME NEW o \in SetIds, NEW s \in members'[o]
          PROVE  xfer'[s].pc = "open" /\ xfer'[s].active = o
      <3>1. CASE o = r /\ s = t
        BY <1>4, <1>6, <3>1
      <3>2. CASE s \in members[o]
        BY <1>10, <3>2, OneSet
      <3> QED BY <1>7, <2>1, <3>1, <3>2
    <2>2. ASSUME NEW v \in Users, transfers'[v] # NoSet
          PROVE  members'[transfers'[v]] # {}
      <3>1. CASE v = u
        BY <1>7, <1>8, <3>1
      <3>2. CASE v # u
        <4>1. transfers'[v] = transfers[v] /\ transfers[v] \in SetIds \ {r}
          BY <1>3, <1>8, <1>11, <2>2, <3>2 DEF TypeOK
        <4> QED BY <1>7, <2>2, <4>1 DEF IInv, RegistryClean
      <3> QED BY <3>1, <3>2
    <2>3. ASSUME NEW v \in Users, NEW s \in Registered(v)'
          PROVE  xfer'[s].user = v
      <3>1. transfers'[v] # NoSet /\ s \in members'[transfers'[v]]
        BY DEF Registered
      <3>2. CASE v = u
        <4>1. CASE s = t
          BY <1>4, <1>6, <3>2, <4>1
        <4>2. CASE s # t
          <5>1. transfers[u] # NoSet /\ r = transfers[u] /\ s \in members[r]
            BY <1>2, <1>7, <1>8, <3>1, <3>2, <4>2
          <5>2. s \in Registered(u)
            BY <5>1 DEF Registered
          <5> QED BY <1>10, <3>2, <5>1, <5>2 DEF IInv, RegistryClean
        <4> QED BY <4>1, <4>2
      <3>3. CASE v # u
        <4>1. transfers'[v] = transfers[v] /\ transfers[v] \in SetIds \ {r}
          BY <1>3, <1>8, <1>11, <3>1, <3>3 DEF TypeOK
        <4>2. s \in members[transfers[v]] /\ s \in Registered(v)
          BY <1>7, <3>1, <4>1 DEF Registered
        <4> QED BY <1>10, <4>1, <4>2 DEF IInv, RegistryClean
      <3> QED BY <3>2, <3>3
    <2> QED BY <2>1, <2>2, <2>3 DEF RegistryClean
  <1> QED BY <1>9, <1>12 DEF IInv

(* Responses leave the Set r they have joined, and are over afterwards: one
   that closes, or all of a user's when the user is revoked. *)
LEMMA Leaves ==
    ASSUME IInv, NEW u \in Users, NEW r \in SetIds, NEW gone \in SUBSET Transfers,
           Left(u, r, gone), UNCHANGED revoking \/ revoking' = revoking \ {u},
           UNCHANGED <<approved, ver>>, late' \subseteq [user : Users, active : SetIds],
           xfer' \in [Transfers -> Xfer],
           \A t \in gone : xfer[t].active = r /\ xfer[t].user = u,
           \A t \in gone : xfer'[t].pc = "idle" <=> xfer'[t].user = NoUser,
           \A t \in gone : xfer'[t].pc \in {"idle", "checked"} <=> xfer'[t].active = NoSet,
           \A t \in Transfers \ gone : xfer'[t] = xfer[t]
    PROVE  IInv'
  <1>1. TypeOK
    BY DEF IInv
  <1>2. /\ members' \in [SetIds -> SUBSET Transfers] /\ members'[r] = members[r] \ gone
        /\ \A o \in SetIds \ {r} : members'[o] = members[o]
    BY <1>1 DEF Left, TypeOK
  <1>3. /\ transfers' \in [Users -> SetIds \cup {NoSet}]
        /\ transfers'[u] = IF members[r] \ gone = {} THEN NoSet ELSE transfers[u]
        /\ \A v \in Users \ {u} : transfers'[v] = transfers[v]
    BY <1>1 DEF Left, TypeOK
  <1>4. \A t \in Transfers :
           /\ xfer'[t].pc = "idle" <=> xfer'[t].user = NoUser
           /\ xfer'[t].pc \in {"idle", "checked"} <=> xfer'[t].active = NoSet
    <2> SUFFICES ASSUME NEW t \in Transfers
                 PROVE  /\ xfer'[t].pc = "idle" <=> xfer'[t].user = NoUser
                        /\ xfer'[t].pc \in {"idle", "checked"} <=> xfer'[t].active = NoSet
      OBVIOUS
    <2>1. CASE t \in gone
      BY <2>1
    <2>2. CASE t \notin gone
      <3>1. xfer'[t] = xfer[t]
        BY <2>2
      <3> QED BY <1>1, <3>1 DEF TypeOK
    <2> QED BY <2>1, <2>2
  <1>5. TypeOK'
    BY <1>1, <1>2, <1>3, <1>4 DEF TypeOK, Xfer
  <1>6. ASSUME NEW o \in SetIds, NEW s \in members'[o]
        PROVE  s \in members[o] /\ s \in Transfers /\ xfer'[s] = xfer[s]
    <2>1. s \in members[o] /\ (o = r => s \notin gone)
      BY <1>2, <1>6
    <2>2. s \in Transfers /\ xfer[s].active = o
      BY <2>1, OneSet
    <2>3. s \notin gone
      BY <2>1, <2>2
    <2> QED BY <2>1, <2>2, <2>3
  <1>7. ASSUME NEW v \in Users, transfers'[v] # NoSet
        PROVE  transfers[v] = transfers'[v] /\ transfers[v] \in SetIds
    BY <1>1, <1>3, <1>7 DEF TypeOK
  <1>8. RegistryClean'
    <2>1. ASSUME NEW o \in SetIds, NEW s \in members'[o]
          PROVE  xfer'[s].pc = "open" /\ xfer'[s].active = o
      BY <1>6, <2>1, OneSet
    <2>2. ASSUME NEW v \in Users, transfers'[v] # NoSet
          PROVE  members'[transfers'[v]] # {}
      <3>1. members[transfers[v]] # {} /\ transfers[v] = transfers'[v] /\ transfers[v] \in SetIds
        BY <1>7, <2>2 DEF IInv, RegistryClean
      <3>2. CASE transfers[v] # r
        BY <1>2, <3>1, <3>2
      <3>3. CASE transfers[v] = r /\ gone \cap members[r] = {}
        BY <1>2, <3>1, <3>3
      <3>4. CASE transfers[v] = r /\ gone \cap members[r] # {}
        <4>1. PICK t \in gone : t \in members[r]
          BY <3>4
        <4>2. t \in Registered(v) /\ xfer[t].user = u
          BY <2>2, <3>1, <3>4, <4>1 DEF Registered
        <4>3. v = u
          BY <4>2 DEF IInv, RegistryClean
        <4> QED BY <1>2, <1>3, <2>2, <3>1, <3>4, <4>3
      <3> QED BY <3>2, <3>3, <3>4
    <2>3. ASSUME NEW v \in Users, NEW s \in Registered(v)'
          PROVE  xfer'[s].user = v
      <3>1. transfers'[v] # NoSet /\ s \in members'[transfers'[v]]
        BY DEF Registered
      <3>2. transfers[v] # NoSet /\ s \in members[transfers[v]] /\ xfer'[s] = xfer[s]
        BY <1>6, <1>7, <3>1
      <3>3. s \in Registered(v)
        BY <3>2 DEF Registered
      <3> QED BY <3>2, <3>3 DEF IInv, RegistryClean
    <2> QED BY <2>1, <2>2, <2>3 DEF RegistryClean
  <1> QED BY <1>5, <1>8 DEF IInv

LEMMA ChecksTyped ==
    ASSUME TypeOK, NEW t \in Transfers, LeavesCheck(t)
    PROVE  late' \subseteq [user : Users, active : SetIds]
  <1>1. CASE UNCHANGED late
    BY <1>1 DEF TypeOK
  <1>2. CASE /\ xfer[t].pc = "open"
             /\ late' = late \cup {[user |-> xfer[t].user, active |-> xfer[t].active]}
    <2>1. xfer[t].user \in Users /\ xfer[t].active \in SetIds
      BY <1>2, Typed
    <2> QED BY <1>2, <2>1 DEF TypeOK
  <1> QED BY <1>1, <1>2 DEF LeavesCheck

(* A response that is over, however it came to that. *)
LEMMA OverStep ==
    ASSUME IInv, NEW t \in Transfers, Ends(t) \/ Returns(t) \/ TimerCancels(t)
    PROVE  IInv'
  <1> DEFINE ended == [xfer[t] EXCEPT !.pc = "ended"]
  <1>1. /\ xfer[t].pc \in {"open", "ended"} /\ Left(xfer[t].user, xfer[t].active, {t})
        /\ UNCHANGED <<approved, ver, revoking>> /\ TypeOK
        /\ LeavesCheck(t) \/ UNCHANGED late
    BY DEF Ends, Returns, TimerCancels, Cleanup, userVars, IInv
  <1>2. PICK u \in Users, r \in SetIds : u = xfer[t].user /\ r = xfer[t].active
    BY <1>1, Typed
  <1>3. /\ ended \in Xfer /\ ended.pc = "ended" /\ ended.user = u /\ ended.active = r
        /\ Idle \in Xfer /\ Idle.pc = "idle" /\ Idle.user = NoUser /\ Idle.active = NoSet
    BY <1>1, <1>2, Typed DEF Xfer, Idle
  <1>4. xfer' = [xfer EXCEPT ![t] = ended] \/ xfer' = [xfer EXCEPT ![t] = Idle]
    BY <1>1 DEF Ends, Returns, TimerCancels, TypeOK
  <1> HIDE DEF ended
  <1>5. /\ xfer' \in [Transfers -> Xfer] /\ xfer'[t] \in {ended, Idle}
        /\ \A s \in Transfers \ {t} : xfer'[s] = xfer[s]
    BY <1>1, <1>3, <1>4 DEF TypeOK, Xfer
  <1>6. /\ xfer'[t].pc = "idle" <=> xfer'[t].user = NoUser
        /\ xfer'[t].pc \in {"idle", "checked"} <=> xfer'[t].active = NoSet
    BY <1>3, <1>5
  <1>7. late' \subseteq [user : Users, active : SetIds]
    BY <1>1, ChecksTyped DEF TypeOK
  <1> QED BY <1>1, <1>2, <1>5, <1>6, <1>7, Leaves

(* The third clean-up of a response finds nothing of it in its Set. *)
LEMMA LateStep ==
    ASSUME IInv, NEW c \in late, LateCheck(c)
    PROVE  IInv'
  <1>1. TypeOK /\ UNCHANGED <<approved, ver, revoking, xfer>> /\ late' \subseteq late
    BY DEF LateCheck, userVars, IInv
  <1>2. PICK u \in Users, r \in SetIds : u = c.user /\ r = c.active
    BY <1>1 DEF TypeOK
  <1>3. late' \subseteq [user : Users, active : SetIds]
    BY <1>1 DEF TypeOK
  <1>4. CASE Left(u, r, {})
    <2>1. xfer \in [Transfers -> Xfer] /\ {} \in SUBSET Transfers
      BY <1>1 DEF TypeOK, Xfer
    <2> QED BY <1>1, <1>3, <1>4, <2>1, Leaves
  <1>5. CASE UNCHANGED <<transfers, members>>
    <2>1. TypeOK'
      BY <1>1, <1>3, <1>5 DEF TypeOK
    <2> QED BY <1>1, <1>5, <2>1 DEF IInv, RegistryClean, Registered
  <1> QED BY <1>2, <1>4, <1>5 DEF LateCheck

LEMMA CancelStep ==
    ASSUME IInv, NEW u \in Users, CancelUserTransfers(u)
    PROVE  IInv'
  <1>1. /\ revoking' = revoking \ {u} /\ UNCHANGED <<approved, ver>> /\ TypeOK
        /\ xfer' = [t \in Transfers |-> IF t \in Registered(u)
                                        THEN [xfer[t] EXCEPT !.pc = "ended"] ELSE xfer[t]]
        /\ UNCHANGED late \/ \E t \in Registered(u) : LeavesCheck(t)
    BY DEF CancelUserTransfers, IInv
  <1>4. late' \subseteq [user : Users, active : SetIds]
    <2>1. ASSUME NEW t \in Registered(u) PROVE t \in Transfers
      BY <1>1, <2>1 DEF Registered, TypeOK
    <2> QED BY <1>1, <2>1, ChecksTyped DEF TypeOK
  <1>2. CASE transfers[u] = NoSet
    <2>1. xfer' = [t \in Transfers |-> xfer[t]] /\ UNCHANGED <<transfers, members>>
      BY <1>1, <1>2 DEF Registered, CancelUserTransfers
    <2>2. xfer' = xfer
      BY <1>1, <2>1 DEF TypeOK
    <2>3. TypeOK'
      BY <1>1, <1>4, <2>1, <2>2 DEF TypeOK
    <2> QED BY <2>1, <2>2, <2>3 DEF IInv, RegistryClean, Registered
  <1>3. CASE transfers[u] # NoSet
    <2>1. PICK r \in SetIds : r = transfers[u]
      BY <1>1, <1>3 DEF TypeOK
    <2>2. PICK gone \in SUBSET Transfers : gone = Registered(u) /\ gone = members[r]
      BY <1>1, <1>3, <2>1 DEF Registered, TypeOK
    <2>3. Left(u, r, gone)
      BY <1>3, <2>1, <2>2 DEF CancelUserTransfers
    <2>4. ASSUME NEW t \in gone
          PROVE  /\ xfer[t].active = r /\ xfer[t].user = u /\ xfer[t].pc = "open"
                 /\ xfer'[t] = [xfer[t] EXCEPT !.pc = "ended"]
      <3>1. xfer[t].active = r /\ xfer[t].pc = "open"
        BY <2>2, OneSet
      <3>2. xfer[t].user = u
        BY <2>2 DEF IInv, RegistryClean
      <3> QED BY <1>1, <2>2, <3>1, <3>2
    <2>5. ASSUME NEW t \in gone
          PROVE  /\ xfer'[t].pc = "idle" <=> xfer'[t].user = NoUser
                 /\ xfer'[t].pc \in {"idle", "checked"} <=> xfer'[t].active = NoSet
      <3>1. xfer'[t].pc = "ended" /\ xfer'[t].user = u /\ xfer'[t].active = r
        BY <2>4, Typed DEF Xfer, IInv
      <3> QED BY <3>1
    <2>6. \A t \in Transfers \ gone : xfer'[t] = xfer[t]
      BY <1>1, <2>2
    <2>7. xfer' \in [Transfers -> Xfer]
      <3>1. \A t \in Transfers : [xfer[t] EXCEPT !.pc = "ended"] \in Xfer /\ xfer[t] \in Xfer
        BY <1>1, Typed DEF Xfer
      <3> QED BY <1>1, <3>1
    <2>8. /\ \A t \in gone : xfer[t].active = r /\ xfer[t].user = u
          /\ \A t \in gone : xfer'[t].pc = "idle" <=> xfer'[t].user = NoUser
          /\ \A t \in gone : xfer'[t].pc \in {"idle", "checked"} <=> xfer'[t].active = NoSet
      BY <2>4, <2>5
    <2>9. revoking' = revoking \ {u} /\ UNCHANGED <<approved, ver>>
      BY <1>1
    <2> QED BY <1>4, <2>3, <2>6, <2>7, <2>8, <2>9, Leaves
  <1> QED BY <1>2, <1>3

LEMMA UserStep ==
    ASSUME IInv, NEW u \in Users, Suspend(u) \/ Approve(u) \/ ChangeCredential(u)
    PROVE  IInv'
  <1>1. UNCHANGED <<transfers, members, xfer, late>> /\ TypeOK
    BY DEF Suspend, Approve, ChangeCredential, IInv
  <1>2. /\ approved' \in [Users -> BOOLEAN] /\ ver' \in [Users -> 0 .. MaxVer]
        /\ revoking' \subseteq Users
    <2>1. CASE Suspend(u)
      <3>1. ver[u] + 1 \in 0 .. MaxVer
        BY <1>1, <2>1 DEF Suspend, TypeOK
      <3>2. ver' \in [Users -> 0 .. MaxVer] /\ revoking' \subseteq Users
        BY <1>1, <2>1, <3>1 DEF Suspend, TypeOK
      <3>3. approved' \in [Users -> BOOLEAN]
        BY <1>1, <2>1 DEF Suspend, TypeOK
      <3> QED BY <3>2, <3>3
    <2>2. CASE Approve(u)
      BY <1>1, <2>2 DEF Approve, TypeOK
    <2>3. CASE ChangeCredential(u)
      <3>1. ver[u] + 1 \in 0 .. MaxVer
        BY <1>1, <2>3 DEF ChangeCredential, TypeOK
      <3> QED BY <1>1, <2>3, <3>1 DEF ChangeCredential, TypeOK
    <2> QED BY <2>1, <2>2, <2>3
  <1>3. TypeOK'
    BY <1>1, <1>2 DEF TypeOK
  <1> QED BY <1>1, <1>3 DEF IInv, RegistryClean, Registered

LEMMA Start == Init => IInv
  <1> SUFFICES ASSUME Init PROVE IInv
    OBVIOUS
  <1>1. TypeOK
    BY DEF Init, TypeOK, Idle
  <1>2. RegistryClean
    BY DEF Init, RegistryClean, Registered
  <1> QED BY <1>1, <1>2 DEF IInv

LEMMA Inductive == IInv /\ [Next]_vars => IInv'
  <1> SUFFICES ASSUME IInv, [Next]_vars PROVE IInv'
    OBVIOUS
  <1>1. CASE UNCHANGED vars
    BY <1>1 DEF IInv, TypeOK, RegistryClean, Registered, vars
  <1>2. ASSUME NEW t \in Transfers, NEW u \in Users, Check(t, u) PROVE IInv'
    BY <1>2, CheckStep
  <1>3. ASSUME NEW t \in Transfers, Watch(t) PROVE IInv'
    BY <1>3, WatchStep
  <1>4. ASSUME NEW t \in Transfers, Ends(t) \/ Returns(t) \/ TimerCancels(t) PROVE IInv'
    BY <1>4, OverStep
  <1>5. ASSUME NEW u \in Users, Suspend(u) \/ Approve(u) \/ ChangeCredential(u) PROVE IInv'
    BY <1>5, UserStep
  <1>6. ASSUME NEW u \in Users, CancelUserTransfers(u) PROVE IInv'
    BY <1>6, CancelStep
  <1>7. ASSUME NEW c \in late, LateCheck(c) PROVE IInv'
    BY <1>7, LateStep
  <1> QED BY <1>1, <1>2, <1>3, <1>4, <1>5, <1>6, <1>7 DEF Next

LEMMA Always == Spec => []IInv
  BY Start, Inductive, PTL DEF Spec

-----------------------------------------------------------------------------
(* The Map, the Sets and the responses of protectedStream.js keep their shape:
   a response has a user and, from watchTransfer on, a Set, until it returns. *)
THEOREM TypeCorrect == Spec => []TypeOK
  <1>1. IInv => TypeOK
    BY DEF IInv
  <1> QED BY <1>1, Always, PTL

(* cleanup() may run three times, and may drop an entry that already holds a newer
   Set: the Map still never holds an empty Set, nor a response that is over or
   of another user. *)
THEOREM Clean == Spec => []RegistryClean
  <1>1. IInv => RegistryClean
    BY DEF IInv
  <1> QED BY <1>1, Always, PTL

-----------------------------------------------------------------------------
(* Responses leave the Set r: who stays in the Set of u's entry is still found
   there, unless r is an earlier Set of u. *)
LEMMA Stays ==
    ASSUME IInv, NEW u \in Users, NEW v \in Users, NEW r \in SetIds, NEW gone,
           Left(v, r, gone), NEW t \in Registered(u), t \notin gone
    PROVE  t \in Registered(u)' \/ (v = u /\ r # transfers[u])
  <1>1. transfers[u] # NoSet /\ transfers[u] \in SetIds /\ t \in members[transfers[u]]
    BY DEF Registered, IInv, TypeOK
  <1>2. t \in members'[transfers[u]]
    BY <1>1 DEF Left, IInv, TypeOK
  <1>3. CASE transfers'[u] = transfers[u]
    BY <1>1, <1>2, <1>3 DEF Registered
  <1>4. CASE transfers'[u] # transfers[u]
    <2>1. v = u /\ members[r] \ gone = {}
      BY <1>4 DEF Left, IInv, TypeOK
    <2> QED BY <1>1, <2>1
  <1> QED BY <1>3, <1>4

LEMMA WatchReaches ==
    ASSUME IInv, NEW s \in Transfers, Watch(s), NEW u \in Users, NEW t \in Registered(u)
    PROVE  t \in Registered(u)'
  <1>1. PICK v \in Users : v = xfer[s].user
    BY Typed DEF Watch, IInv
  <1>2. PICK r \in SetIds :
           /\ IF transfers[v] # NoSet THEN r = transfers[v] ELSE Unused(r)
           /\ members' = [members EXCEPT ![r] = IF transfers[v] # NoSet THEN @ \cup {s} ELSE {s}]
           /\ transfers' = [transfers EXCEPT ![v] = r]
    BY <1>1 DEF Watch
  <1>3. transfers[u] # NoSet /\ transfers[u] \in SetIds /\ t \in members[transfers[u]] /\ TypeOK
    BY DEF Registered, IInv, TypeOK
  <1>4. CASE transfers[v] # NoSet
    <2>1. transfers'[u] = transfers[u]
      BY <1>2, <1>3, <1>4 DEF TypeOK
    <2>2. t \in members'[transfers[u]]
      BY <1>2, <1>3, <1>4 DEF TypeOK
    <2> QED BY <1>3, <2>1, <2>2 DEF Registered
  <1>5. CASE transfers[v] = NoSet
    <2>1. u # v /\ transfers[u] # r
      BY <1>2, <1>3, <1>5 DEF Unused
    <2>2. transfers'[u] = transfers[u] /\ members'[transfers[u]] = members[transfers[u]]
      BY <1>2, <1>3, <2>1 DEF TypeOK
    <2> QED BY <1>3, <2>2 DEF Registered
  <1> QED BY <1>4, <1>5

(* Who can be cancelled at once stays so: only a response that has joined an
   earlier Set of the same user, or its late check, drops the entry under the
   open responses of another Set. *)
THEOREM Reachable == Spec => ReachableKept
  <1>1. ASSUME IInv, Next, NEW u \in Users, NEW t \in Registered(u), xfer'[t].pc = "open"
        PROVE  t \in Registered(u)' \/ EarlierSetCleansUp(u)
    <2>0. TypeOK /\ transfers[u] \in SetIds /\ t \in members[transfers[u]] /\ t \in Transfers
      BY <1>1 DEF Registered, IInv, TypeOK
    <2>1. CASE UNCHANGED <<transfers, members>>
      BY <1>1, <2>1 DEF Registered
    <2>2. ASSUME NEW s \in Transfers, Watch(s)
          PROVE  t \in Registered(u)'
      BY <1>1, <2>2, WatchReaches
    <2>3. ASSUME NEW s \in Transfers, Ends(s) \/ Returns(s) \/ TimerCancels(s)
          PROVE  t \in Registered(u)' \/ EarlierSetCleansUp(u)
      <3>1. /\ xfer[s].pc \in {"open", "ended"} /\ xfer'[s].pc # xfer[s].pc
            /\ xfer'[s].pc # "open"
            /\ Left(xfer[s].user, xfer[s].active, {s})
        BY <2>0, <2>3 DEF Ends, Returns, TimerCancels, Cleanup, Idle, TypeOK
      <3>2. xfer[s].user \in Users /\ xfer[s].active \in SetIds /\ t # s
        BY <1>1, <2>0, <3>1, Typed
      <3>3. t \in Registered(u)' \/ (xfer[s].user = u /\ xfer[s].active # transfers[u])
        BY <1>1, <3>1, <3>2, Stays
      <3> QED BY <3>1, <3>3 DEF EarlierSetCleansUp
    <2>4. ASSUME NEW c \in late, LateCheck(c)
          PROVE  t \in Registered(u)' \/ EarlierSetCleansUp(u)
      <3>1. CASE Left(c.user, c.active, {})
        <4>1. c.user \in Users /\ c.active \in SetIds /\ c \notin late'
          BY <2>0, <2>4 DEF LateCheck, TypeOK
        <4>2. t \in Registered(u)' \/ (c.user = u /\ c.active # transfers[u])
          BY <1>1, <3>1, <4>1, Stays
        <4> QED BY <2>4, <4>1, <4>2 DEF EarlierSetCleansUp
      <3> QED BY <2>1, <2>4, <3>1 DEF LateCheck
    <2>5. ASSUME NEW v \in Users, CancelUserTransfers(v), transfers[v] # NoSet
          PROVE  t \in Registered(u)'
      <3>1. t \notin Registered(v)
        BY <1>1, <2>0, <2>5 DEF CancelUserTransfers
      <3>2. Left(v, transfers[v], Registered(v)) /\ transfers[v] \in SetIds /\ u # v
        BY <1>1, <2>0, <2>5, <3>1 DEF CancelUserTransfers, TypeOK
      <3> QED BY <1>1, <3>1, <3>2, Stays
    <2>6. ASSUME NEW s \in Transfers, NEW v \in Users, Check(s, v)
          PROVE  UNCHANGED <<transfers, members>>
      BY <2>6 DEF Check
    <2>7. ASSUME NEW v \in Users,
                 \/ Suspend(v) \/ Approve(v) \/ ChangeCredential(v)
                 \/ CancelUserTransfers(v) /\ transfers[v] = NoSet
          PROVE  UNCHANGED <<transfers, members>>
      BY <2>7 DEF Suspend, Approve, ChangeCredential, CancelUserTransfers
    <2> QED BY <1>1, <2>1, <2>2, <2>3, <2>4, <2>5, <2>6, <2>7 DEF Next
  <1>2. IInv /\ [Next]_vars =>
           [\A u \in Users : \A t \in Registered(u) :
              xfer'[t].pc = "open" => t \in Registered(u)' \/ EarlierSetCleansUp(u)]_vars
    BY <1>1
  <1> QED BY <1>2, Start, Inductive, PTL DEF Spec, ReachableKept
=============================================================================
