------------------------- MODULE WebSession_proofs -------------------------
(* Sessions of the website, for any number of users, sessions, requests,
   sockets and generations. *)
EXTENDS WebSession, TLAPS

USE NoneAssumption, BoundAssumption

-----------------------------------------------------------------------------
(* The type invariant, a part for each group of variables. *)

UsersOK ==
    /\ approved \in [Users -> BOOLEAN]
    /\ ver \in [Users -> 0 .. MaxVer] /\ pw \in [Users -> 0 .. MaxVer]

StoreOK ==
    /\ store \in [Sids -> MaybeSession] /\ issued \subseteq Sids
    /\ \A i \in Sids \ issued : store[i] = NoSession

Formed(q) == /\ q.pc = "idle" <=> q.copy = NoSession
             /\ q.sid = NoSid => q.pc \in {"idle", "compared"}

ReqOK == req \in [Reqs -> ReqType] /\ \A r \in Reqs : Formed(req[r])

SockFormed(k) == k.pc = "closed" <=> k.copy = NoSession

SockOK == sock \in [Socks -> SockType] /\ \A s \in Socks : SockFormed(sock[s])

RestOK == emit \in EmitType /\ suspending \subseteq Users /\ out \subseteq issued

LEMMA TypeParts == TypeOK <=> UsersOK /\ StoreOK /\ ReqOK /\ SockOK /\ RestOK
  BY DEF TypeOK, UsersOK, StoreOK, ReqOK, SockOK, RestOK, Formed, SockFormed

LEMMA TypePartsNext == TypeOK' <=> UsersOK' /\ StoreOK' /\ ReqOK' /\ SockOK' /\ RestOK'
  BY DEF TypeOK, UsersOK, StoreOK, ReqOK, SockOK, RestOK, Formed, SockFormed

(* A session is one of a user, and NoSession is not. *)
LEMMA Sessions ==
    ASSUME NEW c \in MaybeSession, c # NoSession
    PROVE  c.user \in Users /\ c.gen \in 0 .. MaxVer /\ c.pw \in 0 .. MaxVer
  BY DEF MaybeSession, Session

LEMMA NoSessionTyped == NoSession \in MaybeSession /\ NoSession.user \notin Users
  BY DEF MaybeSession, NoSession

-----------------------------------------------------------------------------
(* What the helpers of the actions do to the requests, the sockets and the
   store. *)

LEMMA Becomes ==
    ASSUME ReqOK, NEW r \in Reqs, NEW q \in ReqType, Formed(q),
           req' = [req EXCEPT ![r] = q], UNCHANGED issued
    PROVE  ReqOK'
  BY DEF ReqOK, ReqType, Formed

LEMMA Idles ==
    ASSUME ReqOK, NEW r \in Reqs, Ends(r), UNCHANGED issued
    PROVE  ReqOK'
  <1>1. IdleReq \in ReqType /\ Formed(IdleReq)
    BY NoSessionTyped DEF IdleReq, ReqType, Formed
  <1> QED BY <1>1, Becomes DEF Ends

LEMMA Goes ==
    ASSUME ReqOK, NEW r \in Reqs, req[r].pc \notin {"idle", "compared"},
           NEW pc \in {"working", "others", "logout"},
           Goto(r, pc), UNCHANGED issued
    PROVE  ReqOK'
  <1> DEFINE q == [req[r] EXCEPT !.pc = pc]
  <1>1. q \in ReqType /\ Formed(q)
    BY DEF ReqOK, ReqType, Formed
  <1>2. req' = [req EXCEPT ![r] = q]
    BY DEF Goto, ReqOK, ReqType
  <1> QED BY <1>1, <1>2, Becomes

LEMMA StoreBecomes ==
    ASSUME StoreOK, NEW i \in issued, NEW c \in MaybeSession,
           store' = [store EXCEPT ![i] = c], UNCHANGED issued
    PROVE  StoreOK'
  BY DEF StoreOK

LEMMA Destroys ==
    ASSUME StoreOK, NEW i \in issued \cup {NoSid}, store' = Destroyed(i), UNCHANGED issued
    PROVE  StoreOK'
  BY NoSessionTyped DEF StoreOK, Destroyed

LEMMA ClosedTyped == NoSock \in SockType /\ SockFormed(NoSock)
  BY NoSessionTyped DEF NoSock, SockType, SockFormed

LEMMA SockBecomes ==
    ASSUME SockOK, NEW s \in Socks, NEW k \in SockType, SockFormed(k),
           sock' = [sock EXCEPT ![s] = k], UNCHANGED issued
    PROVE  SockOK'
  BY DEF SockOK, SockType, SockFormed

LEMMA Drops ==
    ASSUME SockOK, NEW set, sock' = Dropped(set), UNCHANGED issued
    PROVE  SockOK'
  <1>1. \A s \in Socks : Dropped(set)[s] \in SockType /\ SockFormed(Dropped(set)[s])
    BY ClosedTyped DEF SockOK, Dropped
  <1>2. Dropped(set) \in [Socks -> SockType]
    BY <1>1 DEF Dropped
  <1>3. SockType' = SockType
    BY DEF SockType
  <1>4. \A s \in Socks : SockFormed(sock[s])'
    BY <1>1 DEF SockFormed
  <1> QED BY <1>2, <1>3, <1>4 DEF SockOK
-----------------------------------------------------------------------------
(* Type correctness *)

LEMMA InitTyped == Init => TypeOK
  BY NoSessionTyped DEF Init, TypeOK, ReqType, SockType, EmitType, IdleReq, NoSock, NoEmit,
       MaybeSession

LEMMA RestKept ==
    ASSUME RestOK, UNCHANGED <<emit, suspending, out, issued>> PROVE RestOK'
  BY DEF RestOK, EmitType

(* A request that is under way has a session of a user. *)
LEMMA Working ==
    ASSUME ReqOK, NEW r \in Reqs, req[r].pc # "idle"
    PROVE  /\ req[r].copy \in MaybeSession /\ req[r].copy # NoSession
           /\ req[r].copy.user \in Users
           /\ req[r].sid \in issued \cup {NoSid}
           /\ req[r].pc # "compared" => req[r].sid \in issued
  <1>1. req[r].copy \in MaybeSession /\ req[r].copy # NoSession
        /\ req[r].sid \in issued \cup {NoSid}
        /\ (req[r].pc # "compared" => req[r].sid # NoSid)
    BY DEF ReqOK, ReqType, Formed
  <1> QED BY <1>1, Sessions

LEMMA FailsTyped ==
    ASSUME TypeOK, NEW r \in Reqs, Fails(r) PROVE TypeOK'
  BY TypeParts, TypePartsNext, Idles, RestKept
     DEF Fails, UsersOK, StoreOK, SockOK, SockType, userVars

LEMMA LoginTyped ==
    ASSUME TypeOK, NEW r \in Reqs, NEW u \in Users, NEW i \in issued \cup {NoSid},
           LoginCompares(r, u, i)
    PROVE  TypeOK'
  <1> DEFINE c == [user |-> u, gen |-> ver[u], pw |-> pw[u]]
             q == [pc |-> "compared", sid |-> i, copy |-> c]
  <1>1. UsersOK /\ StoreOK /\ ReqOK /\ SockOK /\ RestOK
    BY TypeParts
  <1>2. c \in MaybeSession /\ c # NoSession
    BY <1>1 DEF UsersOK, MaybeSession, Session, NoSession
  <1>3. q \in ReqType /\ Formed(q)
    BY <1>2 DEF ReqType, Formed
  <1>4. ReqOK'
    BY <1>1, <1>3, Becomes DEF LoginCompares, Become
  <1> QED BY <1>1, <1>4, TypePartsNext, RestKept
          DEF LoginCompares, UsersOK, StoreOK, SockOK, SockType, userVars

LEMMA RegenerateTyped ==
    ASSUME TypeOK, NEW r \in Reqs, Regenerate(r) PROVE TypeOK'
  <1>1. UsersOK /\ StoreOK /\ ReqOK /\ SockOK /\ RestOK
    BY TypeParts
  <1>2. PICK i \in Sids \ issued :
            /\ issued' = issued \cup {i}
            /\ Become(r, "fresh", i, req[r].copy)
    BY DEF Regenerate
  <1>3. store' = Destroyed(req[r].sid)
    BY DEF Regenerate
  <1>4. req[r].copy \in MaybeSession /\ req[r].copy # NoSession
    BY <1>1, Working DEF Regenerate
  <1>5. StoreOK'
    BY <1>1, <1>2, <1>3, NoSessionTyped DEF StoreOK, Destroyed
  <1>6. ReqType \subseteq ReqType'
    BY <1>2 DEF ReqType
  <1>7. SockOK'
    BY <1>1, <1>2 DEF SockOK, SockType, Regenerate
  <1> DEFINE q == [pc |-> "fresh", sid |-> i, copy |-> req[r].copy]
  <1>8. q \in ReqType' /\ Formed(q)
    BY <1>2, <1>4 DEF ReqType, Formed
  <1>9. ReqOK'
    <2>1. req' = [req EXCEPT ![r] = q]
      BY <1>2 DEF Become
    <2> HIDE DEF q
    <2>2. req' \in [Reqs -> ReqType']
      BY <1>1, <1>6, <1>8, <2>1 DEF ReqOK
    <2>3. \A x \in Reqs : Formed(req'[x])
      BY <1>1, <1>8, <2>1 DEF ReqOK
    <2> QED BY <2>2, <2>3 DEF ReqOK, Formed
  <1> QED BY <1>1, <1>2, <1>5, <1>7, <1>9, TypePartsNext
          DEF Regenerate, UsersOK, RestOK, EmitType, userVars
LEMMA SaveNewTyped ==
    ASSUME TypeOK, NEW r \in Reqs, SaveNew(r) PROVE TypeOK'
  <1>1. UsersOK /\ StoreOK /\ ReqOK /\ SockOK /\ RestOK
    BY TypeParts
  <1>2. StoreOK'
    BY <1>1, Working, StoreBecomes DEF SaveNew, Saved
  <1>3. ReqOK'
    BY <1>1, Idles, Goes DEF SaveNew
  <1> QED BY <1>1, <1>2, <1>3, TypePartsNext, RestKept
          DEF SaveNew, UsersOK, SockOK, SockType, userVars

LEMMA OthersTyped ==
    ASSUME TypeOK, NEW r \in Reqs, DisconnectOthers(r) PROVE TypeOK'
  BY TypeParts, TypePartsNext, Idles, Drops, RestKept
     DEF DisconnectOthers, UsersOK, StoreOK, userVars

LEMMA LoadTyped ==
    ASSUME TypeOK, NEW r \in Reqs, NEW i \in issued, Load(r, i) PROVE TypeOK'
  <1> DEFINE q == [pc |-> "loaded", sid |-> i, copy |-> store[i]]
  <1>1. UsersOK /\ StoreOK /\ ReqOK /\ SockOK /\ RestOK
    BY TypeParts
  <1>2. q \in ReqType /\ Formed(q)
    BY <1>1 DEF Load, StoreOK, ReqType, Formed
  <1>3. ReqOK'
    BY <1>1, <1>2, Becomes DEF Load, Become
  <1> QED BY <1>1, <1>3, TypePartsNext, RestKept
          DEF Load, UsersOK, StoreOK, SockOK, SockType, userVars

LEMMA RequireAuthTyped ==
    ASSUME TypeOK, NEW r \in Reqs, RequireAuth(r) PROVE TypeOK'
  <1>1. UsersOK /\ StoreOK /\ ReqOK /\ SockOK /\ RestOK
    BY TypeParts
  <1>2. ReqOK'
    BY <1>1, Idles, Goes DEF RequireAuth
  <1>3. StoreOK'
    BY <1>1, Working, Destroys DEF RequireAuth, StoreOK
  <1> QED BY <1>1, <1>2, <1>3, TypePartsNext, RestKept
          DEF RequireAuth, UsersOK, SockOK, SockType, userVars

LEMMA SaveCopyTyped ==
    ASSUME TypeOK, NEW r \in Reqs, SaveCopy(r) PROVE TypeOK'
  <1>1. UsersOK /\ StoreOK /\ ReqOK /\ SockOK /\ RestOK
    BY TypeParts
  <1>2. StoreOK'
    BY <1>1, Working, StoreBecomes DEF SaveCopy
  <1> QED BY <1>1, <1>2, Idles, TypePartsNext, RestKept
          DEF SaveCopy, UsersOK, SockOK, SockType, userVars

(* Both changes of credentials end in a renewal with a changed copy. *)
LEMMA RenewTyped ==
    ASSUME ReqOK, NEW r \in Reqs, req[r].pc = "working",
           NEW c \in MaybeSession, c # NoSession,
           Become(r, "renew", req[r].sid, c), UNCHANGED issued
    PROVE  ReqOK'
  <1> DEFINE q == [pc |-> "renew", sid |-> req[r].sid, copy |-> c]
  <1>1. q \in ReqType /\ Formed(q)
    BY DEF ReqOK, ReqType, Formed
  <1> QED BY <1>1, Becomes DEF Become

LEMMA PasswordTyped ==
    ASSUME TypeOK, NEW r \in Reqs, ChangePassword(r) PROVE TypeOK'
  <1> DEFINE c == req[r].copy
             g == ver[c.user] + 1
             d == [c EXCEPT !.gen = g, !.pw = g]
  <1>1. UsersOK /\ StoreOK /\ ReqOK /\ SockOK /\ RestOK
    BY TypeParts
  <1>2. c \in Session /\ c.user \in Users
    BY <1>1, Working DEF ChangePassword, MaybeSession
  <1>3. g \in 0 .. MaxVer
    BY <1>1, <1>2 DEF UsersOK, ChangePassword
  <1>4. d \in MaybeSession /\ d # NoSession
    BY <1>2, <1>3 DEF MaybeSession, Session, NoSession
  <1>5. ReqOK'
    BY <1>1, <1>4, RenewTyped DEF ChangePassword
  <1>6. UsersOK'
    BY <1>1, <1>2, <1>3 DEF UsersOK, ChangePassword
  <1> QED BY <1>1, <1>5, <1>6, TypePartsNext, RestKept
          DEF ChangePassword, StoreOK, SockOK, SockType

LEMMA EmailTyped ==
    ASSUME TypeOK, NEW r \in Reqs, ChangeEmail(r) PROVE TypeOK'
  <1> DEFINE c == req[r].copy
             g == ver[c.user] + 1
             d == [c EXCEPT !.gen = g]
  <1>1. UsersOK /\ StoreOK /\ ReqOK /\ SockOK /\ RestOK
    BY TypeParts
  <1>2. c \in Session /\ c.user \in Users
    BY <1>1, Working DEF ChangeEmail, MaybeSession
  <1>3. g \in 0 .. MaxVer
    BY <1>1, <1>2 DEF UsersOK, ChangeEmail
  <1>4. d \in MaybeSession /\ d # NoSession
    BY <1>2, <1>3 DEF MaybeSession, Session, NoSession
  <1>5. ReqOK'
    BY <1>1, <1>4, RenewTyped DEF ChangeEmail
  <1>6. UsersOK'
    BY <1>1, <1>2, <1>3 DEF UsersOK, ChangeEmail
  <1> QED BY <1>1, <1>5, <1>6, TypePartsNext, RestKept
          DEF ChangeEmail, StoreOK, SockOK, SockType

LEMMA LogoutTyped ==
    ASSUME TypeOK, NEW r \in Reqs, Logout(r) PROVE TypeOK'
  <1>1. UsersOK /\ StoreOK /\ ReqOK /\ SockOK /\ RestOK
    BY TypeParts
  <1>2. StoreOK'
    BY <1>1, Working, Destroys DEF Logout
  <1> QED BY <1>1, <1>2, Goes, TypePartsNext, RestKept
          DEF Logout, UsersOK, SockOK, SockType, userVars

LEMMA DisconnectSessionTyped ==
    ASSUME TypeOK, NEW r \in Reqs, DisconnectSession(r) PROVE TypeOK'
  <1>1. UsersOK /\ StoreOK /\ ReqOK /\ SockOK /\ RestOK
    BY TypeParts
  <1>2. RestOK'
    BY <1>1, Working DEF DisconnectSession, RestOK, EmitType
  <1> QED BY <1>1, <1>2, Idles, Drops, TypePartsNext
          DEF DisconnectSession, UsersOK, StoreOK, userVars

LEMMA ApprovalTyped ==
    ASSUME TypeOK, NEW u \in Users, Suspend(u) \/ DisconnectUser(u) \/ Approve(u)
    PROVE  TypeOK'
  <1>1. UsersOK /\ StoreOK /\ ReqOK /\ SockOK /\ RestOK
    BY TypeParts
  <1>2. CASE Suspend(u)
    <2>1. UsersOK' /\ RestOK'
      BY <1>1, <1>2 DEF Suspend, UsersOK, RestOK, EmitType
    <2> QED BY <1>1, <1>2, <2>1, TypePartsNext
            DEF Suspend, StoreOK, ReqOK, ReqType, SockOK, SockType
  <1>3. CASE DisconnectUser(u)
    <2>1. RestOK'
      BY <1>1, <1>3 DEF DisconnectUser, RestOK, EmitType
    <2> QED BY <1>1, <1>3, <2>1, Drops, TypePartsNext
            DEF DisconnectUser, UsersOK, StoreOK, ReqOK, ReqType, userVars
  <1>4. CASE Approve(u)
    <2>1. UsersOK'
      BY <1>1, <1>4 DEF Approve, UsersOK
    <2> QED BY <1>1, <1>4, <2>1, TypePartsNext, RestKept
            DEF Approve, StoreOK, ReqOK, ReqType, SockOK, SockType
  <1> QED BY <1>2, <1>3, <1>4

LEMMA SocketTyped ==
    ASSUME TypeOK, NEW s \in Socks,
           (\E i \in issued : Handshake(s, i)) \/ Admit(s) \/ Join(s) \/ Close(s)
    PROVE  TypeOK'
  <1>1. UsersOK /\ StoreOK /\ ReqOK /\ SockOK /\ RestOK
    BY TypeParts
  <1>2. sock[s] \in SockType /\ SockFormed(sock[s])
    BY <1>1 DEF SockOK
  <1>3. PICK k \in SockType : SockFormed(k) /\ sock' = [sock EXCEPT ![s] = k]
    <2>1. CASE \E i \in issued : Handshake(s, i)
      <3>1. PICK i \in issued : Handshake(s, i)
        BY <2>1
      <3> DEFINE k == [pc |-> "loaded", sid |-> i, copy |-> store[i]]
      <3>2. k \in SockType /\ SockFormed(k)
        BY <1>1, <3>1 DEF Handshake, StoreOK, SockType, SockFormed
      <3> QED BY <3>1, <3>2 DEF Handshake
    <2>2. CASE Admit(s)
      <3> DEFINE k == IF Valid(sock[s].copy) THEN [sock[s] EXCEPT !.pc = "checked"] ELSE NoSock
      <3>1. [sock[s] EXCEPT !.pc = "checked"] \in SockType
            /\ SockFormed([sock[s] EXCEPT !.pc = "checked"])
        BY <1>2, <2>2 DEF Admit, SockType, SockFormed
      <3>2. k \in SockType /\ SockFormed(k)
        BY <3>1, ClosedTyped
      <3>3. sock' = [sock EXCEPT ![s] = k]
        BY <1>1, <2>2 DEF Admit, SockOK
      <3> QED BY <3>2, <3>3
    <2>3. CASE Join(s)
      <3> DEFINE k == [sock[s] EXCEPT !.pc = "joined"]
      <3>1. k \in SockType /\ SockFormed(k)
        BY <1>2, <2>3 DEF Join, SockType, SockFormed
      <3>2. sock' = [sock EXCEPT ![s] = k]
        BY <1>1, <2>3 DEF Join, SockOK
      <3> QED BY <3>1, <3>2
    <2>4. CASE Close(s)
      BY <2>4, ClosedTyped DEF Close
    <2> QED BY <2>1, <2>2, <2>3, <2>4
  <1>4. UNCHANGED <<userVars, store, issued, req, emit, suspending, out>>
    BY DEF Handshake, Admit, Join, Close
  <1>5. SockOK'
    BY <1>1, <1>3, <1>4, SockBecomes
  <1> QED BY <1>1, <1>4, <1>5, TypePartsNext, RestKept
          DEF UsersOK, StoreOK, ReqOK, ReqType, userVars

LEMMA EmitTyped ==
    ASSUME TypeOK,
           \/ \E u \in Users : EmitBegins(u)
           \/ \E s \in Socks : EmitReads(s) \/ Deliver(s) \/ Withhold(s)
           \/ EmitEnds
    PROVE  TypeOK'
  <1>1. UsersOK /\ StoreOK /\ ReqOK /\ SockOK /\ RestOK
    BY TypeParts
  <1>2. UNCHANGED <<userVars, store, issued, req, suspending, out>>
    BY DEF EmitBegins, EmitReads, Deliver, Withhold, EmitEnds
  <1>3. SockOK'
    <2>1. UNCHANGED sock \/ \E s \in Socks : sock' = Dropped({s})
      BY DEF EmitBegins, EmitReads, Deliver, Withhold, EmitEnds
    <2>2. UNCHANGED sock => SockOK'
      BY <1>1, <1>2 DEF SockOK, SockType
    <2> QED BY <1>1, <1>2, <2>1, <2>2, Drops
  <1>4. emit' \in EmitType
    <2>1. CASE \E u \in Users : EmitBegins(u)
      BY <1>1, <2>1, NoSessionTyped DEF EmitBegins, EmitType, Room
    <2>2. CASE \E s \in Socks : EmitReads(s)
      <3>1. PICK s \in Socks : EmitReads(s)
        BY <2>2
      <3>2. emit \in EmitType /\ (sock[s].sid # NoSid => store[sock[s].sid] \in MaybeSession)
        BY <1>1 DEF RestOK, SockOK, SockType, StoreOK
      <3> QED BY <3>1, <3>2 DEF EmitReads, EmitType
    <2>3. CASE \E s \in Socks : Deliver(s) \/ Withhold(s)
      BY <1>1, <2>3, NoSessionTyped DEF Deliver, Withhold, EmitType, RestOK
    <2>4. CASE EmitEnds
      BY <2>4, NoSessionTyped DEF EmitEnds, EmitType, NoEmit
    <2> QED BY <2>1, <2>2, <2>3, <2>4
  <1> QED BY <1>1, <1>2, <1>3, <1>4, TypePartsNext
          DEF UsersOK, StoreOK, ReqOK, ReqType, RestOK, EmitType, userVars
LEMMA NextTyped == TypeOK /\ [Next]_vars => TypeOK'
  <1> SUFFICES ASSUME TypeOK, [Next]_vars PROVE TypeOK'
    OBVIOUS
  <1>1. CASE UNCHANGED vars
    BY <1>1 DEF vars, userVars, TypeOK, ReqType, SockType, EmitType
  <1>2. ASSUME NEW r \in Reqs,
               \/ \E u \in Users, i \in issued \cup {NoSid} : LoginCompares(r, u, i)
               \/ Regenerate(r) \/ SaveNew(r) \/ DisconnectOthers(r)
               \/ \E i \in issued : Load(r, i)
               \/ Logout(r) \/ RequireAuth(r) \/ SaveCopy(r) \/ ChangePassword(r)
               \/ ChangeEmail(r) \/ DisconnectSession(r) \/ Fails(r)
        PROVE  TypeOK'
    BY <1>2, LoginTyped, RegenerateTyped, SaveNewTyped, OthersTyped, LoadTyped, LogoutTyped,
       RequireAuthTyped, SaveCopyTyped, PasswordTyped, EmailTyped, DisconnectSessionTyped,
       FailsTyped
  <1>3. CASE Next
    BY <1>2, <1>3, SocketTyped, ApprovalTyped, EmitTyped DEF Next
  <1> QED BY <1>1, <1>3

(* Type correctness of sessions, requests and sockets. *)
THEOREM TypeCorrect == Spec => []TypeOK
  BY InitTyped, NextTyped, PTL DEF Spec

-----------------------------------------------------------------------------
(* What makes NoOldPassword inductive: it has to hold of the copies that
   requests work on as well, and no session is ahead of its user. *)

Reliable(c) ==
    c # NoSession => /\ c.gen <= ver[c.user]
                     /\ c.gen = ver[c.user] => c.pw = pw[c.user]

AllReliable ==
    /\ \A i \in Sids : Reliable(store[i])
    /\ \A r \in Reqs : Reliable(req[r].copy)

LEMMA NothingReliable == Reliable(NoSession)
  BY DEF Reliable

LEMMA InitReliable == Init => AllReliable
  BY NothingReliable DEF Init, AllReliable, IdleReq

LEMMA ReliableEnough == TypeOK /\ AllReliable => NoOldPassword
  BY DEF AllReliable, Reliable, NoOldPassword, Valid

(* Leaving the users' rows alone keeps a session reliable, and so does every
   change of them: a new generation outdates the sessions before it. *)
LEMMA RowsKept ==
    ASSUME UNCHANGED <<ver, pw>>, NEW c, Reliable(c)
    PROVE  c # NoSession => /\ c.gen <= ver'[c.user]
                            /\ c.gen = ver'[c.user] => c.pw = pw'[c.user]
  BY DEF Reliable

LEMMA NewGeneration ==
    ASSUME UsersOK, NEW u \in Users, NEW c \in MaybeSession, Reliable(c),
           ver' = [ver EXCEPT ![u] = @ + 1], \A v \in Users \ {u} : pw'[v] = pw[v]
    PROVE  c # NoSession => /\ c.gen <= ver'[c.user]
                            /\ c.gen = ver'[c.user] => c.pw = pw'[c.user]
  <1> SUFFICES ASSUME c # NoSession
               PROVE  /\ c.gen <= ver'[c.user]
                      /\ c.gen = ver'[c.user] => c.pw = pw'[c.user]
    OBVIOUS
  <1>1. c.user \in Users /\ c.gen \in Nat /\ c.gen <= ver[c.user] /\ ver[c.user] \in Nat
    BY Sessions DEF Reliable, UsersOK
  <1>2. CASE c.user = u
    BY <1>1, <1>2 DEF UsersOK
  <1>3. CASE c.user # u
    BY <1>1, <1>3 DEF UsersOK, Reliable
  <1> QED BY <1>2, <1>3

(* The steps that leave ver and pw alone put nothing unreliable anywhere. *)
LEMMA QuietReliable ==
    ASSUME TypeOK, AllReliable, UNCHANGED <<ver, pw>>,
           \A i \in Sids : \/ store'[i] = store[i] \/ store'[i] = NoSession
                           \/ \E r \in Reqs : store'[i] = req[r].copy,
           \A r \in Reqs : \/ req'[r].copy = req[r].copy \/ req'[r].copy = NoSession
                           \/ \E i \in Sids : req'[r].copy = store[i]
                           \/ Reliable(req'[r].copy)
    PROVE  AllReliable'
  <1>1. \A c : Reliable(c) => (c # NoSession => /\ c.gen <= ver'[c.user]
                                                /\ c.gen = ver'[c.user] => c.pw = pw'[c.user])
    BY RowsKept
  <1>2. \A i \in Sids : Reliable(store'[i])
    BY NothingReliable DEF AllReliable
  <1>3. \A r \in Reqs : Reliable(req'[r].copy)
    BY NothingReliable DEF AllReliable
  <1> QED BY <1>1, <1>2, <1>3 DEF AllReliable, Reliable

LEMMA LoginReliable ==
    ASSUME TypeOK, AllReliable, NEW r \in Reqs, NEW u \in Users, NEW i,
           LoginCompares(r, u, i)
    PROVE  AllReliable'
  <1> DEFINE c == [user |-> u, gen |-> ver[u], pw |-> pw[u]]
  <1>1. Reliable(c)
    BY TypeParts DEF Reliable, UsersOK
  <1>2. req'[r].copy = c /\ \A x \in Reqs \ {r} : req'[x] = req[x]
    BY TypeParts DEF LoginCompares, Become, ReqOK
  <1>3. UNCHANGED <<ver, pw>> /\ store' = store
    BY DEF LoginCompares, userVars
  <1> HIDE DEF c
  <1>4. \A x \in Reqs : \/ req'[x].copy = req[x].copy \/ req'[x].copy = NoSession
                        \/ \E j \in Sids : req'[x].copy = store[j]
                        \/ Reliable(req'[x].copy)
    BY <1>1, <1>2
  <1>5. \A j \in Sids : \/ store'[j] = store[j] \/ store'[j] = NoSession
                        \/ \E x \in Reqs : store'[j] = req[x].copy
    BY <1>3
  <1> QED BY <1>3, <1>4, <1>5, QuietReliable

(* A change of password or e-mail by request r: its own copy follows, the
   others are outdated. *)
LEMMA ChangeReliable ==
    ASSUME TypeOK, AllReliable, NEW r \in Reqs, ChangePassword(r) \/ ChangeEmail(r)
    PROVE  AllReliable'
  <1> DEFINE c == req[r].copy
             u == c.user
  <1>1. UsersOK /\ StoreOK /\ ReqOK
    BY TypeParts
  <1>2. c \in Session /\ u \in Users /\ c.gen = ver[u] /\ Reliable(c) /\ c # NoSession
    BY <1>1, Working DEF ChangePassword, ChangeEmail, TransactionAllowed, AllReliable, MaybeSession
  <1>3. ver' = [ver EXCEPT ![u] = @ + 1] /\ \A v \in Users \ {u} : pw'[v] = pw[v]
    BY <1>1 DEF ChangePassword, ChangeEmail, UsersOK
  <1>4. \A x \in Reqs : x # r => req'[x] = req[x]
    BY <1>1 DEF ChangePassword, ChangeEmail, Become, ReqOK
  <1>5. /\ req'[r].copy.user = u
        /\ req'[r].copy.gen = ver'[u]
        /\ req'[r].copy.pw = pw'[u]
    <2>1. CASE ChangePassword(r)
      BY <1>1, <1>2, <2>1 DEF ChangePassword, Become, ReqOK, UsersOK, Session
    <2>2. CASE ChangeEmail(r)
      BY <1>1, <1>2, <2>2 DEF ChangeEmail, Become, ReqOK, UsersOK, Session, Reliable
    <2> QED BY <2>1, <2>2
  <1>6. \A d \in MaybeSession : Reliable(d) =>
            (d # NoSession => /\ d.gen <= ver'[d.user]
                              /\ d.gen = ver'[d.user] => d.pw = pw'[d.user])
    BY <1>1, <1>2, <1>3, NewGeneration
  <1>7. \A i \in Sids : Reliable(store[i])'
    BY <1>1, <1>6 DEF AllReliable, Reliable, StoreOK, ChangePassword, ChangeEmail
  <1>8. Reliable(req[r].copy)'
    <2>1. ver'[u] \in Nat
      BY <1>1, <1>2, <1>3 DEF UsersOK
    <2> QED BY <1>5, <2>1 DEF Reliable
  <1>9. \A x \in Reqs : Reliable(req[x].copy)'
    <2>1. ASSUME NEW x \in Reqs, x # r PROVE Reliable(req[x].copy)'
      BY <1>1, <1>4, <1>6, <2>1 DEF AllReliable, Reliable, ReqOK, ReqType
    <2> QED BY <1>8, <2>1
  <1> QED BY <1>7, <1>9 DEF AllReliable

LEMMA SuspendReliable ==
    ASSUME TypeOK, AllReliable, NEW u \in Users, Suspend(u) PROVE AllReliable'
  <1>1. UsersOK /\ StoreOK /\ ReqOK
    BY TypeParts
  <1>2. ver' = [ver EXCEPT ![u] = @ + 1] /\ UNCHANGED <<pw, store, req>>
    BY DEF Suspend
  <1>3. \A d \in MaybeSession : Reliable(d) =>
            (d # NoSession => /\ d.gen <= ver'[d.user]
                              /\ d.gen = ver'[d.user] => d.pw = pw'[d.user])
    BY <1>1, <1>2, NewGeneration
  <1> QED BY <1>1, <1>2, <1>3 DEF AllReliable, Reliable, StoreOK, ReqOK, ReqType

LEMMA RequestReliable ==
    ASSUME TypeOK, AllReliable, NEW r \in Reqs,
           \/ Regenerate(r) \/ SaveNew(r) \/ DisconnectOthers(r)
           \/ \E i \in issued : Load(r, i)
           \/ Logout(r) \/ RequireAuth(r) \/ SaveCopy(r) \/ DisconnectSession(r) \/ Fails(r)
    PROVE  AllReliable'
  <1>1. StoreOK /\ ReqOK
    BY TypeParts
  <1>2. UNCHANGED <<ver, pw>>
    BY DEF Regenerate, SaveNew, DisconnectOthers, Load, Logout, RequireAuth, SaveCopy,
           DisconnectSession, Fails, userVars
  <1>3. \A i \in Sids : \/ store'[i] = store[i] \/ store'[i] = NoSession
                        \/ store'[i] = req[r].copy
    BY <1>1 DEF StoreOK, Destroyed, Saved, Regenerate, SaveNew, DisconnectOthers, Load, Logout,
                RequireAuth, SaveCopy, DisconnectSession, Fails
  <1>4. \A x \in Reqs : \/ req'[x].copy = req[x].copy \/ req'[x].copy = NoSession
                        \/ \E i \in Sids : req'[x].copy = store[i]
    <2>1. CASE Ends(r)
      BY <1>1, <2>1 DEF Ends, IdleReq, ReqOK
    <2>2. CASE \E pc : Goto(r, pc)
      BY <1>1, <2>2 DEF Goto, ReqOK, ReqType
    <2>3. CASE \E i \in issued : Load(r, i)
      BY <1>1, <2>3 DEF Load, Become, ReqOK, StoreOK
    <2>4. CASE Regenerate(r)
      BY <1>1, <2>4 DEF Regenerate, Become, ReqOK
    <2> QED BY <2>1, <2>2, <2>3, <2>4
            DEF SaveNew, DisconnectOthers, Logout, RequireAuth, SaveCopy, DisconnectSession, Fails
  <1> QED BY <1>2, <1>3, <1>4, QuietReliable

LEMMA NextReliable == TypeOK /\ AllReliable /\ [Next]_vars => AllReliable'
  <1> SUFFICES ASSUME TypeOK, AllReliable, [Next]_vars PROVE AllReliable'
    OBVIOUS
  <1>1. CASE UNCHANGED <<ver, pw, store, req>>
    BY <1>1, QuietReliable
  <1>2. CASE \E u \in Users : Suspend(u)
    BY <1>2, SuspendReliable
  <1>3. ASSUME NEW r \in Reqs,
               \/ \E u \in Users, i \in issued \cup {NoSid} : LoginCompares(r, u, i)
               \/ Regenerate(r) \/ SaveNew(r) \/ DisconnectOthers(r)
               \/ \E i \in issued : Load(r, i)
               \/ Logout(r) \/ RequireAuth(r) \/ SaveCopy(r) \/ ChangePassword(r)
               \/ ChangeEmail(r) \/ DisconnectSession(r) \/ Fails(r)
        PROVE  AllReliable'
    BY <1>3, LoginReliable, ChangeReliable, RequestReliable
  <1>4. CASE \E s \in Socks : \/ \E i \in issued : Handshake(s, i)
                              \/ Admit(s) \/ Join(s) \/ Close(s)
                              \/ EmitReads(s) \/ Deliver(s) \/ Withhold(s)
    BY <1>1, <1>4 DEF Handshake, Admit, Join, Close, EmitReads, Deliver, Withhold, userVars
  <1>5. CASE \E u \in Users : DisconnectUser(u) \/ Approve(u) \/ EmitBegins(u)
    BY <1>1, <1>5 DEF DisconnectUser, Approve, EmitBegins, userVars
  <1>6. CASE EmitEnds
    BY <1>1, <1>6 DEF EmitEnds, userVars
  <1>7. CASE UNCHANGED vars
    BY <1>1, <1>7 DEF vars, userVars
  <1> QED BY <1>2, <1>3, <1>4, <1>5, <1>6, <1>7 DEF Next

(* No session opened with an earlier password passes the check of a request,
   whatever logins, renewals and write-backs were under way when the password
   changed. *)
THEOREM PasswordsCurrent == Spec => []NoOldPassword
  BY InitTyped, NextTyped, InitReliable, NextReliable, ReliableEnough, PTL DEF Spec

-----------------------------------------------------------------------------
(* Private delivery.  What makes RevokedReceiveNothing hold: an id stands for
   one session, so that the copy a delivery reads for a socket is the one the
   socket was admitted with; and authority, once withdrawn from a copy, does
   not come back to it. *)

Current(c) == c # NoSession => /\ c.gen <= ver[c.user]
                               /\ c.gen = ver[c.user] => approved[c.user]

AllCurrent ==
    /\ \A i \in Sids : Current(store[i])
    /\ \A r \in Reqs : Current(req[r].copy)
    /\ \A s \in Socks : Current(sock[s].copy)

(* The delivery under way: its copy is that of its socket, and the sockets it
   has to leave out are outdated. *)
EmitFollows ==
    /\ emit.todo # {} => emit.user \in Users
    /\ emit.pc \in Socks /\ emit.copy # NoSession /\ sock[emit.pc].pc # "closed" =>
          emit.copy = sock[emit.pc].copy

RevokedStale ==
    \A s \in emit.revoked : sock[s].pc # "closed" => sock[s].copy.gen < ver[sock[s].copy.user]

(* OneSessionPerId, said of one copy at a time. *)
Stored(i, c) ==
    /\ c # NoSession
    /\ \/ i \in Sids /\ store[i] = c
       \/ \E r \in Reqs : /\ req[r].sid = i /\ req[r].copy = c
                          /\ req[r].pc \notin {"compared", "renew"}
       \/ \E s \in Socks : sock[s].sid = i /\ sock[s].copy = c

OneContent == \A i \in Sids : \A c, d \in Session : Stored(i, c) /\ Stored(i, d) => c = d

DInv == TypeOK /\ OneContent /\ AllCurrent /\ EmitFollows /\ RevokedStale

(* What a step may put under id i: nothing, or what already is there. *)
From(i, c) == c = NoSession \/ Stored(i, c)

(* Every row keeps its generation or gets a later one. *)
Later(c) == c # NoSession => /\ c.gen <= ver'[c.user]
                             /\ c.gen = ver'[c.user] => approved'[c.user]

Advances == \A c \in MaybeSession : Current(c) => Later(c)

(* A step of the sessions: at most one new id n, for the copy d of a request. *)
Passes(n, d) ==
    /\ Advances
    /\ n \notin issued
    /\ d = NoSession \/ \E r \in Reqs : d = req[r].copy
    /\ \A i \in Sids : From(i, store'[i])
    /\ \A s \in Socks : From(sock'[s].sid, sock'[s].copy)
    /\ \A r \in Reqs :
        \/ From(req'[r].sid, req'[r].copy)
        \/ req'[r].pc \in {"compared", "renew"} /\ (Later(req'[r].copy) \/ req'[r] = req[r])
        \/ req'[r].sid = n /\ req'[r].copy = d

LEMMA Copies ==
    ASSUME TypeOK
    PROVE  /\ \A i \in Sids : store[i] \in MaybeSession
           /\ \A r \in Reqs : req[r].copy \in MaybeSession /\ req[r].sid \in issued \cup {NoSid}
           /\ \A s \in Socks : sock[s].copy \in MaybeSession /\ sock[s].sid \in issued \cup {NoSid}
           /\ \A i \in Sids \ issued : store[i] = NoSession
           /\ issued \subseteq Sids
  BY DEF TypeOK, ReqType, SockType

LEMMA StoredIssued ==
    ASSUME TypeOK, NEW i \in Sids, NEW c, Stored(i, c)
    PROVE  i \in issued
  BY Copies DEF Stored

LEMMA StoredCurrent ==
    ASSUME TypeOK, AllCurrent, NEW i, NEW c, Stored(i, c)
    PROVE  Current(c) /\ c \in MaybeSession
  <1>1. CASE i \in Sids /\ store[i] = c
    BY <1>1, Copies DEF AllCurrent
  <1>2. CASE \E r \in Reqs : req[r].copy = c
    BY <1>2, Copies DEF AllCurrent
  <1>3. CASE \E s \in Socks : sock[s].copy = c
    BY <1>3, Copies DEF AllCurrent
  <1> QED BY <1>1, <1>2, <1>3 DEF Stored

LEMMA NothingCurrent == Current(NoSession) /\ NoSession \in MaybeSession
  BY NoSessionTyped DEF Current

(* Copies under their ids stay what they are. *)
LEMMA ContentKept ==
    ASSUME TypeOK, TypeOK', OneContent, NEW n, NEW d, Passes(n, d)
    PROVE  OneContent'
  <1> SUFFICES ASSUME NEW i \in Sids, NEW c \in Session, NEW e \in Session,
                      Stored(i, c)', Stored(i, e)'
               PROVE  c = e
    BY DEF OneContent
  <1>1. ASSUME NEW x \in Session, Stored(i, x)'
        PROVE  Stored(i, x) \/ (i = n /\ x = d)
    <2>1. x # NoSession
      BY <1>1 DEF Stored
    <2>2. CASE store'[i] = x
      BY <2>1, <2>2 DEF Passes, From
    <2>3. CASE \E r \in Reqs : /\ req'[r].sid = i /\ req'[r].copy = x
                               /\ req'[r].pc \notin {"compared", "renew"}
      BY <2>1, <2>3 DEF Passes, From
    <2>4. CASE \E s \in Socks : sock'[s].sid = i /\ sock'[s].copy = x
      BY <2>1, <2>4 DEF Passes, From
    <2> QED BY <1>1, <2>2, <2>3, <2>4 DEF Stored
  <1>2. CASE i = n
    <2>1. ~Stored(i, c) /\ ~Stored(i, e)
      BY <1>2, StoredIssued DEF Passes
    <2> QED BY <1>1, <2>1
  <1>3. CASE i # n
    BY <1>1, <1>3 DEF OneContent
  <1> QED BY <1>2, <1>3

LEMMA CurrentKept ==
    ASSUME TypeOK, AllCurrent, NEW n, NEW d, Passes(n, d)
    PROVE  AllCurrent'
  <1>1. \A c \in MaybeSession : Current(c) => Later(c)
    BY DEF Passes, Advances
  <1>2. ASSUME NEW i, NEW c, From(i, c)
        PROVE  Later(c)
    BY <1>1, <1>2, StoredCurrent, NothingCurrent DEF From
  <1>3. \A i \in Sids : Later(store'[i])
    BY <1>2 DEF Passes
  <1>4. \A s \in Socks : Later(sock'[s].copy)
    BY <1>2 DEF Passes
  <1>5. ASSUME NEW r \in Reqs
        PROVE  Later(req'[r].copy)
    <2>1. \A q \in Reqs : Later(req[q].copy)
      BY <1>1, Copies DEF AllCurrent
    <2>2. Later(d)
      BY <1>1, <2>1, NothingCurrent DEF Passes
    <2> QED BY <1>2, <2>1, <2>2 DEF Passes
  <1> QED BY <1>3, <1>4, <1>5 DEF AllCurrent, Current, Later

(* The copies that are there may stay there. *)
LEMMA Stays ==
    ASSUME TypeOK
    PROVE  /\ \A i \in Sids : From(i, store[i])
           /\ \A s \in Socks : From(sock[s].sid, sock[s].copy)
           /\ \A r \in Reqs : \/ From(req[r].sid, req[r].copy)
                              \/ req[r].pc \in {"compared", "renew"}
  BY DEF From, Stored

(* A delivery under way goes on while its sockets stay or close. *)
SocksStay ==
    \A s \in Socks :
        s = emit.pc \/ s \in emit.revoked =>
            \/ sock'[s].pc = "closed"
            \/ sock[s].pc # "closed" /\ sock'[s].copy = sock[s].copy

LEMMA StaleStays ==
    ASSUME TypeOK, TypeOK', NEW s \in Socks, \A u \in Users : ver[u] <= ver'[u],
           sock[s].pc # "closed", sock[s].copy.gen < ver[sock[s].copy.user]
    PROVE  sock[s].copy.gen < ver'[sock[s].copy.user]
  <1>1. sock[s].copy # NoSession /\ sock[s].copy \in MaybeSession
    BY DEF TypeOK, SockType
  <1>2. PICK u \in Users, g \in 0 .. MaxVer : sock[s].copy.user = u /\ sock[s].copy.gen = g
    BY <1>1, Sessions
  <1>3. ver[u] \in Nat /\ ver'[u] \in Nat
    BY DEF TypeOK
  <1> QED BY <1>2, <1>3

LEMMA DeliveryKept ==
    ASSUME TypeOK, TypeOK', EmitFollows, RevokedStale, UNCHANGED emit,
           \A u \in Users : ver[u] <= ver'[u], SocksStay
    PROVE  EmitFollows' /\ RevokedStale'
  <1>1. emit.revoked \subseteq Socks
    BY DEF TypeOK, EmitType
  <1>2. EmitFollows'
    BY DEF EmitFollows, SocksStay
  <1>3. RevokedStale'
    <2> SUFFICES ASSUME NEW s \in emit.revoked, sock'[s].pc # "closed"
                 PROVE  sock'[s].copy.gen < ver'[sock'[s].copy.user]
      BY DEF RevokedStale
    <2>1. s \in Socks /\ sock[s].pc # "closed" /\ sock'[s].copy = sock[s].copy
      BY <1>1 DEF SocksStay
    <2>2. sock[s].copy.gen < ver[sock[s].copy.user]
      BY <2>1 DEF RevokedStale
    <2> QED BY <2>1, <2>2, StaleStays
  <1> QED BY <1>2, <1>3

LEMMA Delivery ==
    ASSUME DInv, TypeOK', NEW n, NEW d, Passes(n, d), UNCHANGED emit,
           \A u \in Users : ver[u] <= ver'[u], SocksStay
    PROVE  DInv'
  BY ContentKept, CurrentKept, DeliveryKept DEF DInv

(* The generations stay, or one user gets a new one. *)
LEMMA RowsStay ==
    ASSUME TypeOK, UNCHANGED ver, \A u \in Users : approved[u] => approved'[u]
    PROVE  Advances /\ \A u \in Users : ver[u] <= ver'[u]
  <1>1. \A u \in Users : ver[u] \in Nat
    BY DEF TypeOK
  <1>2. Advances
    BY Sessions DEF Advances, Current, Later
  <1> QED BY <1>1, <1>2

LEMMA RowOutdates ==
    ASSUME TypeOK, NEW u \in Users, ver' = [ver EXCEPT ![u] = @ + 1],
           \A v \in Users \ {u} : approved[v] => approved'[v]
    PROVE  Advances /\ \A v \in Users : ver[v] <= ver'[v]
  <1>1. /\ \A v \in Users : ver[v] \in Nat
        /\ ver'[u] = ver[u] + 1 /\ \A v \in Users \ {u} : ver'[v] = ver[v]
    BY DEF TypeOK
  <1>2. ASSUME NEW c \in MaybeSession, Current(c), c # NoSession
        PROVE  c.gen <= ver'[c.user] /\ (c.gen = ver'[c.user] => approved'[c.user])
    <2>1. PICK w \in Users, g \in Nat : c.user = w /\ c.gen = g
      BY <1>2, Sessions
    <2>2. g <= ver[w] /\ (g = ver[w] => approved[w])
      BY <1>2, <2>1 DEF Current
    <2>3. CASE w = u
      BY <1>1, <2>1, <2>2, <2>3
    <2>4. CASE w # u
      BY <1>1, <2>1, <2>2, <2>4
    <2> QED BY <2>3, <2>4
  <1>3. Advances
    BY <1>2 DEF Advances, Later
  <1> QED BY <1>1, <1>3

(* The requests that leave the users' rows alone. *)

LEMMA Idled ==
    ASSUME TypeOK, NEW r \in Reqs, Ends(r)
    PROVE  req'[r].copy = NoSession /\ \A x \in Reqs \ {r} : req'[x] = req[x]
  BY DEF TypeOK, Ends, IdleReq

LEMMA Gone ==
    ASSUME TypeOK, NEW r \in Reqs, NEW pc, Goto(r, pc)
    PROVE  /\ req'[r].pc = pc /\ req'[r].sid = req[r].sid /\ req'[r].copy = req[r].copy
           /\ \A x \in Reqs \ {r} : req'[x] = req[x]
  <1>1. req' = [req EXCEPT ![r] = [req[r] EXCEPT !.pc = pc]]
    BY DEF Goto, TypeOK
  <1>2. req[r] \in ReqType
    BY DEF TypeOK
  <1> QED BY <1>1, <1>2 DEF TypeOK, ReqType

LEMMA Drop ==
    ASSUME TypeOK, NEW set, sock' = Dropped(set)
    PROVE  SocksStay /\ \A s \in Socks : From(sock'[s].sid, sock'[s].copy)
  <1>1. \A s \in Socks : sock'[s] = sock[s] \/ sock'[s] = NoSock
    BY DEF Dropped
  <1> QED BY <1>1, Stays DEF SocksStay, NoSock, From

LEMMA Undropped ==
    ASSUME TypeOK, UNCHANGED sock
    PROVE  SocksStay /\ \A s \in Socks : From(sock'[s].sid, sock'[s].copy)
  BY Stays DEF SocksStay

LEMMA FreshId ==
    ASSUME TypeOK
    PROVE  NoSid \notin issued
  BY DEF TypeOK

LEMMA StoreFrom ==
    ASSUME TypeOK, NEW r \in Reqs, req[r].pc \notin {"idle", "compared", "renew"},
           \/ UNCHANGED store
           \/ store' = Destroyed(req[r].sid)
           \/ store' = [store EXCEPT ![req[r].sid] = req[r].copy]
    PROVE  \A i \in Sids : From(i, store'[i])
  <1>1. \A i \in Sids : \/ store'[i] = store[i] \/ store'[i] = NoSession
                        \/ i = req[r].sid /\ store'[i] = req[r].copy
    BY DEF TypeOK, Destroyed
  <1>2. From(req[r].sid, req[r].copy)
    BY Stays
  <1> QED BY <1>1, <1>2, Stays DEF From

LEMMA RequestDelivers ==
    ASSUME DInv, TypeOK', NEW r \in Reqs,
           \/ SaveNew(r) \/ DisconnectOthers(r) \/ \E i \in issued : Load(r, i)
           \/ Logout(r) \/ RequireAuth(r) \/ SaveCopy(r) \/ DisconnectSession(r) \/ Fails(r)
    PROVE  DInv'
  <1>1. TypeOK
    BY DEF DInv
  <1>2. UNCHANGED <<approved, ver, emit>>
    BY DEF SaveNew, DisconnectOthers, Load, Logout, RequireAuth, SaveCopy,
           DisconnectSession, Fails, userVars
  <1>3. SocksStay /\ \A s \in Socks : From(sock'[s].sid, sock'[s].copy)
    <2>1. UNCHANGED sock \/ \E set : sock' = Dropped(set)
      BY DEF SaveNew, DisconnectOthers, Load, Logout, RequireAuth, SaveCopy,
             DisconnectSession, Fails
    <2> QED BY <1>1, <2>1, Drop, Undropped
  <1>4. \A i \in Sids : From(i, store'[i])
    <2>1. CASE UNCHANGED store
      BY <1>1, <2>1, Stays
    <2>2. CASE ~(UNCHANGED store)
      <3>1. /\ req[r].pc \notin {"idle", "compared", "renew"}
            /\ \/ store' = Destroyed(req[r].sid)
               \/ store' = [store EXCEPT ![req[r].sid] = req[r].copy]
        BY <2>2 DEF SaveNew, Saved, DisconnectOthers, Load, Logout, RequireAuth, SaveCopy,
                    DisconnectSession, Fails
      <3> QED BY <1>1, <3>1, StoreFrom
    <2> QED BY <2>1, <2>2
  <1>5. \A x \in Reqs : \/ From(req'[x].sid, req'[x].copy)
                        \/ req'[x].pc \in {"compared", "renew"} /\ req'[x] = req[x]
    <2>1. CASE Ends(r)
      BY <1>1, <2>1, Idled, Stays DEF From
    <2>2. CASE req[r].pc \notin {"compared", "renew"} /\ \E pc : Goto(r, pc)
      BY <1>1, <2>2, Gone, Stays
    <2>3. CASE \E i \in issued : Load(r, i)
      <3>1. PICK i \in issued : Load(r, i)
        BY <2>3
      <3>2. req'[r].sid = i /\ req'[r].copy = store[i] /\ \A x \in Reqs \ {r} : req'[x] = req[x]
        BY <1>1, <3>1 DEF Load, Become, TypeOK
      <3> QED BY <1>1, <3>2, Stays DEF TypeOK
    <2> QED BY <2>1, <2>2, <2>3
            DEF SaveNew, DisconnectOthers, Logout, RequireAuth, SaveCopy, DisconnectSession, Fails
  <1>6. Advances /\ \A u \in Users : ver[u] <= ver'[u]
    BY <1>1, <1>2, RowsStay
  <1>7. Passes(NoSid, NoSession)
    BY <1>1, <1>3, <1>4, <1>5, <1>6, FreshId DEF Passes
  <1> QED BY <1>2, <1>3, <1>6, <1>7, Delivery

LEMMA RegenerateDelivers ==
    ASSUME DInv, TypeOK', NEW r \in Reqs, Regenerate(r)
    PROVE  DInv'
  <1>1. TypeOK /\ UNCHANGED <<approved, ver, sock, emit>>
    BY DEF DInv, Regenerate, userVars
  <1>2. PICK n, d : /\ n \in Sids \ issued /\ d = req[r].copy
                    /\ req' = [req EXCEPT ![r] = [pc |-> "fresh", sid |-> n, copy |-> d]]
    BY DEF Regenerate, Become
  <1>3. req'[r].sid = n /\ req'[r].copy = d /\ \A x \in Reqs \ {r} : req'[x] = req[x]
    BY <1>1, <1>2 DEF TypeOK
  <1>4. \A i \in Sids : From(i, store'[i])
    <2>1. \A i \in Sids : store'[i] = store[i] \/ store'[i] = NoSession
      BY <1>1 DEF Regenerate, Destroyed, TypeOK
    <2> QED BY <1>1, <2>1, Stays DEF From
  <1>5. Advances /\ \A u \in Users : ver[u] <= ver'[u]
    BY <1>1, RowsStay
  <1>6. \A x \in Reqs : \/ From(req'[x].sid, req'[x].copy)
                        \/ req'[x].pc \in {"compared", "renew"} /\ req'[x] = req[x]
                        \/ req'[x].sid = n /\ req'[x].copy = d
    BY <1>1, <1>3, Stays
  <1>7. Passes(n, d)
    BY <1>1, <1>2, <1>4, <1>5, <1>6, Undropped DEF Passes
  <1> QED BY <1>1, <1>5, <1>7, Undropped, Delivery

(* A copy of the generation that the row has now: of a login, or of a change of
   password or e-mail. *)
LEMMA Renews ==
    ASSUME DInv, TypeOK', NEW r \in Reqs, NEW u \in Users, NEW c, c.user = u,
           req'[r].copy = c, req'[r].pc \in {"compared", "renew"},
           \A x \in Reqs \ {r} : req'[x] = req[x],
           UNCHANGED <<store, sock, emit>>, Advances, \A v \in Users : ver[v] <= ver'[v],
           c.gen = ver'[u], approved'[u]
    PROVE  DInv'
  <1>1. TypeOK /\ ver'[u] \in Nat
    BY DEF DInv, TypeOK
  <1>2. Later(c)
    BY <1>1 DEF Later
  <1>3. \A x \in Reqs : \/ From(req'[x].sid, req'[x].copy)
                        \/ /\ req'[x].pc \in {"compared", "renew"}
                           /\ Later(req'[x].copy) \/ req'[x] = req[x]
    BY <1>1, <1>2, Stays
  <1>4. \A i \in Sids : From(i, store'[i])
    BY <1>1, Stays
  <1>5. Passes(NoSid, NoSession)
    BY <1>1, <1>3, <1>4, FreshId, Undropped DEF Passes
  <1> QED BY <1>1, <1>5, Undropped, Delivery

LEMMA LoginDelivers ==
    ASSUME DInv, TypeOK', NEW r \in Reqs, NEW u \in Users, NEW i, LoginCompares(r, u, i)
    PROVE  DInv'
  <1> DEFINE c == [user |-> u, gen |-> ver[u], pw |-> pw[u]]
  <1>1. TypeOK /\ UNCHANGED <<approved, ver, store, sock, emit>> /\ approved[u]
    BY DEF DInv, LoginCompares, userVars
  <1>2. /\ req'[r] = [pc |-> "compared", sid |-> i, copy |-> c]
        /\ \A x \in Reqs \ {r} : req'[x] = req[x]
    <2>1. req' = [req EXCEPT ![r] = [pc |-> "compared", sid |-> i, copy |-> c]]
      BY DEF LoginCompares, Become
    <2>2. req \in [Reqs -> ReqType]
      BY <1>1 DEF TypeOK
    <2> HIDE DEF c
    <2> QED BY <2>1, <2>2
  <1>3. PICK e : e = c /\ e.user = u /\ e.gen = ver'[u]
    <2>1. c.user = u /\ c.gen = ver'[u]
      BY <1>1
    <2> HIDE DEF c
    <2> QED BY <2>1
  <1> HIDE DEF c
  <1>4. req'[r].copy = e /\ req'[r].pc = "compared"
    BY <1>2, <1>3
  <1>5. Advances /\ \A v \in Users : ver[v] <= ver'[v]
    BY <1>1, RowsStay
  <1> QED BY <1>1, <1>2, <1>3, <1>4, <1>5, Renews

LEMMA ChangeDelivers ==
    ASSUME DInv, TypeOK', NEW r \in Reqs, ChangePassword(r) \/ ChangeEmail(r)
    PROVE  DInv'
  <1> DEFINE c == req[r].copy
  <1>1. TypeOK /\ UNCHANGED <<approved, store, sock, emit>>
    BY DEF DInv, ChangePassword, ChangeEmail
  <1>2. c \in Session /\ c # NoSession /\ c.gen = ver[c.user]
    BY <1>1, TypeParts, Working DEF ChangePassword, ChangeEmail, TransactionAllowed, MaybeSession
  <1>3. PICK u \in Users : u = c.user
    BY <1>2 DEF Session
  <1>4. approved[u]
    BY <1>2, <1>3 DEF DInv, AllCurrent, Current
  <1>5. ver' = [ver EXCEPT ![u] = @ + 1] /\ ver'[u] = ver[u] + 1
    BY <1>1, <1>3 DEF ChangePassword, ChangeEmail, TypeOK
  <1>6. /\ req'[r].copy.user = u /\ req'[r].copy.gen = ver'[u] /\ req'[r].pc = "renew"
        /\ \A x \in Reqs \ {r} : req'[x] = req[x]
    <2>1. CASE ChangePassword(r)
      BY <1>1, <1>2, <1>3, <1>5, <2>1 DEF ChangePassword, Become, Session, TypeOK
    <2>2. CASE ChangeEmail(r)
      BY <1>1, <1>2, <1>3, <1>5, <2>2 DEF ChangeEmail, Become, Session, TypeOK
    <2> QED BY <2>1, <2>2
  <1>7. PICK e : e = req'[r].copy
    OBVIOUS
  <1> HIDE DEF c
  <1>8. Advances /\ \A v \in Users : ver[v] <= ver'[v]
    BY <1>1, <1>5, RowOutdates
  <1> QED BY <1>1, <1>4, <1>6, <1>7, <1>8, Renews

LEMMA ApprovalDelivers ==
    ASSUME DInv, TypeOK', NEW u \in Users, Suspend(u) \/ DisconnectUser(u) \/ Approve(u)
    PROVE  DInv'
  <1>1. TypeOK /\ UNCHANGED <<store, req, emit>>
    BY DEF DInv, Suspend, DisconnectUser, Approve
  <1>2. SocksStay /\ \A s \in Socks : From(sock'[s].sid, sock'[s].copy)
    <2>1. UNCHANGED sock \/ \E set : sock' = Dropped(set)
      BY DEF Suspend, DisconnectUser, Approve
    <2> QED BY <1>1, <2>1, Drop, Undropped
  <1>3. Advances /\ \A v \in Users : ver[v] <= ver'[v]
    <2>1. CASE Suspend(u)
      BY <1>1, <2>1, RowOutdates DEF Suspend, TypeOK
    <2>2. CASE DisconnectUser(u) \/ Approve(u)
      BY <1>1, <2>2, RowsStay DEF DisconnectUser, Approve, userVars, TypeOK
    <2> QED BY <2>1, <2>2
  <1>4. Passes(NoSid, NoSession)
    BY <1>1, <1>2, <1>3, Stays, FreshId DEF Passes
  <1> QED BY <1>1, <1>2, <1>3, <1>4, Delivery

LEMMA SocketDelivers ==
    ASSUME DInv, TypeOK', NEW s \in Socks,
           (\E i \in issued : Handshake(s, i)) \/ Admit(s) \/ Join(s) \/ Close(s)
    PROVE  DInv'
  <1>1. TypeOK /\ UNCHANGED <<approved, ver, store, req, emit>>
    BY DEF DInv, Handshake, Admit, Join, Close, userVars
  <1>2. \A t \in Socks \ {s} : sock'[t] = sock[t]
    BY <1>1 DEF Handshake, Admit, Join, Close, TypeOK
  <1>3. /\ From(sock'[s].sid, sock'[s].copy)
        /\ s = emit.pc \/ s \in emit.revoked =>
              \/ sock'[s].pc = "closed"
              \/ sock[s].pc # "closed" /\ sock'[s].copy = sock[s].copy
    <2>1. CASE \E i \in issued : Handshake(s, i)
      <3>1. PICK i \in issued : Handshake(s, i)
        BY <2>1
      <3>2. sock'[s].sid = i /\ sock'[s].copy = store[i] /\ i \in Sids
        BY <1>1, <3>1 DEF Handshake, TypeOK
      <3>3. s # emit.pc /\ s \notin emit.revoked
        BY <3>1 DEF Handshake
      <3> QED BY <1>1, <3>2, <3>3, Stays
    <2>2. CASE Admit(s) \/ Join(s) \/ Close(s)
      <3>1. \/ sock'[s] = NoSock
            \/ /\ sock'[s].sid = sock[s].sid /\ sock'[s].copy = sock[s].copy
               /\ sock[s].pc # "closed"
        <4>1. sock[s] \in SockType
          BY <1>1 DEF TypeOK
        <4> QED BY <1>1, <2>2, <4>1 DEF Admit, Join, Close, TypeOK, SockType
      <3> QED BY <1>1, <3>1, Stays DEF NoSock, From
    <2> QED BY <2>1, <2>2
  <1>4. SocksStay /\ \A t \in Socks : From(sock'[t].sid, sock'[t].copy)
    BY <1>1, <1>2, <1>3, Stays, Undropped DEF SocksStay
  <1>5. Advances /\ \A v \in Users : ver[v] <= ver'[v]
    BY <1>1, RowsStay
  <1>6. Passes(NoSid, NoSession)
    BY <1>1, <1>4, <1>5, Stays, FreshId DEF Passes
  <1> QED BY <1>1, <1>4, <1>5, <1>6, Delivery

(* The steps of a delivery. *)
LEMMA EmitDelivers ==
    ASSUME DInv, TypeOK',
           \/ \E u \in Users : EmitBegins(u)
           \/ \E s \in Socks : EmitReads(s) \/ Deliver(s) \/ Withhold(s)
           \/ EmitEnds
    PROVE  DInv'
  <1>1. TypeOK /\ UNCHANGED <<approved, ver, store, req>>
    BY DEF DInv, EmitBegins, EmitReads, Deliver, Withhold, EmitEnds, userVars
  <1>2. \A t \in Socks : sock'[t] = sock[t] \/ sock'[t] = NoSock
    <2>1. UNCHANGED sock \/ \E set : sock' = Dropped(set)
      BY DEF EmitBegins, EmitReads, Deliver, Withhold, EmitEnds
    <2> QED BY <2>1 DEF Dropped
  <1>3. OneContent' /\ AllCurrent'
    <2>1. \A t \in Socks : From(sock'[t].sid, sock'[t].copy)
      BY <1>1, <1>2, Stays DEF NoSock, From
    <2>2. Passes(NoSid, NoSession)
      BY <1>1, <2>1, Stays, FreshId, RowsStay DEF Passes
    <2> QED BY <2>2, ContentKept, CurrentKept DEF DInv
  <1>4. EmitFollows'
    <2>1. ASSUME NEW s \in Socks, EmitReads(s)
          PROVE  EmitFollows'
      <3>1. emit.user \in Users /\ emit \in EmitType /\ s \in emit.todo
        BY <1>1, <2>1 DEF EmitReads, DInv, EmitFollows, TypeOK
      <3>2. emit'.user = emit.user
        BY <2>1, <3>1 DEF EmitReads, EmitType
      <3> DEFINE i == sock[s].sid
      <3>3. CASE i # NoSid /\ store[i].user = emit.user
        <4>1. emit'.pc = s /\ emit'.copy = store[i] /\ sock' = sock
          BY <2>1, <3>1, <3>3 DEF EmitReads, EmitType
        <4>2. sock[s] \in SockType /\ i \in Sids /\ store[i] \in MaybeSession
          BY <1>1, <3>3 DEF TypeOK, SockType
        <4>3. sock[s].pc # "closed" => store[i] = sock[s].copy
          <5>1. store[i] # NoSession /\ store[i] \in Session
            BY <3>1, <3>3, <4>2, NoSessionTyped DEF MaybeSession
          <5>2. sock[s].pc # "closed" => sock[s].copy # NoSession /\ sock[s].copy \in Session
            BY <1>1, <4>2 DEF TypeOK, SockType, MaybeSession
          <5>3. sock[s].pc # "closed" => Stored(i, store[i]) /\ Stored(i, sock[s].copy)
            BY <4>2, <5>1, <5>2 DEF Stored
          <5> QED BY <4>2, <5>1, <5>2, <5>3 DEF DInv, OneContent
        <4> QED BY <3>1, <3>2, <4>1, <4>3 DEF EmitFollows
      <3>4. CASE ~(i # NoSid /\ store[i].user = emit.user)
        <4>1. emit'.pc = emit.pc /\ emit'.copy = emit.copy
          BY <2>1, <3>1, <3>4 DEF EmitReads, EmitType
        <4> QED BY <1>2, <3>1, <3>2, <4>1 DEF DInv, EmitFollows, NoSock
      <3> QED BY <3>3, <3>4
    <2>2. CASE ~ \E s \in Socks : EmitReads(s)
      <3>1. emit \in EmitType /\ (emit.todo # {} => emit.user \in Users)
        BY <1>1 DEF TypeOK, DInv, EmitFollows
      <3>2. \/ \E u \in Users : emit'.copy = NoSession /\ emit'.user = u
            \/ emit'.copy = NoSession /\ emit'.todo = emit.todo /\ emit'.user = emit.user
            \/ emit' = NoEmit
        <4>1. CASE \E u \in Users : EmitBegins(u)
          BY <4>1 DEF EmitBegins
        <4>2. CASE EmitEnds
          BY <4>2 DEF EmitEnds
        <4>3. CASE \E s \in Socks : Deliver(s) \/ Withhold(s)
          BY <3>1, <4>3 DEF Deliver, Withhold, EmitType
        <4> QED BY <2>2, <4>1, <4>2, <4>3
      <3> QED BY <3>1, <3>2 DEF EmitFollows, NoEmit
    <2> QED BY <2>1, <2>2
  <1>5. RevokedStale'
    <2> SUFFICES ASSUME NEW s \in emit'.revoked, sock'[s].pc # "closed"
                 PROVE  sock'[s].copy.gen < ver'[sock'[s].copy.user]
      BY DEF RevokedStale
    <2>1. s \in Socks /\ sock'[s] = sock[s]
      BY <1>2 DEF TypeOK, EmitType, NoSock
    <2>2. CASE s \in emit.revoked
      BY <1>1, <2>1, <2>2 DEF DInv, RevokedStale
    <2>3. CASE s \notin emit.revoked
      <3>1. ~Valid(sock[s].copy)
        <4>1. emit \in EmitType
          BY <1>1 DEF TypeOK
        <4>2. CASE \E u \in Users : EmitBegins(u)
          BY <2>3, <4>2 DEF EmitBegins
        <4>3. CASE EmitEnds
          BY <4>3 DEF EmitEnds, NoEmit
        <4>4. CASE \E t \in Socks : EmitReads(t) \/ Deliver(t) \/ Withhold(t)
          <5>1. emit'.revoked = emit.revoked
            BY <4>1, <4>4 DEF EmitReads, Deliver, Withhold, EmitType
          <5> QED BY <2>3, <5>1
        <4> QED BY <4>2, <4>3, <4>4
      <3>2. sock[s].copy # NoSession /\ sock[s].copy \in MaybeSession /\ Current(sock[s].copy)
        BY <1>1, <2>1 DEF TypeOK, SockType, DInv, AllCurrent
      <3>3. PICK u \in Users, g \in 0 .. MaxVer :
               sock[s].copy.user = u /\ sock[s].copy.gen = g
        BY <3>2, Sessions
      <3>4. g <= ver[u] /\ (g = ver[u] => approved[u]) /\ ~(approved[u] /\ g = ver[u])
        BY <3>1, <3>2, <3>3 DEF Current, Valid
      <3>5. ver[u] \in Nat
        BY <1>1 DEF TypeOK
      <3> QED BY <1>1, <2>1, <3>3, <3>4, <3>5
    <2> QED BY <2>2, <2>3
  <1> QED BY <1>3, <1>4, <1>5 DEF DInv

LEMMA DStart == Init => DInv
  <1> SUFFICES ASSUME Init PROVE DInv
    OBVIOUS
  <1>1. TypeOK
    BY InitTyped
  <1>2. OneContent
    BY DEF Init, OneContent, Stored, IdleReq, NoSock, NoEmit
  <1>3. AllCurrent
    BY DEF Init, AllCurrent, Current, IdleReq, NoSock
  <1>4. EmitFollows /\ RevokedStale
    BY DEF Init, EmitFollows, RevokedStale, NoEmit
  <1> QED BY <1>1, <1>2, <1>3, <1>4 DEF DInv

LEMMA DStep == DInv /\ [Next]_vars => DInv'
  <1> SUFFICES ASSUME DInv, [Next]_vars PROVE DInv'
    OBVIOUS
  <1>1. TypeOK'
    BY NextTyped DEF DInv
  <1>2. CASE UNCHANGED vars
    <2>1. UNCHANGED <<approved, ver, store, req, sock, emit>> /\ TypeOK
      BY <1>2 DEF vars, userVars, DInv
    <2>2. Passes(NoSid, NoSession)
      BY <2>1, Stays, FreshId, RowsStay, Undropped DEF Passes
    <2> QED BY <1>1, <2>1, <2>2, RowsStay, Undropped, Delivery
  <1>3. ASSUME NEW r \in Reqs,
               \/ \E u \in Users, i \in issued \cup {NoSid} : LoginCompares(r, u, i)
               \/ Regenerate(r) \/ SaveNew(r) \/ DisconnectOthers(r)
               \/ \E i \in issued : Load(r, i)
               \/ Logout(r) \/ RequireAuth(r) \/ SaveCopy(r) \/ ChangePassword(r)
               \/ ChangeEmail(r) \/ DisconnectSession(r) \/ Fails(r)
        PROVE  DInv'
    BY <1>1, <1>3, LoginDelivers, RegenerateDelivers, RequestDelivers, ChangeDelivers
  <1>4. CASE Next
    BY <1>1, <1>3, <1>4, SocketDelivers, ApprovalDelivers, EmitDelivers DEF Next
  <1> QED BY <1>2, <1>4

(* An id stands for one session, in the store, in requests and in sockets: only
   regenerate gives an id to a new session, and it gives a new one. *)
THEOREM OneSession == Spec => []OneSessionPerId
  <1>1. DInv => OneSessionPerId
    <2> SUFFICES ASSUME DInv, NEW i \in Sids, NEW c \in CopiesOf(i) \ {NoSession},
                        NEW d \in CopiesOf(i) \ {NoSession}
                 PROVE  c = d
      BY DEF OneSessionPerId
    <2>1. Stored(i, c) /\ Stored(i, d)
      BY DEF CopiesOf, Stored
    <2>2. c \in Session /\ d \in Session
      BY <2>1, Copies DEF DInv, Stored, MaybeSession
    <2> QED BY <2>1, <2>2 DEF DInv, OneContent
  <1> QED BY <1>1, DStart, DStep, PTL DEF Spec

(* A socket whose authority was withdrawn before a delivery began does not get
   its payload: the session that emitToUser reads for it again is no longer
   current, whatever is renewed, approved again or written back meanwhile. *)
THEOREM RevokedLeftOut == Spec => RevokedReceiveNothing
  <1>1. DInv =>
           [\A s \in Socks : Deliver(s) /\ sock[s].pc = "joined" => s \notin emit.revoked]_vars
    <2> SUFFICES ASSUME DInv, NEW s \in Socks, Deliver(s), sock[s].pc = "joined",
                        s \in emit.revoked
                 PROVE  FALSE
      OBVIOUS
    <2>1. emit.copy # NoSession /\ emit.copy.gen = ver[emit.copy.user]
      BY DEF Deliver, Deliverable, Valid
    <2>2. emit.copy = sock[s].copy
      BY <2>1 DEF Deliver, DInv, EmitFollows
    <2>3. sock[s].copy.gen < ver[sock[s].copy.user]
      BY DEF DInv, RevokedStale
    <2>4. emit.copy \in MaybeSession /\ TypeOK
      BY DEF DInv, TypeOK, EmitType
    <2>5. PICK u \in Users : emit.copy.user = u
      BY <2>1, <2>4, Sessions
    <2>6. ver[u] \in Nat
      BY <2>4 DEF TypeOK
    <2> QED BY <2>1, <2>2, <2>3, <2>5, <2>6
  <1> QED BY <1>1, DStart, DStep, PTL DEF Spec, RevokedReceiveNothing
=============================================================================
