----------------------------- MODULE WebSession -----------------------------
(***************************************************************************)
(* Website sessions and sockets of the Node server: login and logout       *)
(* (auth.js), the check of every request (requireAuth.js), the session     *)
(* renewal after a password or e-mail change (profile.js), requests that   *)
(* write to their session (retention.js), handshakes and private delivery  *)
(* (realtime.js), against setApproval.                                     *)
(*                                                                         *)
(* express-session is external: a request works on a copy of its session,  *)
(* loaded when it arrives, and writes the copy back when it has changed    *)
(* it.  Cookies are not modelled: a request may name any stored session; a *)
(* cookie without one is the same as none.                                 *)
(***************************************************************************)
EXTENDS Naturals

CONSTANTS
    Users,
    Sids,        \* session ids; each is generated once
    Reqs,        \* slots for HTTP requests in progress
    Socks,       \* slots for sockets
    NoUser, NoSid,
    MaxVer       \* bound on auth_version

ASSUME NoneAssumption == NoUser \notin Users /\ NoSid \notin Sids
ASSUME BoundAssumption == MaxVer \in Nat

VARIABLES
    approved, ver,   \* the rows of users
    pw,              \* users.password_hash, as the auth_version that set it
    store,           \* the session store
    issued,          \* the ids generated so far
    req,             \* the requests
    sock,            \* the sockets
    emit,            \* one run of emitToUser
    suspending,      \* setApproval has committed, disconnectUser follows
    out              \* the sessions whose logout is complete

userVars == <<approved, ver, pw>>
vars == <<userVars, store, issued, req, sock, emit, suspending, out>>

(* The content of a session; `pw` is the password it was opened with. *)
Session == [user : Users, gen : 0 .. MaxVer, pw : 0 .. MaxVer]
NoSession == [user |-> NoUser, gen |-> 0, pw |-> 0]
MaybeSession == Session \cup {NoSession}

IdleReq == [pc |-> "idle", sid |-> NoSid, copy |-> NoSession]
NoSock == [pc |-> "closed", sid |-> NoSid, copy |-> NoSession]
NoEmit == [pc |-> "idle", user |-> NoUser, todo |-> {}, revoked |-> {}, copy |-> NoSession]

ReqType == [pc : {"idle", "compared", "loaded", "working", "renew", "fresh", "others", "logout"},
            sid : issued \cup {NoSid}, copy : MaybeSession]
SockType == [pc : {"closed", "loaded", "checked", "joined"},
             sid : issued \cup {NoSid}, copy : MaybeSession]
EmitType == [pc : {"idle", "next"} \cup Socks, user : Users \cup {NoUser},
             todo : SUBSET Socks, revoked : SUBSET Socks, copy : MaybeSession]

TypeOK ==
    /\ approved \in [Users -> BOOLEAN]
    /\ ver \in [Users -> 0 .. MaxVer] /\ pw \in [Users -> 0 .. MaxVer]
    /\ store \in [Sids -> MaybeSession] /\ issued \subseteq Sids
    /\ \A i \in Sids \ issued : store[i] = NoSession
    /\ req \in [Reqs -> ReqType]
    /\ \A r \in Reqs :
        /\ req[r].pc = "idle" <=> req[r].copy = NoSession
        /\ req[r].sid = NoSid => req[r].pc \in {"idle", "compared"}
    /\ sock \in [Socks -> SockType]
    /\ \A s \in Socks : sock[s].pc = "closed" <=> sock[s].copy = NoSession
    /\ emit \in EmitType
    /\ suspending \subseteq Users
    /\ out \subseteq issued

Init ==
    /\ approved = [u \in Users |-> TRUE]
    /\ ver = [u \in Users |-> 0]
    /\ pw = [u \in Users |-> 0]
    /\ store = [i \in Sids |-> NoSession]
    /\ issued = {}
    /\ req = [r \in Reqs |-> IdleReq]
    /\ sock = [s \in Socks |-> NoSock]
    /\ emit = NoEmit
    /\ suspending = {}
    /\ out = {}

-----------------------------------------------------------------------------
(* isSessionValid.  (X_Y is a faulty variant of X, see the README.) *)
Valid(c) == c # NoSession /\ approved[c.user] /\ c.gen = ver[c.user]

Destroyed(i) == IF i = NoSid THEN store ELSE [store EXCEPT ![i] = NoSession]

Become(r, pc, i, c) == req' = [req EXCEPT ![r] = [pc |-> pc, sid |-> i, copy |-> c]]

Goto(r, pc) == req' = [req EXCEPT ![r].pc = pc]

Ends(r) == req' = [req EXCEPT ![r] = IdleReq]

(* Every request may end early, with an error. *)
Fails(r) ==
    /\ req[r].pc # "idle"
    /\ Ends(r)
    /\ UNCHANGED <<userVars, store, issued, sock, emit, suspending, out>>

(* POST /login reads the user's row, compares the password and finds the user
   approved: all that follows is from that row. *)
LoginCompares(r, u, i) ==
    /\ req[r].pc = "idle"
    /\ i # NoSid => store[i] # NoSession
    /\ approved[u]
    /\ Become(r, "compared", i, [user |-> u, gen |-> ver[u], pw |-> pw[u]])
    /\ UNCHANGED <<userVars, store, issued, sock, emit, suspending, out>>

Regenerate_KeepsId(r) ==
    /\ req[r].pc \in {"compared", "renew"}
    /\ \E i \in IF req[r].sid = NoSid THEN Sids \ issued ELSE {req[r].sid} :
        /\ issued' = issued \cup {i}
        /\ Become(r, "fresh", i, req[r].copy)
    /\ UNCHANGED <<userVars, store, sock, emit, suspending, out>>

(* req.session.regenerate: the old session is destroyed, a new id made. *)
Regenerate(r) ==
    /\ req[r].pc \in {"compared", "renew"}
    /\ store' = Destroyed(req[r].sid)
    /\ \E i \in Sids \ issued :
        /\ issued' = issued \cup {i}
        /\ Become(r, "fresh", i, req[r].copy)
    /\ UNCHANGED <<userVars, sock, emit, suspending, out>>

Saved_FreshVersion(r) ==
    [req[r].copy EXCEPT !.gen = ver[req[r].copy.user]]

Saved(r) == req[r].copy

(* The new session is filled in and saved, by save() or, had that failed, at
   the end of the response.  A renewal goes on to disconnectOtherSessions, a
   login is done. *)
SaveNew(r) ==
    /\ req[r].pc = "fresh"
    /\ store' = [store EXCEPT ![req[r].sid] = Saved(r)]
    /\ Ends(r) \/ Goto(r, "others")
    /\ UNCHANGED <<userVars, issued, sock, emit, suspending, out>>

(* Sockets are disconnected; disconnectOtherSessions takes those in the
   user's room. *)
Dropped(set) == [s \in Socks |-> IF s \in set THEN NoSock ELSE sock[s]]

Room(u) == {s \in Socks : sock[s].pc = "joined" /\ sock[s].copy.user = u}

DisconnectOthers(r) ==
    /\ req[r].pc = "others"
    /\ sock' = Dropped({s \in Room(req[r].copy.user) : sock[s].sid # req[r].sid})
    /\ Ends(r)
    /\ UNCHANGED <<userVars, store, issued, emit, suspending, out>>

-----------------------------------------------------------------------------
(* A request behind requireAuth *)

Load(r, i) ==
    /\ req[r].pc = "idle"
    /\ store[i] # NoSession
    /\ Become(r, "loaded", i, store[i])
    /\ UNCHANGED <<userVars, store, issued, sock, emit, suspending, out>>

RequireAuth(r) ==
    /\ req[r].pc = "loaded"
    /\ IF Valid(req[r].copy)
       THEN Goto(r, "working") /\ UNCHANGED store
       ELSE Ends(r) /\ store' = Destroyed(req[r].sid)
    /\ UNCHANGED <<userVars, issued, sock, emit, suspending, out>>

(* A handler that has changed its session (a retention preview): the copy is
   written back at the end of the response. *)
SaveCopy(r) ==
    /\ req[r].pc = "working"
    /\ store' = [store EXCEPT ![req[r].sid] = req[r].copy]
    /\ Ends(r)
    /\ UNCHANGED <<userVars, issued, sock, emit, suspending, out>>

TransactionAllowed_Approved(c) == approved[c.user]

(* transaction() of profile.js: under the lock on the user's row the session
   has to be of the current generation. *)
TransactionAllowed(c) == c.gen = ver[c.user]

(* POST /profile/password, knowing the current password. *)
ChangePassword(r) ==
    LET c == req[r].copy IN
    /\ req[r].pc = "working"
    /\ TransactionAllowed(c)
    /\ ver[c.user] < MaxVer
    /\ ver' = [ver EXCEPT ![c.user] = @ + 1]
    /\ pw' = [pw EXCEPT ![c.user] = ver[c.user] + 1]
    /\ Become(r, "renew", req[r].sid,
              [c EXCEPT !.gen = ver[c.user] + 1, !.pw = ver[c.user] + 1])
    /\ UNCHANGED <<approved, store, issued, sock, emit, suspending, out>>

(* POST /profile/email/verify *)
ChangeEmail(r) ==
    LET c == req[r].copy IN
    /\ req[r].pc = "working"
    /\ TransactionAllowed(c)
    /\ ver[c.user] < MaxVer
    /\ ver' = [ver EXCEPT ![c.user] = @ + 1]
    /\ Become(r, "renew", req[r].sid, [c EXCEPT !.gen = ver[c.user] + 1])
    /\ UNCHANGED <<approved, pw, store, issued, sock, emit, suspending, out>>

-----------------------------------------------------------------------------
(* POST /logout, not behind requireAuth: the session is destroyed, then its
   sockets are disconnected. *)
Logout(r) ==
    /\ req[r].pc = "loaded"
    /\ store' = Destroyed(req[r].sid)
    /\ Goto(r, "logout")
    /\ UNCHANGED <<userVars, issued, sock, emit, suspending, out>>

DisconnectSession(r) ==
    /\ req[r].pc = "logout"
    /\ sock' = Dropped({s \in Socks : sock[s].pc = "joined" /\ sock[s].sid = req[r].sid})
    /\ out' = out \cup {req[r].sid}
    /\ Ends(r)
    /\ UNCHANGED <<userVars, store, issued, emit, suspending>>

-----------------------------------------------------------------------------
(* setApproval *)

Suspend(u) ==
    /\ approved[u] /\ ver[u] < MaxVer
    /\ approved' = [approved EXCEPT ![u] = FALSE]
    /\ ver' = [ver EXCEPT ![u] = @ + 1]
    /\ suspending' = suspending \cup {u}
    /\ UNCHANGED <<pw, store, issued, req, sock, emit, out>>

DisconnectUser(u) ==
    /\ u \in suspending
    /\ suspending' = suspending \ {u}
    /\ sock' = Dropped(Room(u))
    /\ UNCHANGED <<userVars, store, issued, req, emit, out>>

Approve(u) ==
    /\ ~approved[u]
    /\ approved' = [approved EXCEPT ![u] = TRUE]
    /\ UNCHANGED <<ver, pw, store, issued, req, sock, emit, suspending, out>>

-----------------------------------------------------------------------------
(* The two middlewares of a handshake, and the connection *)

(* A slot is reused when no delivery refers to its last socket any more. *)
Handshake(s, i) ==
    /\ sock[s].pc = "closed"
    /\ s # emit.pc /\ s \notin emit.todo \cup emit.revoked
    /\ store[i] # NoSession
    /\ sock' = [sock EXCEPT ![s] = [pc |-> "loaded", sid |-> i, copy |-> store[i]]]
    /\ UNCHANGED <<userVars, store, issued, req, emit, suspending, out>>

Admit(s) ==
    /\ sock[s].pc = "loaded"
    /\ sock' = [sock EXCEPT ![s] = IF Valid(@.copy) THEN [@ EXCEPT !.pc = "checked"] ELSE NoSock]
    /\ UNCHANGED <<userVars, store, issued, req, emit, suspending, out>>

Join(s) ==
    /\ sock[s].pc = "checked"
    /\ sock' = [sock EXCEPT ![s].pc = "joined"]
    /\ UNCHANGED <<userVars, store, issued, req, emit, suspending, out>>

Close(s) ==
    /\ sock[s].pc # "closed"
    /\ sock' = [sock EXCEPT ![s] = NoSock]
    /\ UNCHANGED <<userVars, store, issued, req, emit, suspending, out>>

-----------------------------------------------------------------------------
(* emitToUser(u, 'updateMessage', ...).  `revoked` notes the sockets whose
   authority had been withdrawn when the delivery began. *)
EmitBegins(u) ==
    /\ emit = NoEmit
    /\ emit' = [pc |-> "next", user |-> u, todo |-> Room(u),
                revoked |-> {s \in Room(u) : ~Valid(sock[s].copy)}, copy |-> NoSession]
    /\ UNCHANGED <<userVars, store, issued, req, sock, suspending, out>>

(* The session of the next socket is read from the store; without one, or
   with one of another user, the socket is disconnected.  Reading for a socket
   that has closed meanwhile has no effect. *)
EmitReads(s) ==
    /\ emit.pc = "next" /\ s \in emit.todo
    /\ IF sock[s].sid # NoSid /\ store[sock[s].sid].user = emit.user
       THEN /\ emit' = [emit EXCEPT !.pc = s, !.todo = @ \ {s}, !.copy = store[sock[s].sid]]
            /\ UNCHANGED sock
       ELSE /\ emit' = [emit EXCEPT !.todo = @ \ {s}]
            /\ sock' = Dropped({s})
    /\ UNCHANGED <<userVars, store, issued, req, suspending, out>>

Deliverable_Present(c) == c # NoSession

Deliverable(c) == Valid(c)

(* The copy is validated: the payload is sent, which reaches nobody when the
   socket has closed, or the socket is disconnected. *)
Deliver(s) ==
    /\ emit.pc = s
    /\ Deliverable(emit.copy)
    /\ emit' = [emit EXCEPT !.pc = "next", !.copy = NoSession]
    /\ UNCHANGED <<userVars, store, issued, req, sock, suspending, out>>

Withhold(s) ==
    /\ emit.pc = s
    /\ ~Deliverable(emit.copy)
    /\ emit' = [emit EXCEPT !.pc = "next", !.copy = NoSession]
    /\ sock' = Dropped({s})
    /\ UNCHANGED <<userVars, store, issued, req, suspending, out>>

EmitEnds ==
    /\ emit.pc = "next" /\ emit.todo = {}
    /\ emit' = NoEmit
    /\ UNCHANGED <<userVars, store, issued, req, sock, suspending, out>>

-----------------------------------------------------------------------------
Next ==
    \/ \E r \in Reqs :
        \/ \E u \in Users, i \in issued \cup {NoSid} : LoginCompares(r, u, i)
        \/ Regenerate(r) \/ SaveNew(r) \/ DisconnectOthers(r)
        \/ \E i \in issued : Load(r, i)
        \/ Logout(r) \/ RequireAuth(r) \/ SaveCopy(r) \/ ChangePassword(r) \/ ChangeEmail(r)
        \/ DisconnectSession(r) \/ Fails(r)
    \/ \E s \in Socks :
        \/ \E i \in issued : Handshake(s, i)
        \/ Admit(s) \/ Join(s) \/ Close(s)
        \/ EmitReads(s) \/ Deliver(s) \/ Withhold(s)
    \/ \E u \in Users : Suspend(u) \/ DisconnectUser(u) \/ Approve(u) \/ EmitBegins(u)
    \/ EmitEnds

Spec == Init /\ [][Next]_vars

-----------------------------------------------------------------------------
(* A session that passes the check was opened by someone who knew the current
   password, however logins, password changes, renewals, suspensions and
   write-backs of old copies interleave. *)
NoOldPassword ==
    \A i \in Sids : Valid(store[i]) => store[i].pw = pw[store[i].user]

(* An id stands for one session: every copy of it, stored, loaded by a request
   or held by a socket, is of the same user, generation and password, although
   copies are written back at any time and sockets are asked again only by id.
   A login or a renewal must take an id that nobody has a copy under.  (Until
   then it holds what it is going to store, not a copy.) *)
CopiesOf(i) ==
    {store[i]}
    \cup {req[r].copy : r \in {q \in Reqs : /\ req[q].sid = i
                                             /\ req[q].pc \notin {"compared", "renew"}}}
    \cup {sock[s].copy : s \in {q \in Socks : sock[q].sid = i}}

OneSessionPerId == \A i \in Sids : \A c, d \in CopiesOf(i) \ {NoSession} : c = d

(* A socket whose authority had been withdrawn before a delivery began does
   not receive its payload (STEP10_PRIVATE_REALTIME_TESTING.md, "changed
   sessions are disconnected"). *)
RevokedReceiveNothing ==
    [][\A s \in Socks : Deliver(s) /\ sock[s].pc = "joined" => s \notin emit.revoked]_vars

(* STEP10_PRIVATE_REALTIME_TESTING.md: "Logout destroys the HTTP session". *)
LogoutDestroysSession == \A i \in out : store[i] = NoSession
=============================================================================
