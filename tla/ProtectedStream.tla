-------------------------- MODULE ProtectedStream --------------------------
(***************************************************************************)
(* services/protectedStream.js in one Node process: media downloads, saved *)
(* PDFs and PDF generation register an abort callback under their user, so *)
(* that setApproval can cancel them, and poll the session once a second.   *)
(*                                                                         *)
(* The registry is a Map from users to Set objects.  Each call of          *)
(* watchTransfer keeps its own reference to the Set it joined, so the      *)
(* identity of Sets matters: it is what SetIds stand for.                  *)
(***************************************************************************)
EXTENDS Naturals, FiniteSets

CONSTANTS
    Users,
    Transfers,    \* slots for responses in progress
    SetIds,       \* identities of Set objects, one per transfer and late check
    NoSet, NoUser,
    MaxVer,       \* bound on auth_version
    MaxLate       \* bound on late checks

ASSUME NoneAssumption == NoSet \notin SetIds /\ NoUser \notin Users
ASSUME BoundAssumption == MaxVer \in Nat /\ MaxLate \in Nat

VARIABLES
    approved, ver,   \* the rows of users
    revoking,        \* setApproval has committed, cancelUserTransfers follows
    transfers,       \* the Map
    members,         \* the content of the Set objects
    xfer,            \* the responses
    late             \* timer checks under way whose response is over

vars == <<approved, ver, revoking, transfers, members, xfer, late>>
userVars == <<approved, ver, revoking>>

Idle == [pc |-> "idle", user |-> NoUser, authVersion |-> 0, active |-> NoSet]

TypeOK ==
    /\ approved \in [Users -> BOOLEAN]
    /\ ver \in [Users -> 0 .. MaxVer]
    /\ revoking \subseteq Users
    /\ transfers \in [Users -> SetIds \cup {NoSet}]
    /\ members \in [SetIds -> SUBSET Transfers]
    /\ xfer \in [Transfers -> [pc : {"idle", "checked", "open", "ended"},
                               user : Users \cup {NoUser},
                               authVersion : 0 .. MaxVer,
                               active : SetIds \cup {NoSet}]]
    /\ \A t \in Transfers :
        /\ xfer[t].pc = "idle" <=> xfer[t].user = NoUser
        /\ xfer[t].pc \in {"idle", "checked"} <=> xfer[t].active = NoSet
    /\ late \subseteq [user : Users, active : SetIds]

Init ==
    /\ approved = [u \in Users |-> TRUE]
    /\ ver = [u \in Users |-> 0]
    /\ revoking = {}
    /\ transfers = [u \in Users |-> NoSet]
    /\ members = [r \in SetIds |-> {}]
    /\ xfer = [t \in Transfers |-> Idle]
    /\ late = {}

-----------------------------------------------------------------------------
(* isSessionValid on the session a response was authorized with.  (X_Y is a
   faulty variant of X, see the README.) *)
SessionValid_ApprovedOnly(t) == approved[xfer[t].user]

SessionValid(t) ==
    LET u == xfer[t].user IN approved[u] /\ xfer[t].authVersion = ver[u]

(* A request with a valid session passes its check. *)
Check(t, u) ==
    /\ xfer[t].pc = "idle" /\ approved[u]
    /\ xfer' = [xfer EXCEPT ![t] = [Idle EXCEPT !.pc = "checked", !.user = u,
                                                !.authVersion = ver[u]]]
    /\ UNCHANGED <<userVars, transfers, members, late>>

(* A Set that neither the Map nor a response or its timer refers to. *)
Unused(r) ==
    /\ \A u \in Users : transfers[u] # r
    /\ \A t \in Transfers : xfer[t].active # r
    /\ \A c \in late : c.active # r

(* watchTransfer: join the user's Set, or put a new one into the Map. *)
Watch(t) ==
    LET u == xfer[t].user IN
    /\ xfer[t].pc = "checked"
    /\ \E r \in SetIds :
        /\ IF transfers[u] # NoSet THEN r = transfers[u] ELSE Unused(r)
        /\ members' = [members EXCEPT ![r] = IF transfers[u] # NoSet THEN @ \cup {t} ELSE {t}]
        /\ transfers' = [transfers EXCEPT ![u] = r]
        /\ xfer' = [xfer EXCEPT ![t].pc = "open", ![t].active = r]
    /\ UNCHANGED <<userVars, late>>

(* cleanup(): leave the Set this response joined; if that Set is empty, drop
   the user's entry, whichever Set it now holds. *)
Left_KeepEmpty(u, r, gone) ==
    /\ members' = [members EXCEPT ![r] = @ \ gone]
    /\ UNCHANGED transfers

Left_DropsEntry(u, r, gone) ==
    /\ members' = [members EXCEPT ![r] = @ \ gone]
    /\ transfers' = [transfers EXCEPT ![u] = NoSet]

Left(u, r, gone) ==
    /\ members' = [members EXCEPT ![r] = @ \ gone]
    /\ transfers' = [transfers EXCEPT ![u] = IF members[r] \ gone = {} THEN NoSet ELSE @]

Cleanup(t) == Left(xfer[t].user, xfer[t].active, {t})

(* clearInterval does not stop a check that is waiting for the database. *)
LeavesCheck(t) ==
    \/ UNCHANGED late
    \/ /\ xfer[t].pc = "open" /\ Cardinality(late) < MaxLate
       /\ late' = late \cup {[user |-> xfer[t].user, active |-> xfer[t].active]}

(* The response is finished, or cancel() runs because the client closed the
   connection: the listener cleans up, the handler has yet to return. *)
Ends(t) ==
    /\ xfer[t].pc = "open"
    /\ Cleanup(t) /\ LeavesCheck(t)
    /\ xfer' = [xfer EXCEPT ![t].pc = "ended"]
    /\ UNCHANGED userVars

(* The handler returns: its finally clause (or sendFile's callback) cleans up,
   for the second time unless the handler failed before the response ended. *)
Returns(t) ==
    /\ xfer[t].pc \in {"open", "ended"}
    /\ Cleanup(t) /\ LeavesCheck(t)
    /\ xfer' = [xfer EXCEPT ![t] = Idle]
    /\ UNCHANGED userVars

(* The one-second timer of an open response finds its session invalid, or
   cannot tell. *)
TimerCancels(t) ==
    /\ xfer[t].pc = "open"
    /\ ~SessionValid(t)
    /\ Cleanup(t)
    /\ xfer' = [xfer EXCEPT ![t].pc = "ended"]
    /\ UNCHANGED <<userVars, late>>

(* A late check has its answer: unless the session is valid, cancel() cleans up
   once more. *)
LateCheck(c) ==
    /\ c \in late
    /\ late' = late \ {c}
    /\ Left(c.user, c.active, {}) \/ UNCHANGED <<transfers, members>>
    /\ UNCHANGED <<userVars, xfer>>

-----------------------------------------------------------------------------
(* setApproval: the transaction, then, in a later step of the event loop,
   cancelUserTransfers. *)
Suspend(u) ==
    /\ approved[u] /\ ver[u] < MaxVer
    /\ approved' = [approved EXCEPT ![u] = FALSE]
    /\ ver' = [ver EXCEPT ![u] = @ + 1]
    /\ revoking' = revoking \cup {u}
    /\ UNCHANGED <<transfers, members, xfer, late>>

Registered(u) == IF transfers[u] = NoSet THEN {} ELSE members[transfers[u]]

CancelUserTransfers(u) ==
    /\ u \in revoking
    /\ revoking' = revoking \ {u}
    /\ IF transfers[u] = NoSet
       THEN UNCHANGED <<transfers, members>>
       ELSE Left(u, transfers[u], Registered(u))
    /\ UNCHANGED late \/ \E t \in Registered(u) : LeavesCheck(t)
    /\ xfer' = [t \in Transfers |-> IF t \in Registered(u)
                                    THEN [xfer[t] EXCEPT !.pc = "ended"] ELSE xfer[t]]
    /\ UNCHANGED <<approved, ver>>

Approve(u) ==
    /\ ~approved[u]
    /\ approved' = [approved EXCEPT ![u] = TRUE]
    /\ UNCHANGED <<ver, revoking, transfers, members, xfer, late>>

(* A password or e-mail change invalidates sessions without cancelling. *)
ChangeCredential(u) ==
    /\ approved[u] /\ ver[u] < MaxVer
    /\ ver' = [ver EXCEPT ![u] = @ + 1]
    /\ UNCHANGED <<approved, revoking, transfers, members, xfer, late>>

Next ==
    \/ \E t \in Transfers :
        \/ \E u \in Users : Check(t, u)
        \/ Watch(t) \/ Ends(t) \/ Returns(t) \/ TimerCancels(t)
    \/ \E c \in late : LateCheck(c)
    \/ \E u \in Users :
        Suspend(u) \/ CancelUserTransfers(u) \/ Approve(u) \/ ChangeCredential(u)

(* The interval timer of an open response keeps firing; handlers return. *)
Fairness == \A t \in Transfers :
    WF_vars(TimerCancels(t)) /\ WF_vars(xfer[t].pc = "ended" /\ Returns(t))

Spec == Init /\ [][Next]_vars
FairSpec == Spec /\ Fairness

-----------------------------------------------------------------------------
(* The registry keeps nothing of responses that are over: a Set holds only
   open responses of the user it was made for, and the Map holds no empty
   Set. *)
RegistryClean ==
    /\ \A r \in SetIds : \A t \in members[r] :
        xfer[t].pc = "open" /\ xfer[t].active = r
    /\ \A u \in Users : transfers[u] # NoSet => members[transfers[u]] # {}
    /\ \A u \in Users : \A t \in Registered(u) : xfer[t].user = u

(* A response that cancelUserTransfers would find is found until it is over,
   whatever other responses of the user open, end and return, unless one that
   joined an earlier Set cleans up late: nothing else causes what
   RevocationAbortsAll is refuted by. *)
EarlierSetCleansUp(u) ==
    \/ \E t \in Transfers :
        /\ xfer[t].pc \in {"open", "ended"} /\ xfer[t].user = u
        /\ xfer[t].active # transfers[u] /\ xfer'[t].pc # xfer[t].pc
    \/ \E c \in late : c.user = u /\ c.active # transfers[u] /\ c \notin late'

ReachableKept ==
    [][\A u \in Users : \A t \in Registered(u) :
          xfer'[t].pc = "open" => t \in Registered(u)' \/ EarlierSetCleansUp(u)]_vars

(* No response outlives its session: one that was open, or about to open, when
   the session was revoked ends, also when cancelUserTransfers missed it. *)
RevokedTransfersEnd ==
    \A t \in Transfers :
        (xfer[t].pc = "open" /\ ~SessionValid(t)) ~> (xfer[t].pc # "open")

(* protectedStream.js:7, "Revocation in this process aborts immediately": when
   cancelUserTransfers has run no response of the user is left open. *)
RevocationAbortsAll ==
    [][\A u \in Users : CancelUserTransfers(u) =>
          \A t \in Transfers : xfer'[t].user = u => xfer'[t].pc # "open"]_vars
=============================================================================
