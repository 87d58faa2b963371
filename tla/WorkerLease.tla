---------------------------- MODULE WorkerLease ----------------------------
(***************************************************************************)
(* The worker process (telegram_worker.py, worker_http.py), the Node       *)
(* routes it calls (worker.internal.js), the routes and services that      *)
(* command it (telegram-accounts.js, telegram-connect.js,                  *)
(* accountApproval.js) and the rows of telegram_accounts they share.       *)
(* Ingestion supplies the rows of users and POST /messages.                *)
(*                                                                         *)
(* A client runs under a lease: the auth_version read when it was started. *)
(* The monitor loop ends leases that are no longer current.                *)
(***************************************************************************)
EXTENDS Naturals, FiniteSets, Sequences

CONSTANTS
    Users, Accounts, Owner, NoAccount, MaxVer, MaxSaved,
    Posts,       \* event-handler tasks, each with its POST /messages request
    Cmds,        \* control requests the worker is serving at a time
    MaxLate,     \* bound on timed-out status requests still under way
    Requests     \* the kinds of request users and administrators make

ASSUME OwnerAssumption == Owner \in [Accounts -> Users]
ASSUME NoAccountAssumption == NoAccount \notin Accounts
ASSUME SlotAssumption == Cmds \cap Accounts = {}
ASSUME BoundAssumption == MaxVer \in Nat /\ MaxSaved \in Nat /\ MaxLate \in Nat

VARIABLES
    approved, ver, saved, post,     \* see Ingestion
    status,      \* telegram_accounts.connection_status
    session,     \* telegram_accounts.session_ciphertext IS NOT NULL
    unsent,      \* accounts setApproval has still to send a pause for
    awaited,     \* accounts whose pause has not been answered
    confirmed,   \* no pause of the last suspension has failed so far
    removing,    \* progress of DELETE /:id/connection
    late,        \* status requests the worker no longer waits for
    phase,       \* of the worker process
    mon,         \* the monitor loop and the eligibility rows it holds
    clients,     \* ActiveClientManager.clients
    op,          \* start_account / stop_account / restart_account coroutines
    task         \* event-handler tasks

I == INSTANCE Ingestion

userVars == <<approved, ver, saved, post>>
acctVars == <<status, session>>
nodeVars == <<unsent, awaited, confirmed, removing>>
workVars == <<phase, mon, clients, op, task>>
vars == <<userVars, acctVars, nodeVars, late, workVars>>

(* One coroutine per control request, and one per account for restore_all,
   the monitor's gather and close(). *)
Slots == Cmds \cup Accounts

Statuses == {"starting", "connected", "disconnected", "error", "revoked", "removed"}
Startable == {"connected", "starting", "disconnected", "error"}

NoClient == [conn |-> "none", gen |-> 0]

Op(kind, a, by, pc) ==
    [pc |-> pc, kind |-> kind, acct |-> a, by |-> by, st |-> "none",
     checked |-> FALSE, gen |-> 0, live |-> FALSE, snap |-> {}]

IdleOp == Op("start", NoAccount, "node", "idle")

NoTask == [pc |-> "idle", acct |-> NoAccount, own |-> FALSE, gen |-> 0]

TypeOK ==
    /\ I!TypeOK
    /\ status \in [Accounts -> Statuses]
    /\ session \in [Accounts -> BOOLEAN]
    /\ unsent \in [Users -> SUBSET Accounts]
    /\ awaited \in [Users -> SUBSET Accounts]
    /\ confirmed \in [Users -> BOOLEAN]
    /\ removing \in [Accounts -> {"idle", "wait", "acked"}]
    /\ late \subseteq [acct : Accounts, st : Statuses \ {"removed"}, checked : BOOLEAN]
    /\ phase \in {"down", "boot", "restore", "run", "closing"}
    /\ mon \in [pc : {"sleep", "read", "stop"}, elig : SUBSET (Accounts \X (0 .. MaxVer))]
    /\ clients \in [Accounts -> [conn : {"none", "live", "dead"}, gen : 0 .. MaxVer]]
    /\ op \in [Slots ->
          [pc : {"idle", "lock", "patch", "lookup", "connect", "authorize",
                 "disconnect", "closing", "drain"},
           kind : {"start", "stop", "restart"},
           acct : Accounts \cup {NoAccount},
           by : {"node", "admin", "remove", "restore", "monitor", "close"},
           st : (Statuses \ {"removed"}) \cup {"none"},
           checked : BOOLEAN, gen : 0 .. MaxVer, live : BOOLEAN, snap : SUBSET Posts]]
    /\ \A s \in Slots : /\ op[s].pc = "idle" <=> op[s].acct = NoAccount
                        /\ op[s].pc = "patch" => op[s].st # "none"
    /\ task \in [Posts ->
          [pc : {"idle", "filter", "context", "prepare", "ingest", "drain"},
           acct : Accounts \cup {NoAccount}, own : BOOLEAN, gen : 0 .. MaxVer]]
    /\ \A p \in Posts : task[p].pc = "idle" <=> task[p].acct = NoAccount

(* Every account has been connected; the worker has not been started yet. *)
Init ==
    /\ I!Init
    /\ approved = [u \in Users |-> TRUE]
    /\ status = [a \in Accounts |-> "connected"]
    /\ session = [a \in Accounts |-> TRUE]
    /\ unsent = [u \in Users |-> {}]
    /\ awaited = [u \in Users |-> {}]
    /\ confirmed = [u \in Users |-> FALSE]
    /\ removing = [a \in Accounts |-> "idle"]
    /\ late = {}
    /\ phase = "down"
    /\ mon = [pc |-> "sleep", elig |-> {}]
    /\ clients = [a \in Accounts |-> NoClient]
    /\ op = [s \in Slots |-> IdleOp]
    /\ task = [p \in Posts |-> NoTask]

-----------------------------------------------------------------------------
(* The database, as the Node routes query it. *)

Eligible(a) == approved[Owner[a]] /\ session[a] /\ status[a] # "removed"

(* POST /messages locks the account row along with its owner's. *)
AccountRowFree(a) == \A p \in Posts : ~(post[p].pc = "locked" /\ post[p].acct = a)

(* The WHERE clause of PATCH /accounts/:id/status.  (X_Y is a faulty variant
   of X, see the README.) *)
StatusMatches_AnyOwner(a, st) == st # "disconnected" \/ status[a] \in Startable

StatusMatches(a, st) ==
    IF st = "disconnected" THEN status[a] \in Startable ELSE approved[Owner[a]]

StatusRowsFree(a, st) ==
    AccountRowFree(a) /\ (st = "disconnected" \/ I!RowFree(Owner[a]))

StoreStatus(a, st) ==
    /\ StatusRowsFree(a, st)
    /\ status' = [status EXCEPT ![a] = IF StatusMatches(a, st) THEN st ELSE @]
    /\ UNCHANGED session

-----------------------------------------------------------------------------
(* Ends of a coroutine. *)

WorkerUp == phase \in {"boot", "restore", "run"}

LockFree_NoLock(a) == TRUE

LockFree(a) == \A s \in Slots : ~(op[s].acct = a /\ op[s].pc \notin {"idle", "lock"})

To(s, pc) == op' = [op EXCEPT ![s].pc = pc]

Patch(s, st) == op' = [op EXCEPT ![s].pc = "patch", ![s].st = st, ![s].checked = FALSE]

(* The HTTP answer of the control server reaches the route that waits. *)
Answer(s, ok) ==
    LET a == op[s].acct IN LET u == Owner[a] IN
    /\ awaited' = IF op[s].by = "admin" THEN [awaited EXCEPT ![u] = @ \ {a}] ELSE awaited
    /\ confirmed' = IF op[s].by = "admin" /\ ~ok THEN [confirmed EXCEPT ![u] = FALSE]
                    ELSE confirmed
    /\ removing' = IF op[s].by = "remove"
                   THEN [removing EXCEPT ![a] = IF ok THEN "acked" ELSE "idle"]
                   ELSE removing
    /\ UNCHANGED unsent

Finish(s, ok) == Answer(s, ok) /\ op' = [op EXCEPT ![s] = IdleOp]

(* Cancelling a task that is uploading waits for the transfer thread. *)
Cancelled(t) == IF t.pc = "prepare" THEN [t EXCEPT !.pc = "drain"]
                ELSE IF t.pc = "drain" THEN t ELSE NoTask

CancelTasks(set) == task' = [p \in Posts |-> IF p \in set THEN Cancelled(task[p]) ELSE task[p]]

TasksOf(a) == {p \in Posts : task[p].pc # "idle" /\ task[p].acct = a}
OwnTasks(a) == {p \in TasksOf(a) : task[p].own}

StartFails_NoDisconnect(s) ==
    LET a == op[s].acct IN
    /\ clients' = [clients EXCEPT ![a] = NoClient]
    /\ op' = [op EXCEPT ![s].pc = "patch", ![s].st = "error", ![s].checked = FALSE,
                        ![s].live = @ \/ clients[a].conn = "live"]
    /\ UNCHANGED nodeVars

(* start_account's except clause: the entry is popped; a client that was
   built is disconnected before the status is reported. *)
StartFails(s) ==
    LET a == op[s].acct IN
    /\ clients' = [clients EXCEPT ![a] = NoClient]
    /\ IF op[s].pc = "lookup"
       THEN Patch(s, "error")
       ELSE op' = [op EXCEPT ![s].pc = "disconnect",
                             ![s].live = @ \/ clients[a].conn = "live"]
    /\ UNCHANGED nodeVars

(* What each set_status call is followed by. *)
PatchReturns(s, ok) ==
    LET o == op[s] IN
    \/ /\ o.st = "starting" /\ ok
       /\ op' = [op EXCEPT ![s].pc = "lookup", ![s].checked = FALSE]
       /\ UNCHANGED <<clients, nodeVars>>
    \/ /\ o.st = "disconnected" /\ ok /\ o.kind = "restart"
       /\ op' = [op EXCEPT ![s] = Op("start", o.acct, o.by, "lock")]
       /\ UNCHANGED <<clients, nodeVars>>
    \/ /\ o.st \in {"connected", "revoked"} /\ ~ok
       /\ StartFails(s)
    \/ /\ \/ o.st \in {"connected", "revoked"} /\ ok
          \/ o.st = "starting" /\ ~ok
          \/ o.st = "disconnected" /\ ~(ok /\ o.kind = "restart")
          \/ o.st = "error"
       /\ Finish(s, ok /\ o.st # "error")
       /\ UNCHANGED clients

-----------------------------------------------------------------------------
(* set_status: the middleware of worker.internal.js, then the UPDATE. *)

(* The middleware's eligibility read.  An acknowledgment of "disconnected"
   skips it. *)
PatchCheck(s) ==
    /\ op[s].pc = "patch" /\ op[s].st # "disconnected" /\ ~op[s].checked
    /\ IF Eligible(op[s].acct)
       THEN op' = [op EXCEPT ![s].checked = TRUE] /\ UNCHANGED <<clients, nodeVars>>
       ELSE PatchReturns(s, FALSE)
    /\ UNCHANGED <<userVars, acctVars, late, phase, mon, task>>

(* The UPDATE; the answer may come too late for the worker. *)
PatchApply(s) ==
    LET o == op[s] IN
    /\ o.pc = "patch" /\ (o.checked \/ o.st = "disconnected")
    /\ StoreStatus(o.acct, o.st)
    /\ \/ PatchReturns(s, FALSE)
       \/ (o.st = "disconnected" \/ StatusMatches(o.acct, o.st)) /\ PatchReturns(s, TRUE)
    /\ UNCHANGED <<userVars, late, phase, mon, task>>

(* The request fails or times out.  One that has been sent may still be
   carried out. *)
PatchTimeout(s) ==
    LET o == op[s] IN
    /\ o.pc = "patch"
    /\ \/ UNCHANGED late
       \/ /\ Cardinality(late) < MaxLate
          /\ late' = late \cup {[acct |-> o.acct, st |-> o.st, checked |-> o.checked]}
    /\ PatchReturns(s, FALSE)
    /\ UNCHANGED <<userVars, acctVars, phase, mon, task>>

LateCheck(r) ==
    /\ r \in late /\ ~r.checked /\ r.st # "disconnected" /\ Eligible(r.acct)
    /\ late' = (late \ {r}) \cup {[r EXCEPT !.checked = TRUE]}
    /\ UNCHANGED <<userVars, acctVars, nodeVars, workVars>>

LateApply(r) ==
    /\ r \in late /\ (r.checked \/ r.st = "disconnected")
    /\ StoreStatus(r.acct, r.st)
    /\ late' = late \ {r}
    /\ UNCHANGED <<userVars, nodeVars, workVars>>

LateDrop(r) ==
    /\ r \in late
    /\ late' = late \ {r}
    /\ UNCHANGED <<userVars, acctVars, nodeVars, workVars>>

-----------------------------------------------------------------------------
(* start_account *)

(* `async with lock`; a connected client makes the start a no-op. *)
AcquireStart(s) ==
    LET a == op[s].acct IN
    /\ op[s].pc = "lock" /\ op[s].kind = "start" /\ LockFree(a)
    /\ IF clients[a].conn = "live"
       THEN Finish(s, TRUE)
       ELSE Patch(s, "starting") /\ UNCHANGED nodeVars
    /\ UNCHANGED <<userVars, acctVars, late, phase, mon, clients, task>>

(* GET /accounts/:id: the middleware reads auth_version first. *)
LookupCheck(s) ==
    LET a == op[s].acct IN
    /\ op[s].pc = "lookup" /\ ~op[s].checked
    /\ Eligible(a)
    /\ op' = [op EXCEPT ![s].checked = TRUE, ![s].gen = ver[Owner[a]]]
    /\ UNCHANGED <<userVars, acctVars, nodeVars, late, phase, mon, clients, task>>

(* The route then reads the row and decrypts the session. *)
LookupRow(s) ==
    LET a == op[s].acct IN
    /\ op[s].pc = "lookup" /\ op[s].checked
    /\ session[a] /\ status[a] \in Startable
    /\ To(s, "connect")
    /\ UNCHANGED <<userVars, acctVars, nodeVars, late, phase, mon, clients, task>>

(* 403, 404, a decryption error, a time-out, or Telegram refusing. *)
StartRaises(s) ==
    /\ op[s].pc \in {"lookup", "connect", "authorize"}
    /\ StartFails(s)
    /\ UNCHANGED <<userVars, acctVars, late, phase, mon, task>>

(* client.connect() returns: updates are being delivered.  Tasks of a dead
   client that is about to be replaced go on. *)
Connect(s) ==
    /\ op[s].pc = "connect"
    /\ op' = [op EXCEPT ![s].pc = "authorize", ![s].live = TRUE]
    /\ task' = [p \in Posts |-> IF task[p].acct = op[s].acct
                                THEN [task[p] EXCEPT !.own = FALSE] ELSE task[p]]
    /\ UNCHANGED <<userVars, acctVars, nodeVars, late, phase, mon, clients>>

(* The client is registered under the generation its lookup returned. *)
Authorized(s) ==
    LET a == op[s].acct IN
    /\ op[s].pc = "authorize"
    /\ clients' = [clients EXCEPT ![a] = [conn |-> "live", gen |-> op[s].gen]]
    /\ op' = [op EXCEPT ![s].pc = "patch", ![s].st = "connected",
                        ![s].checked = FALSE, ![s].live = FALSE]
    /\ UNCHANGED <<userVars, acctVars, nodeVars, late, phase, mon, task>>

(* The saved Telegram session is no longer valid. *)
SessionRevoked(s) ==
    /\ op[s].pc = "authorize"
    /\ CancelTasks(OwnTasks(op[s].acct))
    /\ op' = [op EXCEPT ![s].pc = "patch", ![s].st = "revoked",
                        ![s].checked = FALSE, ![s].live = FALSE]
    /\ UNCHANGED <<userVars, acctVars, nodeVars, late, phase, mon, clients>>

-----------------------------------------------------------------------------
(* stop_account, and the stop half of restart_account *)

(* The client is popped and the account's tasks noted before the first
   await.  Without a client there is no await before they are cancelled. *)
AcquireStop(s) ==
    LET a == op[s].acct IN
    /\ op[s].pc = "lock" /\ op[s].kind # "start" /\ LockFree(a)
    /\ clients' = [clients EXCEPT ![a] = NoClient]
    /\ op' = [op EXCEPT ![s].pc = IF clients[a] = NoClient THEN "drain" ELSE "disconnect",
                        ![s].live = clients[a].conn = "live",
                        ![s].snap = TasksOf(a)]
    /\ IF clients[a] = NoClient THEN CancelTasks(TasksOf(a)) ELSE UNCHANGED task
    /\ UNCHANGED <<userVars, acctVars, nodeVars, late, phase, mon>>

(* client.disconnect(): updates cease and the client's tasks are cancelled. *)
Disconnect(s) ==
    /\ op[s].pc = "disconnect"
    /\ CancelTasks(OwnTasks(op[s].acct))
    /\ op' = [op EXCEPT ![s].pc = "closing", ![s].live = FALSE]
    /\ UNCHANGED <<userVars, acctVars, nodeVars, late, phase, mon, clients>>

(* disconnect() has waited for the client's tasks.  A stop goes on to cancel
   the tasks it noted; a failed start reports the error. *)
Disconnected(s) ==
    /\ op[s].pc = "closing"
    /\ OwnTasks(op[s].acct) = {}
    /\ IF op[s].kind = "start"
       THEN Patch(s, "error") /\ UNCHANGED task
       ELSE To(s, "drain") /\ CancelTasks(op[s].snap)
    /\ UNCHANGED <<userVars, acctVars, nodeVars, late, phase, mon, clients>>

Drained_NoGather(s) ==
    /\ op[s].pc = "drain"
    /\ IF op[s].by = "close"
       THEN Finish(s, TRUE)
       ELSE Patch(s, "disconnected") /\ UNCHANGED nodeVars
    /\ UNCHANGED <<userVars, acctVars, late, phase, mon, clients, task>>

(* gather() over the noted tasks, then set_status, except in close(). *)
Drained(s) ==
    /\ op[s].pc = "drain"
    /\ \A p \in op[s].snap : task[p].pc = "idle"
    /\ IF op[s].by = "close"
       THEN Finish(s, TRUE)
       ELSE Patch(s, "disconnected") /\ UNCHANGED nodeVars
    /\ UNCHANGED <<userVars, acctVars, late, phase, mon, clients, task>>

-----------------------------------------------------------------------------
(* restore_all, reconcile_approval and monitor_approval, close *)

Spawn(set, kind, by) ==
    op' = [s \in Slots |-> IF s \in set THEN Op(kind, s, by, "lock") ELSE op[s]]

GatherDone == \A a \in Accounts : op[a].pc = "idle"

(* The control server listens before the accounts are restored. *)
Boot ==
    /\ phase = "down"
    /\ phase' = "boot"
    /\ UNCHANGED <<userVars, acctVars, nodeVars, late, mon, clients, op, task>>

(* GET /accounts, and one start per row. *)
RestoreAll ==
    /\ phase = "boot"
    /\ phase' = "restore"
    /\ Spawn({a \in Accounts : session[a] /\ status[a] \in {"connected", "starting"}
                               /\ approved[Owner[a]]}, "start", "restore")
    /\ UNCHANGED <<userVars, acctVars, nodeVars, late, mon, clients, task>>

Restored ==
    /\ phase = "restore" /\ GatherDone
    /\ phase' = "run"
    /\ UNCHANGED <<userVars, acctVars, nodeVars, late, mon, clients, op, task>>

(* GET /eligibility; without an answer nobody is eligible. *)
ReadEligibility ==
    /\ phase = "run" /\ mon.pc = "sleep"
    /\ \/ mon' = [pc |-> "read",
                  elig |-> {<<a, ver[Owner[a]]>> : a \in {b \in Accounts : Eligible(b)}}]
       \/ mon' = [pc |-> "read", elig |-> {}]
    /\ UNCHANGED <<userVars, acctVars, nodeVars, late, phase, clients, op, task>>

StopIneligible_AccountOnly ==
    /\ phase = "run" /\ mon.pc = "read"
    /\ Spawn({a \in Accounts : /\ clients[a] # NoClient
                               /\ \A g \in 0 .. MaxVer : <<a, g>> \notin mon.elig},
             "stop", "monitor")
    /\ mon' = [pc |-> "stop", elig |-> {}]
    /\ UNCHANGED <<userVars, acctVars, nodeVars, late, phase, clients, task>>

(* The rows, by now perhaps old, are compared with the clients of this
   moment. *)
StopIneligible ==
    /\ phase = "run" /\ mon.pc = "read"
    /\ Spawn({a \in Accounts : /\ clients[a] # NoClient
                               /\ <<a, clients[a].gen>> \notin mon.elig}, "stop", "monitor")
    /\ mon' = [pc |-> "stop", elig |-> {}]
    /\ UNCHANGED <<userVars, acctVars, nodeVars, late, phase, clients, task>>

Reconciled ==
    /\ phase = "run" /\ mon.pc = "stop" /\ GatherDone
    /\ mon' = [mon EXCEPT !.pc = "sleep"]
    /\ UNCHANGED <<userVars, acctVars, nodeVars, late, phase, clients, op, task>>

(* run()'s finally with no stop of the monitor under way: the monitor is
   cancelled, control requests are left to finish.  A shutdown that cancels
   restore_all or stops under way is taken as a Crash. *)
Shutdown ==
    /\ phase = "run" /\ GatherDone
    /\ phase' = "closing"
    /\ mon' = [pc |-> "sleep", elig |-> {}]
    /\ UNCHANGED <<userVars, acctVars, nodeVars, late, clients, op, task>>

(* close(): every client is stopped, no status is stored. *)
CloseClients ==
    /\ phase = "closing" /\ \A s \in Slots : op[s].pc = "idle"
    /\ \E a \in Accounts : clients[a] # NoClient
    /\ Spawn({a \in Accounts : clients[a] # NoClient}, "stop", "close")
    /\ UNCHANGED <<userVars, acctVars, nodeVars, late, phase, mon, clients, task>>

WorkerGone ==
    /\ phase' = "down"
    /\ mon' = [pc |-> "sleep", elig |-> {}]
    /\ clients' = [a \in Accounts |-> NoClient]
    /\ op' = [s \in Slots |-> IdleOp]
    /\ task' = [p \in Posts |-> NoTask]

Exit ==
    /\ phase = "closing" /\ \A s \in Slots : op[s].pc = "idle"
    /\ \A a \in Accounts : clients[a] = NoClient
    /\ WorkerGone
    /\ UNCHANGED <<userVars, acctVars, nodeVars, late>>

(* Everything in memory is lost; whoever waited for an answer gets an error.
   Requests the Node server has received go on. *)
Crash ==
    /\ phase # "down"
    /\ WorkerGone
    /\ awaited' = [u \in Users |-> {}]
    /\ confirmed' = [u \in Users |-> confirmed[u] /\ awaited[u] = {}]
    /\ removing' = [a \in Accounts |-> IF removing[a] = "wait" THEN "idle" ELSE removing[a]]
    /\ \/ UNCHANGED late
       \/ \E s \in Slots :
            /\ op[s].pc = "patch" /\ Cardinality(late) < MaxLate
            /\ late' = late \cup {[acct |-> op[s].acct, st |-> op[s].st,
                                   checked |-> op[s].checked]}
    /\ UNCHANGED <<userVars, acctVars, unsent>>

(* A client gives up on its own (expired key, logged out elsewhere). *)
ClientDies(a) ==
    /\ clients[a].conn = "live"
    /\ clients' = [clients EXCEPT ![a].conn = "dead"]
    /\ UNCHANGED <<userVars, acctVars, nodeVars, late, phase, mon, op, task>>

-----------------------------------------------------------------------------
(* Event handlers *)

Delivering(a) ==
    clients[a].conn = "live" \/ \E s \in Slots : op[s].acct = a /\ op[s].live

Arrive(p, a) ==
    /\ Delivering(a) /\ task[p].pc = "idle" /\ post[p].pc = "free"
    /\ task' = [task EXCEPT ![p] = [pc |-> "filter", acct |-> a, own |-> TRUE, gen |-> 0]]
    /\ UNCHANGED <<userVars, acctVars, nodeVars, late, phase, mon, clients, op>>

(* POST /filters/check answers that the message is to be archived. *)
FilterAllows(p) ==
    /\ task[p].pc = "filter" /\ Eligible(task[p].acct)
    /\ task' = [task EXCEPT ![p].pc = "context"]
    /\ UNCHANGED <<userVars, acctVars, nodeVars, late, phase, mon, clients, op>>

(* The active client of this moment supplies the generation. *)
TakeContext(p) ==
    /\ task[p].pc = "context" /\ clients[task[p].acct] # NoClient
    /\ task' = [task EXCEPT ![p].pc = "prepare", ![p].gen = clients[task[p].acct].gen]
    /\ UNCHANGED <<userVars, acctVars, nodeVars, late, phase, mon, clients, op>>

(* Settings read, media uploaded: the payload is posted. *)
Ingest(p) ==
    /\ task[p].pc = "prepare"
    /\ I!Receive(p, task[p].acct, task[p].gen)
    /\ task' = [task EXCEPT ![p].pc = "ingest"]
    /\ UNCHANGED <<acctVars, nodeVars, late, phase, mon, clients, op>>

(* The handler returns or raises: filtered out, no context, nothing to save,
   an error, a time-out, the answer to the POST, the upload drained. *)
HandlerEnds(p) ==
    /\ task[p].pc # "idle"
    /\ task' = [task EXCEPT ![p] = NoTask]
    /\ UNCHANGED <<userVars, acctVars, nodeVars, late, phase, mon, clients, op>>

ServePost(p) ==
    /\ I!Serve(p)
    /\ UNCHANGED <<acctVars, nodeVars, late, workVars>>

-----------------------------------------------------------------------------
(* The Node server's routes and services *)

Command(s, kind, a, by) ==
    /\ WorkerUp /\ s \in Cmds /\ op[s].pc = "idle"
    /\ op' = [op EXCEPT ![s] = Op(kind, a, by, "lock")]
    /\ UNCHANGED <<phase, mon, clients, task>>

(* POST /:id/reconnect and /:id/disconnect *)
Reconnect(s, a) ==
    /\ Eligible(a)
    /\ Command(s, "restart", a, "node")
    /\ UNCHANGED <<userVars, acctVars, nodeVars, late>>

DisconnectAccount(s, a) ==
    /\ Eligible(a)
    /\ Command(s, "stop", a, "node")
    /\ UNCHANGED <<userVars, acctVars, nodeVars, late>>

(* DELETE /:id/connection: stop first, give up if the worker does not
   answer. *)
RemoveBegins(s, a) ==
    /\ approved[Owner[a]] /\ removing[a] = "idle"
    /\ session[a]
    /\ Command(s, "stop", a, "remove")
    /\ removing' = [removing EXCEPT ![a] = "wait"]
    /\ UNCHANGED <<userVars, acctVars, unsent, awaited, confirmed, late>>

(* A connection already removed needs no stop. *)
RemoveAgain(a) ==
    /\ approved[Owner[a]] /\ removing[a] = "idle"
    /\ ~session[a]
    /\ removing' = [removing EXCEPT ![a] = "acked"]
    /\ UNCHANGED <<userVars, acctVars, unsent, awaited, confirmed, late, workVars>>

RemoveCommits(a) ==
    /\ removing[a] = "acked" /\ AccountRowFree(a)
    /\ removing' = [removing EXCEPT ![a] = "idle"]
    /\ session' = [session EXCEPT ![a] = FALSE]
    /\ status' = [status EXCEPT ![a] = "removed"]
    /\ UNCHANGED <<userVars, unsent, awaited, confirmed, late, workVars>>

(* finalizeConnection of a new Telegram login, then a start command that may
   not reach the worker. *)
Link(s, a) ==
    /\ approved[Owner[a]] /\ I!RowFree(Owner[a]) /\ AccountRowFree(a)
    /\ session' = [session EXCEPT ![a] = TRUE]
    /\ status' = [status EXCEPT ![a] = "connected"]
    /\ Command(s, "start", a, "node") \/ UNCHANGED workVars
    /\ UNCHANGED <<userVars, nodeVars, late>>

(* controlAccount's time-out: the command itself goes on. *)
CommandTimesOut(s) ==
    LET a == op[s].acct IN LET u == Owner[a] IN
    /\ op[s].pc # "idle" /\ op[s].by \in {"admin", "remove"}
    /\ op' = [op EXCEPT ![s].by = "node"]
    /\ IF op[s].by = "admin"
       THEN /\ awaited' = [awaited EXCEPT ![u] = @ \ {a}]
            /\ confirmed' = [confirmed EXCEPT ![u] = FALSE]
            /\ UNCHANGED removing
       ELSE removing' = [removing EXCEPT ![a] = "idle"] /\ UNCHANGED <<awaited, confirmed>>
    /\ UNCHANGED <<userVars, acctVars, unsent, late, phase, mon, clients, task>>

Approve(u) ==
    /\ I!Approve(u)
    /\ UNCHANGED <<acctVars, nodeVars, late, workVars>>

ChangeCredential(u) ==
    /\ I!ChangeCredential(u)
    /\ UNCHANGED <<acctVars, nodeVars, late, workVars>>

AccountsOf(u) == {a \in Accounts : Owner[a] = u}

(* setApproval(u, FALSE): users and telegram_accounts change in one
   transaction; a pause for every account follows. *)
Suspend(u) ==
    /\ unsent[u] = {} /\ awaited[u] = {}
    /\ I!Suspend(u)
    /\ status' = [a \in Accounts |->
                    IF Owner[a] = u /\ status[a] \in {"connected", "starting"}
                    THEN "disconnected" ELSE status[a]]
    /\ unsent' = [unsent EXCEPT ![u] = AccountsOf(u)]
    /\ confirmed' = [confirmed EXCEPT ![u] = TRUE]
    /\ UNCHANGED <<session, awaited, removing, late, workVars>>

SendPause(s, a) ==
    LET u == Owner[a] IN
    /\ a \in unsent[u]
    /\ Command(s, "stop", a, "admin")
    /\ unsent' = [unsent EXCEPT ![u] = @ \ {a}]
    /\ awaited' = [awaited EXCEPT ![u] = @ \cup {a}]
    /\ UNCHANGED <<userVars, acctVars, confirmed, removing, late>>

PauseLost_Unreported(a) ==
    /\ a \in unsent[Owner[a]]
    /\ unsent' = [unsent EXCEPT ![Owner[a]] = @ \ {a}]
    /\ UNCHANGED <<userVars, acctVars, awaited, confirmed, removing, late, workVars>>

(* Connection refused. *)
PauseLost(a) ==
    LET u == Owner[a] IN
    /\ a \in unsent[u]
    /\ unsent' = [unsent EXCEPT ![u] = @ \ {a}]
    /\ confirmed' = [confirmed EXCEPT ![u] = FALSE]
    /\ UNCHANGED <<userVars, acctVars, awaited, removing, late, workVars>>

-----------------------------------------------------------------------------
Acquire(s) == AcquireStart(s) \/ AcquireStop(s)

Advance(s) ==
    \/ PatchCheck(s) \/ PatchApply(s) \/ PatchTimeout(s)
    \/ LookupCheck(s) \/ LookupRow(s) \/ StartRaises(s)
    \/ Connect(s) \/ Authorized(s) \/ SessionRevoked(s)
    \/ Disconnect(s) \/ Disconnected(s) \/ Drained(s)

Loop ==
    \/ RestoreAll \/ Restored
    \/ ReadEligibility \/ StopIneligible \/ Reconciled
    \/ CloseClients \/ Exit

Handle(p) ==
    \/ FilterAllows(p) \/ TakeContext(p) \/ Ingest(p)
    \/ HandlerEnds(p) \/ ServePost(p)

Routes ==
    \/ \E s \in Cmds, a \in Accounts :
        \/ "reconnect" \in Requests /\ Reconnect(s, a)
        \/ "disconnect" \in Requests /\ DisconnectAccount(s, a)
        \/ "remove" \in Requests /\ RemoveBegins(s, a)
        \/ "link" \in Requests /\ Link(s, a)
        \/ SendPause(s, a)
    \/ \E s \in Cmds : CommandTimesOut(s)
    \/ \E a \in Accounts :
        \/ "remove" \in Requests /\ RemoveAgain(a)
        \/ RemoveCommits(a) \/ PauseLost(a)
    \/ \E u \in Users :
        \/ "approval" \in Requests /\ (Approve(u) \/ Suspend(u))
        \/ "credential" \in Requests /\ ChangeCredential(u)

Next ==
    \/ \E s \in Slots : Acquire(s) \/ Advance(s)
    \/ \E p \in Posts : Handle(p)
    \/ \E p \in Posts, a \in Accounts : Arrive(p, a)
    \/ \E r \in late : LateCheck(r) \/ LateApply(r) \/ LateDrop(r)
    \/ \E a \in Accounts : ClientDies(a)
    \/ Loop \/ Boot \/ Shutdown \/ Crash
    \/ Routes

Spec == Init /\ [][Next]_vars

-----------------------------------------------------------------------------
(* An account of a suspended owner is never left in a status the worker
   restores at start-up, whichever status request or login races the
   suspension. *)
SuspendedNotRestorable ==
    \A a \in Accounts :
        ~approved[Owner[a]] => status[a] \notin {"connected", "starting"}

(* At most one client of an account is connected to Telegram, whether it is
   registered, still being started, or already popped and not yet
   disconnected. *)
LiveClients(a) ==
    {s \in Slots : op[s].acct = a /\ op[s].live}
        \cup (IF clients[a].conn = "live" THEN {"registered"} ELSE {})

OneClientPerAccount == \A a \in Accounts : Cardinality(LiveClients(a)) <= 1

(* When a stop reports "disconnected", no client of the account delivers
   updates and no handler of any of its clients is left, cancelled uploads
   included. *)
QuietAfterStop ==
    \A s \in Slots :
        op[s].pc = "patch" /\ op[s].st = "disconnected" =>
            ~Delivering(op[s].acct) /\ TasksOf(op[s].acct) = {}

(* A start that fails leaves no client behind: wherever it failed (the lookup,
   Telegram, or the report "connected" refused because the owner was suspended
   meanwhile), no client of the account is connected, its own or another's,
   when it reports "error" or "revoked". *)
FailedStartDisconnects ==
    \A s \in Slots :
        op[s].pc = "patch" /\ op[s].st \in {"error", "revoked"} => ~Delivering(op[s].acct)

(* A suspension answered with worker_pause_pending = false is a confirmed
   stop: until the owner is approved again no client of any of the owner's
   accounts is registered or connected, whatever commands were queued. *)
ConfirmedStop ==
    \A u \in Users :
        confirmed[u] /\ unsent[u] = {} /\ awaited[u] = {} /\ ~approved[u] =>
            \A a \in AccountsOf(u) : clients[a] = NoClient /\ ~Delivering(a)

(* Ingestion's barrier holds for what this worker really sends: handlers of a
   revoked lease whose POST is already on its way. *)
NothingAfterSuspension == I!NothingAfterSuspension

(* A client whose account is no longer eligible, or whose lease is of an
   earlier generation. *)
StaleClient(a) ==
    clients[a] # NoClient /\ ~(Eligible(a) /\ clients[a].gen = ver[Owner[a]])

(* Every await of the worker ends: HTTP calls have a 10 s time-out, Telegram
   calls are assumed to return, and asyncio.Lock serves its waiters in
   order. *)
Fairness ==
    /\ \A s \in Slots : SF_vars(Acquire(s)) /\ WF_vars(Advance(s))
    /\ WF_vars(Loop)
    /\ \A p \in Posts : WF_vars(task[p].pc = "drain" /\ HandlerEnds(p))

FairSpec == Spec /\ Fairness

(* No client outlives its lease: whatever becomes of the pause command, a
   client made stale by a suspension, a password change or a removal is
   eventually gone. *)
LeaseEnds == \A a \in Accounts : StaleClient(a) ~> ~StaleClient(a)
=============================================================================
