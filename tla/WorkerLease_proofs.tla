------------------------- MODULE WorkerLease_proofs -------------------------
(* The worker and the routes it works with, for any number of owners,
   accounts, coroutines, handlers and late requests. *)
EXTENDS WorkerLease, TLAPS, FiniteSetTheorems

USE OwnerAssumption, NoAccountAssumption, SlotAssumption, BoundAssumption

-----------------------------------------------------------------------------
(* The type invariant, a part for each group of variables. *)

OpType == [pc : {"idle", "lock", "patch", "lookup", "connect", "authorize",
                 "disconnect", "closing", "drain"},
           kind : {"start", "stop", "restart"},
           acct : Accounts \cup {NoAccount},
           by : {"node", "admin", "remove", "restore", "monitor", "close"},
           st : (Statuses \ {"removed"}) \cup {"none"},
           checked : BOOLEAN, gen : 0 .. MaxVer, live : BOOLEAN, snap : SUBSET Posts]

TaskType == [pc : {"idle", "filter", "context", "prepare", "ingest", "drain"},
             acct : Accounts \cup {NoAccount}, own : BOOLEAN, gen : 0 .. MaxVer]

Named(r) == r.pc = "idle" <=> r.acct = NoAccount

Formed(r) == Named(r) /\ (r.pc = "patch" => r.st # "none")

AcctOK == status \in [Accounts -> Statuses] /\ session \in [Accounts -> BOOLEAN]

NodeOK ==
    /\ unsent \in [Users -> SUBSET Accounts] /\ awaited \in [Users -> SUBSET Accounts]
    /\ confirmed \in [Users -> BOOLEAN]
    /\ removing \in [Accounts -> {"idle", "wait", "acked"}]

LateOK == late \subseteq [acct : Accounts, st : Statuses \ {"removed"}, checked : BOOLEAN]

LoopOK ==
    /\ phase \in {"down", "boot", "restore", "run", "closing"}
    /\ mon \in [pc : {"sleep", "read", "stop"}, elig : SUBSET (Accounts \X (0 .. MaxVer))]

ClientsOK == clients \in [Accounts -> [conn : {"none", "live", "dead"}, gen : 0 .. MaxVer]]

OpOK == op \in [Slots -> OpType] /\ \A s \in Slots : Formed(op[s])

TaskOK == task \in [Posts -> TaskType] /\ \A p \in Posts : Named(task[p])

LEMMA TypeParts ==
    TypeOK <=> /\ I!TypeOK /\ AcctOK /\ NodeOK /\ LateOK /\ LoopOK
               /\ ClientsOK /\ OpOK /\ TaskOK
  BY DEF TypeOK, AcctOK, NodeOK, LateOK, LoopOK, ClientsOK, OpOK, TaskOK,
         OpType, TaskType, Named, Formed

LEMMA TypePartsNext ==
    TypeOK' <=> /\ I!TypeOK' /\ AcctOK' /\ NodeOK' /\ LateOK' /\ LoopOK'
                /\ ClientsOK' /\ OpOK' /\ TaskOK'
  BY DEF TypeOK, AcctOK, NodeOK, LateOK, LoopOK, ClientsOK, OpOK, TaskOK,
         OpType, TaskType, Named, Formed

-----------------------------------------------------------------------------
(* What the helpers of the actions do to the coroutines and the handlers. *)

LEMMA OpRecord ==
    ASSUME NEW kind \in {"start", "stop", "restart"}, NEW a \in Accounts,
           NEW by \in {"node", "admin", "remove", "restore", "monitor", "close"}
    PROVE  Op(kind, a, by, "lock") \in OpType /\ Formed(Op(kind, a, by, "lock"))
  BY DEF Op, OpType, Named, Formed

LEMMA IdleRecord == IdleOp \in OpType /\ Formed(IdleOp)
  BY DEF IdleOp, Op, OpType, Named, Formed

LEMMA OpBecomes ==
    ASSUME OpOK, NEW s \in Slots, NEW r \in OpType, Formed(r), op' = [op EXCEPT ![s] = r]
    PROVE  OpOK'
  BY DEF OpOK

LEMMA Moves ==
    ASSUME OpOK, NEW s \in Slots, op[s].pc # "idle",
           NEW pc \in {"lock", "lookup", "connect", "authorize",
                       "disconnect", "closing", "drain"},
           To(s, pc)
    PROVE  OpOK'
  <1> DEFINE r == [op[s] EXCEPT !.pc = pc]
  <1>1. r \in OpType /\ Formed(r)
    BY DEF OpOK, OpType, Named, Formed
  <1>2. op' = [op EXCEPT ![s] = r]
    BY DEF To, OpOK, OpType
  <1> QED BY <1>1, <1>2, OpBecomes

LEMMA Patches ==
    ASSUME OpOK, NEW s \in Slots, op[s].pc # "idle",
           NEW st \in Statuses \ {"removed"}, Patch(s, st)
    PROVE  OpOK'
  <1> DEFINE r == [op[s] EXCEPT !.pc = "patch", !.st = st, !.checked = FALSE]
  <1>1. op[s] \in OpType
    BY DEF OpOK
  <1>2. r \in OpType
    BY <1>1, Zenon DEF OpType
  <1>3. Formed(r)
    BY DEF OpOK, OpType, Named, Formed, Statuses
  <1>4. op' = [op EXCEPT ![s] = r]
    BY DEF Patch, OpOK, OpType
  <1> QED BY <1>2, <1>3, <1>4, OpBecomes

LEMMA Answers ==
    ASSUME NodeOK, OpOK, NEW s \in Slots, NEW ok \in BOOLEAN, op[s].pc # "idle",
           Answer(s, ok)
    PROVE  NodeOK'
  <1> DEFINE a == op[s].acct
             u == Owner[a]
  <1>1. a \in Accounts /\ u \in Users
    BY DEF OpOK, OpType, Named, Formed
  <1> QED BY <1>1 DEF Answer, NodeOK

LEMMA Finishes ==
    ASSUME NodeOK, OpOK, NEW s \in Slots, NEW ok \in BOOLEAN, op[s].pc # "idle",
           Finish(s, ok)
    PROVE  NodeOK' /\ OpOK'
  BY Answers, IdleRecord, OpBecomes DEF Finish

LEMMA TasksCancelled ==
    ASSUME TaskOK, NEW set, CancelTasks(set) PROVE TaskOK'
  <1>1. NoTask \in TaskType /\ Named(NoTask)
    BY DEF NoTask, TaskType, Named
  <1>2. ASSUME NEW p \in Posts PROVE Cancelled(task[p]) \in TaskType /\ Named(Cancelled(task[p]))
    BY <1>1 DEF TaskOK, Cancelled, TaskType, Named
  <1> QED BY <1>2 DEF CancelTasks, TaskOK

LEMMA StartsFail ==
    ASSUME NodeOK, ClientsOK, OpOK, NEW s \in Slots, op[s].pc # "idle", StartFails(s)
    PROVE  NodeOK' /\ ClientsOK' /\ OpOK'
  <1> DEFINE a == op[s].acct
  <1>1. NodeOK'
    BY DEF StartFails, nodeVars, NodeOK
  <1>2. ClientsOK'
    <2>1. clients' = [clients EXCEPT ![a] = NoClient]
      BY Zenon DEF StartFails
    <2>2. NoClient \in [conn : {"none", "live", "dead"}, gen : 0 .. MaxVer]
      BY DEF NoClient
    <2> QED BY <2>1, <2>2 DEF ClientsOK
  <1>3. CASE op[s].pc = "lookup"
    <2>1. Patch(s, "error")
      BY <1>3 DEF StartFails
    <2> QED BY <1>1, <1>2, <2>1, Patches DEF Statuses
  <1>4. CASE op[s].pc # "lookup"
    <2>1. op' = [op EXCEPT ![s].pc = "disconnect",
                           ![s].live = op[s].live \/ clients[a].conn = "live"]
      BY <1>4 DEF StartFails
    <2>2. OpOK'
      <3> DEFINE r == [op[s] EXCEPT !.pc = "disconnect",
                                    !.live = op[s].live \/ clients[a].conn = "live"]
      <3>1. op[s] \in OpType
        BY DEF OpOK
      <3>2. r \in OpType
        BY <3>1, Zenon DEF OpType
      <3>3. Formed(r)
        BY DEF OpOK, OpType, Named, Formed
      <3>4. op' = [op EXCEPT ![s] = r]
        BY <2>1 DEF OpOK, OpType
      <3> QED BY <3>2, <3>3, <3>4, OpBecomes
    <2> QED BY <1>1, <1>2, <2>2
  <1> QED BY <1>3, <1>4

LEMMA PatchesReturn ==
    ASSUME NodeOK, ClientsOK, OpOK, NEW s \in Slots, NEW ok \in BOOLEAN,
           op[s].pc = "patch", PatchReturns(s, ok)
    PROVE  NodeOK' /\ ClientsOK' /\ OpOK'
  <1> DEFINE o == op[s]
  <1>1. CASE op' = [op EXCEPT ![s].pc = "lookup", ![s].checked = FALSE]
             /\ UNCHANGED <<clients, nodeVars>>
    <2> DEFINE r == [op[s] EXCEPT !.pc = "lookup", !.checked = FALSE]
    <2>1. op[s] \in OpType
      BY DEF OpOK
    <2>2. r \in OpType
      BY <2>1, Zenon DEF OpType
    <2>3. Formed(r)
      BY DEF OpOK, OpType, Named, Formed
    <2>4. op' = [op EXCEPT ![s] = r]
      BY <1>1 DEF OpOK, OpType
    <2>5. OpOK'
      BY <2>2, <2>3, <2>4, OpBecomes
    <2> QED BY <1>1, <2>5 DEF NodeOK, nodeVars, ClientsOK
  <1>2. CASE op' = [op EXCEPT ![s] = Op("start", o.acct, o.by, "lock")]
             /\ UNCHANGED <<clients, nodeVars>>
    <2>1. o.acct \in Accounts /\ o.by \in {"node", "admin", "remove", "restore", "monitor", "close"}
      BY DEF OpOK, OpType, Named, Formed
    <2>2. OpOK'
      BY <1>2, <2>1, OpRecord, OpBecomes
    <2> QED BY <1>2, <2>2 DEF NodeOK, nodeVars, ClientsOK
  <1>3. CASE StartFails(s)
    BY <1>3, StartsFail
  <1>4. CASE Finish(s, ok /\ o.st # "error") /\ UNCHANGED clients
    BY <1>4, Finishes DEF ClientsOK
  <1> QED BY <1>1, <1>2, <1>3, <1>4, Zenon DEF PatchReturns

LEMMA StatusTyped ==
    ASSUME AcctOK, NEW a \in Accounts, NEW st \in Statuses, StoreStatus(a, st)
    PROVE  AcctOK'
  BY DEF AcctOK, StoreStatus

-----------------------------------------------------------------------------
(* Variables an action leaves alone keep their type. *)
LEMMA Kept ==
    ASSUME TypeOK
    PROVE  /\ UNCHANGED acctVars => AcctOK'
           /\ UNCHANGED nodeVars => NodeOK'
           /\ UNCHANGED late => LateOK'
           /\ UNCHANGED <<phase, mon>> => LoopOK'
           /\ UNCHANGED clients => ClientsOK'
           /\ UNCHANGED op => OpOK'
           /\ UNCHANGED task => TaskOK'
  BY TypeParts DEF AcctOK, NodeOK, LateOK, LoopOK, ClientsOK, OpOK, TaskOK,
                   acctVars, nodeVars

(* The variables of this module, all but those of Ingestion. *)
OwnOK ==
    AcctOK /\ NodeOK /\ LateOK /\ LoopOK /\ ClientsOK /\ OpOK /\ TaskOK

(* A status request: its check, its UPDATE, its time-out, and what happens to
   it after the worker has given up. *)
LEMMA PatchSteps ==
    ASSUME TypeOK, NEW s \in Slots, PatchCheck(s) \/ PatchApply(s) \/ PatchTimeout(s)
    PROVE  OwnOK'
  <1> DEFINE o == op[s]
  <1>0. OwnOK
    BY TypeParts DEF OwnOK
  <1>1. /\ o.pc = "patch" /\ o \in OpType
        /\ o.acct \in Accounts /\ o.st \in Statuses \ {"removed"} /\ o.checked \in BOOLEAN
    BY <1>0 DEF PatchCheck, PatchApply, PatchTimeout, OwnOK, OpOK, OpType, Named, Formed
  <1>2. CASE PatchCheck(s)
    <2>1. CASE Eligible(o.acct)
      <3> DEFINE r == [op[s] EXCEPT !.checked = TRUE]
      <3>1. r \in OpType
        BY <1>1, Zenon DEF OpType
      <3>2. Formed(r)
        BY <1>0 DEF OwnOK, OpOK, OpType, Named, Formed
      <3>3. op' = [op EXCEPT ![s] = r]
        BY <1>0, <1>2, <2>1 DEF PatchCheck, OwnOK, OpOK, OpType
      <3>4. OpOK'
        BY <1>0, <3>1, <3>2, <3>3, OpBecomes DEF OwnOK
      <3> QED BY <1>2, <2>1, <3>4, Kept, Zenon DEF PatchCheck, OwnOK
    <2>2. CASE ~Eligible(o.acct)
      <3>1. PatchReturns(s, FALSE)
        BY <1>2, <2>2 DEF PatchCheck
      <3>2. NodeOK' /\ ClientsOK' /\ OpOK'
        BY <1>0, <1>1, <3>1, PatchesReturn DEF OwnOK
      <3> QED BY <1>2, <3>2, Kept, Zenon DEF PatchCheck, OwnOK
    <2> QED BY <2>1, <2>2
  <1>3. CASE PatchApply(s) \/ PatchTimeout(s)
    <2>1. \E ok \in BOOLEAN : PatchReturns(s, ok)
      BY <1>3, Zenon DEF PatchApply, PatchTimeout
    <2>2. NodeOK' /\ ClientsOK' /\ OpOK'
      BY <1>0, <1>1, <2>1, PatchesReturn DEF OwnOK
    <2>3. AcctOK'
      <3>1. CASE PatchApply(s)
        <4>1. StoreStatus(o.acct, o.st)
          BY <3>1, Zenon DEF PatchApply
        <4> QED BY <1>0, <1>1, <4>1, StatusTyped DEF OwnOK
      <3>2. CASE PatchTimeout(s)
        BY <3>2, Kept DEF PatchTimeout
      <3> QED BY <1>3, <3>1, <3>2
    <2>4. LateOK'
      <3>1. \/ late' = late
            \/ late' = late \cup {[acct |-> o.acct, st |-> o.st, checked |-> o.checked]}
        BY <1>3, Zenon DEF PatchApply, PatchTimeout
      <3>2. [acct |-> o.acct, st |-> o.st, checked |-> o.checked]
                \in [acct : Accounts, st : Statuses \ {"removed"}, checked : BOOLEAN]
        BY <1>1
      <3> QED BY <1>0, <3>1, <3>2 DEF OwnOK, LateOK
    <2>5. LoopOK' /\ TaskOK'
      BY <1>3, Kept DEF PatchApply, PatchTimeout
    <2> QED BY <2>2, <2>3, <2>4, <2>5 DEF OwnOK
  <1> QED BY <1>2, <1>3

LEMMA LateSteps ==
    ASSUME TypeOK, NEW r \in late, LateCheck(r) \/ LateApply(r) \/ LateDrop(r)
    PROVE  OwnOK'
  <1>1. AcctOK /\ r \in [acct : Accounts, st : Statuses \ {"removed"}, checked : BOOLEAN]
    BY TypeParts DEF LateOK
  <1>2. AcctOK'
    <2>1. CASE LateApply(r)
      BY <1>1, <2>1, StatusTyped DEF LateApply
    <2>2. CASE LateCheck(r) \/ LateDrop(r)
      BY <2>2, Kept, Zenon DEF LateCheck, LateDrop
    <2> QED BY <2>1, <2>2
  <1>3. LateOK'
    <2>1. [r EXCEPT !.checked = TRUE]
             \in [acct : Accounts, st : Statuses \ {"removed"}, checked : BOOLEAN]
      BY <1>1, Zenon
    <2>2. late' \subseteq late \cup {[r EXCEPT !.checked = TRUE]}
      BY DEF LateCheck, LateApply, LateDrop
    <2> QED BY <2>1, <2>2, TypeParts DEF LateOK
  <1> QED BY <1>2, <1>3, Kept, Zenon DEF LateCheck, LateApply, LateDrop, workVars, OwnOK

-----------------------------------------------------------------------------
(* start_account *)
LEMMA StartSteps ==
    ASSUME TypeOK, NEW s \in Slots,
           \/ AcquireStart(s) \/ LookupCheck(s) \/ LookupRow(s) \/ StartRaises(s)
           \/ Connect(s) \/ Authorized(s) \/ SessionRevoked(s)
    PROVE  OwnOK'
  <1> DEFINE a == op[s].acct
  <1>0. OwnOK /\ I!TypeOK
    BY TypeParts DEF OwnOK
  <1>1. op[s].pc # "idle"
    BY DEF AcquireStart, LookupCheck, LookupRow, StartRaises, Connect, Authorized,
           SessionRevoked
  <1>2. op[s] \in OpType /\ a \in Accounts /\ Formed(op[s])
    BY <1>0, <1>1 DEF OwnOK, OpOK, OpType, Named, Formed
  <1>3. CASE AcquireStart(s)
    <2>1. CASE clients[a].conn = "live"
      <3>1. Finish(s, TRUE)
        BY <1>3, <2>1 DEF AcquireStart
      <3>2. NodeOK' /\ OpOK'
        BY <1>0, <1>1, <3>1, Finishes DEF OwnOK
      <3> QED BY <1>3, <3>2, Kept, Zenon DEF AcquireStart, OwnOK
    <2>2. CASE clients[a].conn # "live"
      <3>1. OpOK' /\ UNCHANGED nodeVars
        BY <1>0, <1>1, <1>3, <2>2, Patches DEF AcquireStart, OwnOK, Statuses
      <3> QED BY <1>3, <3>1, Kept, Zenon DEF AcquireStart, OwnOK
    <2> QED BY <2>1, <2>2
  <1>4. CASE LookupCheck(s)
    <2> DEFINE r == [op[s] EXCEPT !.checked = TRUE, !.gen = ver[Owner[a]]]
    <2>1. ver[Owner[a]] \in 0 .. MaxVer
      BY <1>0, <1>2 DEF I!TypeOK
    <2>2. r \in OpType
      BY <1>2, <2>1, Zenon DEF OpType
    <2>3. Formed(r)
      BY <1>2 DEF OpType, Named, Formed
    <2>4. op' = [op EXCEPT ![s] = r]
      BY <1>0, <1>4 DEF LookupCheck, OwnOK, OpOK, OpType
    <2>5. OpOK'
      BY <1>0, <2>2, <2>3, <2>4, OpBecomes DEF OwnOK
    <2> QED BY <1>4, <2>5, Kept, Zenon DEF LookupCheck, OwnOK
  <1>5. CASE LookupRow(s)
    <2>1. OpOK'
      BY <1>0, <1>1, <1>5, Moves DEF LookupRow, OwnOK
    <2> QED BY <1>5, <2>1, Kept, Zenon DEF LookupRow, OwnOK
  <1>6. CASE StartRaises(s)
    <2>1. NodeOK' /\ ClientsOK' /\ OpOK'
      BY <1>0, <1>1, <1>6, StartsFail DEF StartRaises, OwnOK
    <2> QED BY <1>6, <2>1, Kept, Zenon DEF StartRaises, OwnOK
  <1>7. CASE Connect(s)
    <2> DEFINE r == [op[s] EXCEPT !.pc = "authorize", !.live = TRUE]
    <2>1. r \in OpType
      BY <1>2, Zenon DEF OpType
    <2>2. Formed(r)
      BY <1>2, <1>1 DEF OpType, Named, Formed
    <2>3. op' = [op EXCEPT ![s] = r]
      BY <1>0, <1>7 DEF Connect, OwnOK, OpOK, OpType
    <2>4. OpOK'
      BY <1>0, <2>1, <2>2, <2>3, OpBecomes DEF OwnOK
    <2>5. TaskOK'
      BY <1>0, <1>7 DEF Connect, OwnOK, TaskOK, TaskType, Named
    <2> QED BY <1>7, <2>4, <2>5, Kept, Zenon DEF Connect, OwnOK
  <1>8. CASE Authorized(s)
    <2> DEFINE r == [op[s] EXCEPT !.pc = "patch", !.st = "connected",
                                  !.checked = FALSE, !.live = FALSE]
    <2>0. "connected" \in (Statuses \ {"removed"}) \cup {"none"}
      BY DEF Statuses
    <2>1. r \in OpType
      BY <1>2, <2>0, Zenon DEF OpType
    <2>2. Formed(r)
      BY <1>2, <1>1 DEF OpType, Named, Formed
    <2>3. op' = [op EXCEPT ![s] = r]
      BY <1>0, <1>8 DEF Authorized, OwnOK, OpOK, OpType
    <2>4. OpOK'
      BY <1>0, <2>1, <2>2, <2>3, OpBecomes DEF OwnOK
    <2>5. ClientsOK'
      BY <1>0, <1>2, <1>8 DEF Authorized, OwnOK, ClientsOK, OpType
    <2> QED BY <1>8, <2>4, <2>5, Kept, Zenon DEF Authorized, OwnOK
  <1>9. CASE SessionRevoked(s)
    <2> DEFINE r == [op[s] EXCEPT !.pc = "patch", !.st = "revoked",
                                  !.checked = FALSE, !.live = FALSE]
    <2>0. "revoked" \in (Statuses \ {"removed"}) \cup {"none"}
      BY DEF Statuses
    <2>1. r \in OpType
      BY <1>2, <2>0, Zenon DEF OpType
    <2>2. Formed(r)
      BY <1>2, <1>1 DEF OpType, Named, Formed
    <2>3. op' = [op EXCEPT ![s] = r]
      BY <1>0, <1>9 DEF SessionRevoked, OwnOK, OpOK, OpType
    <2>4. OpOK'
      BY <1>0, <2>1, <2>2, <2>3, OpBecomes DEF OwnOK
    <2>5. TaskOK'
      BY <1>0, <1>9, TasksCancelled DEF SessionRevoked, OwnOK
    <2> QED BY <1>9, <2>4, <2>5, Kept, Zenon DEF SessionRevoked, OwnOK
  <1> QED BY <1>3, <1>4, <1>5, <1>6, <1>7, <1>8, <1>9

-----------------------------------------------------------------------------
(* stop_account *)
LEMMA StopSteps ==
    ASSUME TypeOK, NEW s \in Slots,
           AcquireStop(s) \/ Disconnect(s) \/ Disconnected(s) \/ Drained(s)
    PROVE  OwnOK'
  <1> DEFINE a == op[s].acct
  <1>0. OwnOK
    BY TypeParts DEF OwnOK
  <1>1. op[s].pc # "idle"
    BY DEF AcquireStop, Disconnect, Disconnected, Drained
  <1>2. op[s] \in OpType /\ a \in Accounts /\ Formed(op[s])
    BY <1>0, <1>1 DEF OwnOK, OpOK, OpType, Named, Formed
  <1>3. CASE AcquireStop(s)
    <2> DEFINE pc == IF clients[a] = NoClient THEN "drain" ELSE "disconnect"
               r == [op[s] EXCEPT !.pc = pc, !.live = clients[a].conn = "live",
                                  !.snap = TasksOf(a)]
    <2>1. TasksOf(a) \in SUBSET Posts
      BY DEF TasksOf
    <2>2. r \in OpType
      BY <1>2, <2>1, Zenon DEF OpType
    <2>3. Formed(r)
      BY <1>2, <1>1 DEF OpType, Named, Formed
    <2>4. op' = [op EXCEPT ![s] = r]
      BY <1>0, <1>3 DEF AcquireStop, OwnOK, OpOK, OpType
    <2>5. OpOK'
      BY <1>0, <2>2, <2>3, <2>4, OpBecomes DEF OwnOK
    <2>6. ClientsOK'
      <3>1. NoClient \in [conn : {"none", "live", "dead"}, gen : 0 .. MaxVer]
        BY DEF NoClient
      <3>2. clients' = [clients EXCEPT ![a] = NoClient]
        BY <1>3, Zenon DEF AcquireStop
      <3> QED BY <1>0, <3>1, <3>2 DEF OwnOK, ClientsOK
    <2>7. TaskOK'
      BY <1>0, <1>3, TasksCancelled DEF AcquireStop, OwnOK, TaskOK
    <2> QED BY <1>3, <2>5, <2>6, <2>7, Kept, Zenon DEF AcquireStop, OwnOK
  <1>4. CASE Disconnect(s)
    <2> DEFINE r == [op[s] EXCEPT !.pc = "closing", !.live = FALSE]
    <2>1. r \in OpType
      BY <1>2, Zenon DEF OpType
    <2>2. Formed(r)
      BY <1>2, <1>1 DEF OpType, Named, Formed
    <2>3. op' = [op EXCEPT ![s] = r]
      BY <1>0, <1>4 DEF Disconnect, OwnOK, OpOK, OpType
    <2>4. OpOK'
      BY <1>0, <2>1, <2>2, <2>3, OpBecomes DEF OwnOK
    <2>5. TaskOK'
      BY <1>0, <1>4, TasksCancelled DEF Disconnect, OwnOK
    <2> QED BY <1>4, <2>4, <2>5, Kept, Zenon DEF Disconnect, OwnOK
  <1>5. CASE Disconnected(s)
    <2>1. OpOK' /\ TaskOK'
      <3>1. CASE op[s].kind = "start"
        BY <1>0, <1>1, <1>5, <3>1, Patches DEF Disconnected, OwnOK, Statuses, TaskOK
      <3>2. CASE op[s].kind # "start"
        BY <1>0, <1>1, <1>5, <3>2, Moves, TasksCancelled DEF Disconnected, OwnOK
      <3> QED BY <3>1, <3>2
    <2> QED BY <1>5, <2>1, Kept, Zenon DEF Disconnected, OwnOK
  <1>6. CASE Drained(s)
    <2>1. NodeOK' /\ OpOK'
      <3>1. CASE op[s].by = "close"
        BY <1>0, <1>1, <1>6, <3>1, Finishes DEF Drained, OwnOK
      <3>2. CASE op[s].by # "close"
        BY <1>0, <1>1, <1>6, <3>2, Patches DEF Drained, OwnOK, Statuses, nodeVars, NodeOK
      <3> QED BY <3>1, <3>2
    <2> QED BY <1>6, <2>1, Kept, Zenon DEF Drained, OwnOK
  <1> QED BY <1>3, <1>4, <1>5, <1>6

-----------------------------------------------------------------------------
(* The manager's loops *)
LEMMA Spawned ==
    ASSUME OpOK, NEW set \in SUBSET Accounts, NEW kind \in {"start", "stop"},
           NEW by \in {"restore", "monitor", "close"}, Spawn(set, kind, by)
    PROVE  OpOK'
  <1>1. \A a \in set : Op(kind, a, by, "lock") \in OpType /\ Formed(Op(kind, a, by, "lock"))
    BY OpRecord
  <1> QED BY <1>1 DEF Spawn, OpOK

LEMMA Gone ==
    ASSUME WorkerGone PROVE LoopOK' /\ ClientsOK' /\ OpOK' /\ TaskOK'
  <1>1. LoopOK'
    BY DEF WorkerGone, LoopOK
  <1>2. NoClient \in [conn : {"none", "live", "dead"}, gen : 0 .. MaxVer]
    BY DEF NoClient
  <1>3. NoTask \in TaskType /\ Named(NoTask)
    BY DEF NoTask, TaskType, Named
  <1> QED BY <1>1, <1>2, <1>3, IdleRecord DEF WorkerGone, ClientsOK, OpOK, TaskOK

LEMMA LoopSteps ==
    ASSUME TypeOK,
           \/ Loop \/ Boot \/ Shutdown \/ Crash
           \/ \E a \in Accounts : ClientDies(a)
    PROVE  OwnOK'
  <1>0. OwnOK /\ I!TypeOK
    BY TypeParts DEF OwnOK
  <1>1. CASE RestoreAll
    <2>1. OpOK'
      BY <1>0, <1>1, Spawned DEF RestoreAll, OwnOK
    <2>2. LoopOK'
      BY <1>0, <1>1 DEF RestoreAll, OwnOK, LoopOK
    <2> QED BY <1>1, <2>1, <2>2, Kept, Zenon DEF RestoreAll, OwnOK
  <1>2. CASE Restored \/ Boot \/ Reconciled \/ Shutdown
    <2>1. LoopOK'
      BY <1>0, <1>2 DEF Restored, Boot, Reconciled, Shutdown, OwnOK, LoopOK
    <2> QED BY <1>2, <2>1, Kept, Zenon DEF Restored, Boot, Reconciled, Shutdown, OwnOK
  <1>3. CASE ReadEligibility
    <2>1. \A b \in Accounts : <<b, ver[Owner[b]]>> \in Accounts \X (0 .. MaxVer)
      BY <1>0 DEF I!TypeOK
    <2>2. LoopOK'
      BY <1>0, <1>3, <2>1 DEF ReadEligibility, OwnOK, LoopOK
    <2> QED BY <1>3, <2>2, Kept, Zenon DEF ReadEligibility, OwnOK
  <1>4. CASE StopIneligible
    <2>1. OpOK'
      BY <1>0, <1>4, Spawned DEF StopIneligible, OwnOK
    <2>2. LoopOK'
      BY <1>0, <1>4 DEF StopIneligible, OwnOK, LoopOK
    <2> QED BY <1>4, <2>1, <2>2, Kept, Zenon DEF StopIneligible, OwnOK
  <1>5. CASE CloseClients
    <2>1. OpOK'
      BY <1>0, <1>5, Spawned DEF CloseClients, OwnOK
    <2> QED BY <1>5, <2>1, Kept DEF CloseClients, OwnOK
  <1>6. CASE Exit
    BY <1>6, Gone, Kept, Zenon DEF Exit, OwnOK
  <1>7. CASE Crash
    <2>1. NodeOK'
      BY <1>0, <1>7 DEF Crash, OwnOK, NodeOK
    <2>2. LateOK'
      <3>1. CASE UNCHANGED late
        BY <3>1, Kept
      <3>2. ASSUME NEW s \in Slots, op[s].pc = "patch",
                   late' = late \cup {[acct |-> op[s].acct, st |-> op[s].st,
                                      checked |-> op[s].checked]}
            PROVE  LateOK'
        <4>1. op[s].acct \in Accounts /\ op[s].st \in Statuses \ {"removed"}
              /\ op[s].checked \in BOOLEAN
          BY <1>0, <3>2 DEF OwnOK, OpOK, OpType, Named, Formed
        <4>2. [acct |-> op[s].acct, st |-> op[s].st, checked |-> op[s].checked]
                \in [acct : Accounts, st : Statuses \ {"removed"}, checked : BOOLEAN]
          BY <4>1
        <4> QED BY <1>0, <3>2, <4>2 DEF OwnOK, LateOK
      <3> QED BY <1>7, <3>1, <3>2, Zenon DEF Crash
    <2> QED BY <1>7, <2>1, <2>2, Gone, Kept, Zenon DEF Crash, OwnOK
  <1>8. ASSUME NEW a \in Accounts, ClientDies(a) PROVE OwnOK'
    <2>1. ClientsOK'
      BY <1>0, <1>8 DEF ClientDies, OwnOK, ClientsOK
    <2> QED BY <1>8, <2>1, Kept, Zenon DEF ClientDies, OwnOK
  <1> QED BY <1>1, <1>2, <1>3, <1>4, <1>5, <1>6, <1>7, <1>8 DEF Loop

-----------------------------------------------------------------------------
(* Event handlers *)
LEMMA HandlerSteps ==
    ASSUME TypeOK, NEW p \in Posts, Handle(p) \/ \E a \in Accounts : Arrive(p, a)
    PROVE  OwnOK'
  <1>0. TaskOK /\ ClientsOK
    BY TypeParts
  <1>1. NoTask \in TaskType /\ Named(NoTask)
    BY DEF NoTask, TaskType, Named
  <1>2. ASSUME NEW t \in TaskType, Named(t), task' = [task EXCEPT ![p] = t] PROVE TaskOK'
    BY <1>0, <1>2 DEF TaskOK
  <1>3. ASSUME NEW a \in Accounts, Arrive(p, a) PROVE OwnOK'
    <2> DEFINE t == [pc |-> "filter", acct |-> a, own |-> TRUE, gen |-> 0]
    <2>1. t \in TaskType /\ Named(t)
      BY DEF TaskType, Named
    <2>2. TaskOK'
      BY <1>2, <1>3, <2>1 DEF Arrive
    <2> QED BY <1>3, <2>2, Kept, Zenon DEF Arrive, OwnOK
  <1>4. CASE FilterAllows(p) \/ Ingest(p)
    <2>1. TaskOK'
      BY <1>0, <1>4 DEF FilterAllows, Ingest, TaskOK, TaskType, Named
    <2> QED BY <1>4, <2>1, Kept, Zenon DEF FilterAllows, Ingest, OwnOK
  <1>5. CASE TakeContext(p)
    <2> DEFINE t == [task[p] EXCEPT !.pc = "prepare", !.gen = clients[task[p].acct].gen]
    <2>1. task[p] \in TaskType /\ Named(task[p]) /\ task[p].pc = "context"
      BY <1>0, <1>5 DEF TakeContext, TaskOK
    <2>2. clients[task[p].acct].gen \in 0 .. MaxVer
      BY <1>0, <2>1 DEF ClientsOK, TaskType, Named
    <2>3. t \in TaskType
      BY <2>1, <2>2, Zenon DEF TaskType
    <2>4. Named(t)
      BY <2>1 DEF TaskType, Named
    <2>5. task' = [task EXCEPT ![p] = t]
      BY <1>0, <1>5 DEF TakeContext, TaskOK, TaskType
    <2>6. TaskOK'
      BY <1>2, <2>3, <2>4, <2>5
    <2> QED BY <1>5, <2>6, Kept, Zenon DEF TakeContext, OwnOK
  <1>6. CASE HandlerEnds(p)
    <2>1. TaskOK'
      BY <1>1, <1>2, <1>6 DEF HandlerEnds
    <2> QED BY <1>6, <2>1, Kept, Zenon DEF HandlerEnds, OwnOK
  <1>7. CASE ServePost(p)
    BY <1>7, Kept DEF ServePost, workVars, OwnOK
  <1> QED BY <1>3, <1>4, <1>5, <1>6, <1>7 DEF Handle

-----------------------------------------------------------------------------
(* The Node server's routes and services *)
LEMMA Commanded ==
    ASSUME TypeOK, NEW s, NEW kind \in {"start", "stop", "restart"}, NEW a \in Accounts,
           NEW by \in {"node", "admin", "remove"}, Command(s, kind, a, by)
    PROVE  LoopOK' /\ ClientsOK' /\ OpOK' /\ TaskOK'
  <1>1. s \in Slots
    BY DEF Command, Slots
  <1>2. OpOK'
    BY <1>1, TypeParts, OpRecord, OpBecomes DEF Command
  <1> QED BY <1>2, Kept DEF Command

LEMMA RouteSteps ==
    ASSUME TypeOK, Routes PROVE OwnOK'
  <1>0. OwnOK
    BY TypeParts DEF OwnOK
  <1>1. ASSUME NEW s \in Cmds, NEW a \in Accounts, Reconnect(s, a) \/ DisconnectAccount(s, a)
        PROVE  OwnOK'
    BY <1>1, Commanded, Kept DEF Reconnect, DisconnectAccount, OwnOK
  <1>2. ASSUME NEW s \in Cmds, NEW a \in Accounts, RemoveBegins(s, a) PROVE OwnOK'
    <2>1. NodeOK'
      BY <1>0, <1>2 DEF RemoveBegins, OwnOK, NodeOK
    <2> QED BY <1>2, <2>1, Commanded, Kept DEF RemoveBegins, OwnOK
  <1>3. ASSUME NEW a \in Accounts, RemoveAgain(a) PROVE OwnOK'
    <2>1. NodeOK'
      BY <1>0, <1>3 DEF RemoveAgain, OwnOK, NodeOK
    <2> QED BY <1>3, <2>1, Kept DEF RemoveAgain, workVars, OwnOK
  <1>4. ASSUME NEW a \in Accounts, RemoveCommits(a) PROVE OwnOK'
    <2>1. NodeOK' /\ AcctOK'
      BY <1>0, <1>4 DEF RemoveCommits, OwnOK, NodeOK, AcctOK, Statuses
    <2> QED BY <1>4, <2>1, Kept DEF RemoveCommits, workVars, OwnOK
  <1>5. ASSUME NEW s \in Cmds, NEW a \in Accounts, Link(s, a) PROVE OwnOK'
    <2>1. AcctOK'
      BY <1>0, <1>5 DEF Link, OwnOK, AcctOK, Statuses
    <2>2. LoopOK' /\ ClientsOK' /\ OpOK' /\ TaskOK'
      BY <1>5, Commanded, Kept DEF Link, workVars
    <2> QED BY <1>5, <2>1, <2>2, Kept DEF Link, OwnOK
  <1>6. ASSUME NEW s \in Cmds, CommandTimesOut(s) PROVE OwnOK'
    <2>1. op[s] \in OpType /\ Formed(op[s]) /\ op[s].acct \in Accounts
      BY <1>0, <1>6 DEF CommandTimesOut, OwnOK, OpOK, OpType, Named, Formed, Slots
    <2>2. OpOK'
      <3> DEFINE r == [op[s] EXCEPT !.by = "node"]
      <3>1. r \in OpType /\ Formed(r)
        BY <2>1 DEF OpType, Named, Formed
      <3>2. op' = [op EXCEPT ![s] = r]
        BY <1>6 DEF CommandTimesOut
      <3> QED BY <1>0, <3>1, <3>2, OpBecomes DEF OwnOK, Slots
    <2>3. NodeOK'
      <3>1. Owner[op[s].acct] \in Users
        BY <2>1
      <3>2. CASE op[s].by = "admin"
        <4> DEFINE u == Owner[op[s].acct]
        <4>1. /\ awaited' = [awaited EXCEPT ![u] = awaited[u] \ {op[s].acct}]
              /\ confirmed' = [confirmed EXCEPT ![u] = FALSE]
              /\ UNCHANGED <<unsent, removing>>
          BY <1>6, <3>2, Zenon DEF CommandTimesOut
        <4>2. awaited' \in [Users -> SUBSET Accounts]
          BY <1>0, <3>1, <4>1 DEF OwnOK, NodeOK
        <4>3. confirmed' \in [Users -> BOOLEAN]
          BY <1>0, <4>1 DEF OwnOK, NodeOK
        <4> QED BY <1>0, <4>1, <4>2, <4>3 DEF OwnOK, NodeOK
      <3>3. CASE op[s].by # "admin"
        <4>1. removing' = [removing EXCEPT ![op[s].acct] = "idle"]
              /\ UNCHANGED <<unsent, awaited, confirmed>>
          BY <1>6, <3>3, Zenon DEF CommandTimesOut
        <4> QED BY <1>0, <4>1, <2>1 DEF OwnOK, NodeOK
      <3> QED BY <3>2, <3>3
    <2> QED BY <1>6, <2>2, <2>3, Kept DEF CommandTimesOut, OwnOK
  <1>7. ASSUME NEW u \in Users, Approve(u) \/ ChangeCredential(u) PROVE OwnOK'
    BY <1>7, Kept DEF Approve, ChangeCredential, workVars, OwnOK
  <1>8. ASSUME NEW u \in Users, Suspend(u) PROVE OwnOK'
    <2>1. AcctOK'
      BY <1>0, <1>8 DEF Suspend, OwnOK, AcctOK, Statuses
    <2>2. NodeOK'
      BY <1>0, <1>8 DEF Suspend, OwnOK, NodeOK, AccountsOf
    <2> QED BY <1>8, <2>1, <2>2, Kept DEF Suspend, workVars, OwnOK
  <1>9. ASSUME NEW s \in Cmds, NEW a \in Accounts, SendPause(s, a) PROVE OwnOK'
    <2>1. NodeOK'
      BY <1>0, <1>9 DEF SendPause, OwnOK, NodeOK
    <2> QED BY <1>9, <2>1, Commanded, Kept DEF SendPause, OwnOK
  <1>10. ASSUME NEW a \in Accounts, PauseLost(a) PROVE OwnOK'
    <2>1. NodeOK'
      BY <1>0, <1>10 DEF PauseLost, OwnOK, NodeOK
    <2> QED BY <1>10, <2>1, Kept DEF PauseLost, workVars, OwnOK
  <1> QED BY <1>1, <1>2, <1>3, <1>4, <1>5, <1>6, <1>7, <1>8, <1>9, <1>10 DEF Routes

-----------------------------------------------------------------------------
(* The composition: seen through the rows of users and the requests, the whole
   system takes steps of Ingestion only. *)
LEMMA UserStep ==
    ASSUME TypeOK, [Next]_vars PROVE [I!Next]_(I!vars)
  <1>0. TaskOK
    BY TypeParts
  <1> USE DEF I!vars, userVars
  <1>1. ASSUME NEW s \in Slots, Acquire(s) \/ Advance(s) PROVE UNCHANGED userVars
    BY <1>1, Zenon DEF Acquire, AcquireStart, AcquireStop, Advance, PatchCheck, PatchApply,
        PatchTimeout, LookupCheck, LookupRow, StartRaises, Connect, Authorized,
        SessionRevoked, Disconnect, Disconnected, Drained
  <1>2. ASSUME NEW p \in Posts, Handle(p) PROVE I!Next \/ UNCHANGED userVars
    <2>1. CASE Ingest(p)
      <3>1. task[p].acct \in Accounts /\ task[p].gen \in 0 .. MaxVer
        BY <1>0, <2>1 DEF Ingest, TaskOK, TaskType, Named
      <3> QED BY <2>1, <3>1, Zenon DEF Ingest, I!Next
    <2>2. CASE ServePost(p)
      BY <2>2, Zenon DEF ServePost, I!Next
    <2>3. CASE FilterAllows(p) \/ TakeContext(p) \/ HandlerEnds(p)
      BY <2>3, Zenon DEF FilterAllows, TakeContext, HandlerEnds
    <2> QED BY <1>2, <2>1, <2>2, <2>3 DEF Handle
  <1>3. ASSUME NEW p \in Posts, NEW a \in Accounts, Arrive(p, a) PROVE UNCHANGED userVars
    BY <1>3, Zenon DEF Arrive
  <1>4. ASSUME NEW r \in late, LateCheck(r) \/ LateApply(r) \/ LateDrop(r)
        PROVE  UNCHANGED userVars
    BY <1>4, Zenon DEF LateCheck, LateApply, LateDrop
  <1>5. ASSUME Loop \/ Boot \/ Shutdown \/ Crash \/ \E a \in Accounts : ClientDies(a)
        PROVE  UNCHANGED userVars
    BY <1>5, Zenon DEF Loop, RestoreAll, Restored, ReadEligibility, StopIneligible, Reconciled,
        CloseClients, Exit, Boot, Shutdown, Crash, ClientDies
  <1>6. ASSUME Routes PROVE I!Next \/ UNCHANGED userVars
    <2>1. ASSUME NEW u \in Users, Approve(u) \/ Suspend(u) \/ ChangeCredential(u) PROVE I!Next
      BY <2>1, Zenon DEF Approve, Suspend, ChangeCredential, I!Next
    <2>2. ASSUME NEW s \in Cmds, NEW a \in Accounts,
                 \/ Reconnect(s, a) \/ DisconnectAccount(s, a) \/ RemoveBegins(s, a)
                 \/ Link(s, a) \/ SendPause(s, a)
          PROVE  UNCHANGED userVars
      BY <2>2, Zenon DEF Reconnect, DisconnectAccount, RemoveBegins, Link, SendPause
    <2>3. ASSUME NEW s \in Cmds, CommandTimesOut(s) PROVE UNCHANGED userVars
      BY <2>3, Zenon DEF CommandTimesOut
    <2>4. ASSUME NEW a \in Accounts, RemoveAgain(a) \/ RemoveCommits(a) \/ PauseLost(a)
          PROVE  UNCHANGED userVars
      BY <2>4, Zenon DEF RemoveAgain, RemoveCommits, PauseLost
    <2> QED BY <1>6, <2>1, <2>2, <2>3, <2>4 DEF Routes
  <1>7. CASE UNCHANGED vars
    BY <1>7, Zenon DEF vars
  <1> QED BY <1>1, <1>2, <1>3, <1>4, <1>5, <1>6, <1>7, Zenon DEF Next

-----------------------------------------------------------------------------
(* The rows of Ingestion, whose steps are all that happens to them: the
   invariant of its proof (Archive_proofs) over the variables of the worker. *)

(* Every request in progress names an account. *)
PostsNamed == \A p \in Posts : post[p].pc # "free" => post[p].acct \in Accounts

RowsInv == I!TypeOK /\ PostsNamed /\ I!LockedIsCurrent

LEMMA RowsTypeStep == I!TypeOK /\ PostsNamed /\ [I!Next]_(I!vars) => I!TypeOK' /\ PostsNamed'
  <1> SUFFICES ASSUME I!TypeOK, PostsNamed, [I!Next]_(I!vars) PROVE I!TypeOK' /\ PostsNamed'
    OBVIOUS
  <1> USE DEF I!TypeOK, PostsNamed, I!FreePost
  <1>1. ASSUME NEW p \in Posts, NEW a \in Accounts, NEW g \in 0 .. MaxVer, I!Receive(p, a, g)
        PROVE  I!TypeOK' /\ PostsNamed'
    BY <1>1 DEF I!Receive
  <1>2. ASSUME NEW p \in Posts, I!Lock(p) PROVE I!TypeOK' /\ PostsNamed'
    BY <1>2 DEF I!Lock
  <1>3. ASSUME NEW p \in Posts, I!Reject(p) \/ I!Abort(p) PROVE I!TypeOK' /\ PostsNamed'
    <2>1. I!Reply(p) /\ UNCHANGED <<approved, ver, saved>>
      BY <1>3, Zenon DEF I!Reject, I!Abort
    <2> QED BY <2>1 DEF I!Reply
  <1>4. ASSUME NEW p \in Posts, I!Commit(p) PROVE I!TypeOK' /\ PostsNamed'
    <2> DEFINE u == Owner[post[p].acct]
    <2>1. u \in Users /\ post[p].gen \in 0 .. MaxVer /\ saved[u] \in Seq(0 .. MaxVer)
      BY <1>4 DEF I!Commit
    <2>2. Append(saved[u], post[p].gen) \in Seq(0 .. MaxVer)
      BY <2>1
    <2>3. saved' \in [Users -> Seq(0 .. MaxVer)]
      BY <1>4, <2>1, <2>2 DEF I!Commit
    <2> QED BY <1>4, <2>3 DEF I!Commit, I!Reply
  <1>5. ASSUME NEW u \in Users, I!Approve(u) PROVE I!TypeOK' /\ PostsNamed'
    BY <1>5 DEF I!Approve
  <1>6. ASSUME NEW u \in Users, I!Suspend(u) PROVE I!TypeOK' /\ PostsNamed'
    <2>1. approved' \in [Users -> BOOLEAN]
      BY <1>6, Zenon DEF I!Suspend
    <2>2. ver' \in [Users -> 0 .. MaxVer]
      <3>1. CASE approved[u] = TRUE
        BY <1>6, <3>1 DEF I!Suspend
      <3>2. CASE approved[u] = FALSE
        BY <1>6, <3>2 DEF I!Suspend
      <3> QED BY <3>1, <3>2
    <2> QED BY <1>6, <2>1, <2>2 DEF I!Suspend
  <1>7. ASSUME NEW u \in Users, I!ChangeCredential(u) PROVE I!TypeOK' /\ PostsNamed'
    BY <1>7 DEF I!ChangeCredential
  <1>8. CASE UNCHANGED I!vars
    BY <1>8 DEF I!vars
  <1> QED BY <1>1, <1>2, <1>3, <1>4, <1>5, <1>6, <1>7, <1>8 DEF I!Next, I!Serve

(* A transaction on a user's row changes nothing that a request past its check
   depends on: that request holds the row of its own owner. *)
LEMMA RowsChange ==
    ASSUME I!TypeOK, PostsNamed, I!LockedIsCurrent,
           NEW u \in Users, I!RowFree(u), UNCHANGED post,
           \A w \in Users \ {u} : approved'[w] = approved[w] /\ ver'[w] = ver[w]
    PROVE  I!LockedIsCurrent'
  <1> SUFFICES ASSUME NEW p \in Posts, post[p].pc = "locked" PROVE I!Admissible(p)'
    BY DEF I!LockedIsCurrent
  <1> DEFINE w == Owner[post[p].acct]
  <1>1. w \in Users /\ w # u
    BY DEF PostsNamed, I!RowFree, I!HoldsRow
  <1>2. approved[w] /\ post[p].gen = ver[w]
    BY DEF I!LockedIsCurrent, I!Admissible
  <1>3. approved'[w] = approved[w] /\ ver'[w] = ver[w]
    BY <1>1
  <1> QED BY <1>2, <1>3, Zenon DEF I!Admissible

LEMMA RowsLock == RowsInv /\ [I!Next]_(I!vars) => I!LockedIsCurrent'
  <1> SUFFICES ASSUME RowsInv, [I!Next]_(I!vars) PROVE I!LockedIsCurrent'
    OBVIOUS
  <1> USE DEF RowsInv
  <1>1. ASSUME NEW p \in Posts, NEW a \in Accounts, NEW g \in 0 .. MaxVer, I!Receive(p, a, g)
        PROVE  I!LockedIsCurrent'
    BY <1>1 DEF I!Receive, I!LockedIsCurrent, I!Admissible, I!TypeOK
  <1>2. ASSUME NEW p \in Posts, I!Lock(p) PROVE I!LockedIsCurrent'
    BY <1>2 DEF I!Lock, I!LockedIsCurrent, I!Admissible, I!TypeOK
  <1>3. ASSUME NEW p \in Posts, I!Reject(p) \/ I!Abort(p) \/ I!Commit(p)
        PROVE  I!LockedIsCurrent'
    <2>1. I!Reply(p) /\ UNCHANGED <<approved, ver>>
      BY <1>3, Zenon DEF I!Reject, I!Abort, I!Commit
    <2> QED BY <2>1 DEF I!Reply, I!FreePost, I!LockedIsCurrent, I!Admissible, I!TypeOK
  <1>4. ASSUME NEW u \in Users, I!Approve(u) PROVE I!LockedIsCurrent'
    BY <1>4, RowsChange DEF I!Approve, I!TypeOK
  <1>5. ASSUME NEW u \in Users, I!Suspend(u) PROVE I!LockedIsCurrent'
    BY <1>5, RowsChange DEF I!Suspend, I!TypeOK
  <1>6. ASSUME NEW u \in Users, I!ChangeCredential(u) PROVE I!LockedIsCurrent'
    BY <1>6, RowsChange DEF I!ChangeCredential, I!TypeOK
  <1>7. CASE UNCHANGED I!vars
    BY <1>7 DEF I!vars, I!LockedIsCurrent, I!Admissible
  <1> QED BY <1>1, <1>2, <1>3, <1>4, <1>5, <1>6, <1>7 DEF I!Next, I!Serve

(* What a commit does, seen by its owner. *)
LEMMA SavesCurrent ==
    ASSUME RowsInv, NEW p \in Posts, I!Commit(p)
    PROVE  \E u \in Users : /\ approved[u]
                            /\ saved' = [saved EXCEPT ![u] = Append(saved[u], ver[u])]
                            /\ approved' = approved /\ ver' = ver
  <1> DEFINE u == Owner[post[p].acct]
  <1>1. u \in Users
    BY DEF RowsInv, PostsNamed, I!Commit
  <1>2. approved[u] /\ post[p].gen = ver[u]
    BY DEF RowsInv, I!LockedIsCurrent, I!Commit, I!Admissible
  <1> QED BY <1>1, <1>2, Zenon DEF I!Commit

(* The archive is left alone by every other step. *)
LEMMA OthersSave ==
    ASSUME [I!Next]_(I!vars), ~ \E p \in Posts : I!Commit(p) PROVE saved' = saved
  BY DEF I!Next, I!Serve, I!vars, I!Receive, I!Lock, I!Reject, I!Abort, I!Approve, I!Suspend,
         I!ChangeCredential

WInv == TypeOK /\ RowsInv

LEMMA Inductive == Spec => []WInv
  <1>1. ASSUME Init PROVE WInv
    <2>1. RowsInv
      BY <1>1 DEF Init, I!Init, I!FreePost, RowsInv, I!TypeOK, PostsNamed, I!LockedIsCurrent
    <2>2. AcctOK /\ NodeOK /\ LateOK /\ LoopOK
      BY <1>1 DEF Init, AcctOK, NodeOK, LateOK, LoopOK, Statuses
    <2>3. NoClient \in [conn : {"none", "live", "dead"}, gen : 0 .. MaxVer]
      BY DEF NoClient
    <2>4. NoTask \in TaskType /\ Named(NoTask)
      BY DEF NoTask, TaskType, Named
    <2>5. ClientsOK /\ OpOK /\ TaskOK
      BY <1>1, <2>3, <2>4, IdleRecord DEF Init, ClientsOK, OpOK, TaskOK
    <2> QED BY <2>1, <2>2, <2>5, TypeParts DEF WInv, RowsInv
  <1>2. WInv /\ [Next]_vars => WInv'
    <2> SUFFICES ASSUME WInv, [Next]_vars PROVE WInv'
      OBVIOUS
    <2>1. RowsInv /\ [I!Next]_(I!vars)
      BY UserStep DEF WInv
    <2>2. RowsInv'
      BY <2>1, RowsTypeStep, RowsLock DEF RowsInv
    <2>3. I!TypeOK'
      BY <2>2 DEF RowsInv
    <2>4. OwnOK'
      <3>1. CASE UNCHANGED vars
        BY <3>1, Kept DEF WInv, vars, acctVars, nodeVars, workVars, OwnOK
      <3>2. CASE Next
        BY <3>2, PatchSteps, LateSteps, StartSteps, StopSteps, LoopSteps, HandlerSteps,
           RouteSteps DEF WInv, Next, Acquire, Advance
      <3> QED BY <3>1, <3>2
    <2> QED BY <2>2, <2>3, <2>4, TypePartsNext DEF WInv, OwnOK
  <1> QED BY <1>1, <1>2, PTL DEF Spec

(* Every value of the system's variables stays in its type. *)
THEOREM TypeCorrect == Spec => []TypeOK
  <1>1. WInv => TypeOK
    BY DEF WInv
  <1> QED BY <1>1, Inductive, PTL

(* Whatever the worker and the routes do, the ingestion barrier sees nothing
   but an ingestion history: crashes, late requests and stale handlers
   included. *)
THEOREM Composition == Spec => I!Spec
  <1>1. Init => I!Init
    BY DEF Init
  <1>2. WInv /\ [Next]_vars => [I!Next]_(I!vars)
    BY UserStep DEF WInv
  <1> QED BY <1>1, <1>2, Inductive, PTL DEF Spec, I!Spec

(* So nothing a worker sends is archived for a suspended owner or under an
   earlier generation. *)
THEOREM Barrier == Spec => NothingAfterSuspension
  <1> DEFINE Grows(u) == /\ approved[u] /\ approved'[u]
                         /\ saved'[u] = Append(saved[u], ver[u])
  <1>1. ASSUME RowsInv, [I!Next]_(I!vars), NEW w \in Users, saved'[w] # saved[w]
        PROVE  Grows(w)
    <2>1. PICK p \in Posts : I!Commit(p)
      BY <1>1, OthersSave
    <2>2. PICK u \in Users : /\ approved[u]
                             /\ saved' = [saved EXCEPT ![u] = Append(saved[u], ver[u])]
                             /\ approved' = approved /\ ver' = ver
      BY <1>1, <2>1, SavesCurrent
    <2>3. w = u /\ saved'[u] = Append(saved[u], ver[u])
      BY <1>1, <2>2 DEF RowsInv, I!TypeOK
    <2> QED BY <2>2, <2>3, Zenon
  <1>2. WInv /\ [Next]_vars => [\A u \in Users : saved'[u] # saved[u] => Grows(u)]_(I!vars)
    BY <1>1, UserStep DEF WInv
  <1> QED BY <1>2, Inductive, PTL DEF Spec, NothingAfterSuspension, I!NothingAfterSuspension

-----------------------------------------------------------------------------
(* Restorable statuses *)

(* A status other than the restorable ones may be stored at any time, those
   only at an approved owner. *)
LEMMA StatusSet ==
    ASSUME TypeOK, SuspendedNotRestorable, NEW a \in Accounts, NEW st \in Statuses,
           st \in {"connected", "starting"} => approved[Owner[a]],
           approved' = approved, status' = [status EXCEPT ![a] = st]
    PROVE  SuspendedNotRestorable'
  <1> SUFFICES ASSUME NEW b \in Accounts, ~approved'[Owner[b]]
               PROVE  status'[b] \notin {"connected", "starting"}
    BY DEF SuspendedNotRestorable
  <1>0. AcctOK
    BY TypeParts
  <1>1. CASE b = a
    BY <1>0, <1>1 DEF AcctOK
  <1>2. CASE b # a
    BY <1>0, <1>2 DEF AcctOK, SuspendedNotRestorable
  <1> QED BY <1>1, <1>2

(* The WHERE clause of the status request keeps to that. *)
LEMMA StatusStored ==
    ASSUME TypeOK, SuspendedNotRestorable, NEW a \in Accounts, NEW st \in Statuses,
           approved' = approved, StoreStatus(a, st)
    PROVE  SuspendedNotRestorable'
  <1>1. CASE StatusMatches(a, st)
    <2>1. status' = [status EXCEPT ![a] = st]
      BY <1>1 DEF StoreStatus
    <2>2. st \in {"connected", "starting"} => approved[Owner[a]]
      BY <1>1 DEF StatusMatches
    <2> QED BY <2>1, <2>2, StatusSet
  <1>2. CASE ~StatusMatches(a, st)
    <2>1. status' = status
      BY <1>2, TypeParts DEF StoreStatus, AcctOK
    <2> QED BY <2>1, Zenon DEF SuspendedNotRestorable
  <1> QED BY <1>1, <1>2

LEMMA RestorableStep ==
    TypeOK /\ SuspendedNotRestorable /\ [Next]_vars => SuspendedNotRestorable'
  <1> SUFFICES ASSUME TypeOK, SuspendedNotRestorable, [Next]_vars
               PROVE  SuspendedNotRestorable'
    OBVIOUS
  <1>0. AcctOK /\ LateOK /\ OpOK /\ approved \in [Users -> BOOLEAN]
    BY TypeParts DEF I!TypeOK
  <1>1. ASSUME UNCHANGED <<approved, status>> PROVE SuspendedNotRestorable'
    BY <1>1, Zenon DEF SuspendedNotRestorable
  <1>2. ASSUME NEW s \in Slots, Acquire(s) \/ Advance(s) PROVE SuspendedNotRestorable'
    <2>1. CASE PatchApply(s)
      <3>1. op[s].acct \in Accounts /\ op[s].st \in Statuses
        BY <1>0, <2>1 DEF PatchApply, OpOK, OpType, Named, Formed
      <3>2. approved' = approved /\ StoreStatus(op[s].acct, op[s].st)
        BY <2>1, Zenon DEF PatchApply, userVars
      <3> QED BY <3>1, <3>2, StatusStored
    <2>2. CASE ~PatchApply(s)
      BY <1>1, <1>2, <2>2, Zenon DEF Acquire, AcquireStart, AcquireStop, Advance, PatchCheck,
          PatchTimeout, LookupCheck, LookupRow, StartRaises, Connect, Authorized,
          SessionRevoked, Disconnect, Disconnected, Drained, userVars, acctVars
    <2> QED BY <2>1, <2>2
  <1>3. ASSUME NEW p \in Posts, Handle(p) \/ \E a \in Accounts : Arrive(p, a)
        PROVE  SuspendedNotRestorable'
    BY <1>1, <1>3, Zenon DEF Handle, FilterAllows, TakeContext, Ingest, HandlerEnds, ServePost,
        Arrive, I!Receive, I!Serve, I!Lock, I!Reject, I!Commit, I!Abort, userVars, acctVars
  <1>4. ASSUME NEW r \in late, LateCheck(r) \/ LateApply(r) \/ LateDrop(r)
        PROVE  SuspendedNotRestorable'
    <2>1. CASE LateApply(r)
      <3>1. r.acct \in Accounts /\ r.st \in Statuses
        BY <1>0 DEF LateOK
      <3>2. approved' = approved /\ StoreStatus(r.acct, r.st)
        BY <2>1, Zenon DEF LateApply, userVars
      <3> QED BY <3>1, <3>2, StatusStored
    <2>2. CASE LateCheck(r) \/ LateDrop(r)
      BY <1>1, <2>2, Zenon DEF LateCheck, LateDrop, userVars, acctVars
    <2> QED BY <1>4, <2>1, <2>2
  <1>5. ASSUME Loop \/ Boot \/ Shutdown \/ Crash \/ \E a \in Accounts : ClientDies(a)
        PROVE  SuspendedNotRestorable'
    BY <1>1, <1>5, Zenon DEF Loop, RestoreAll, Restored, ReadEligibility, StopIneligible,
        Reconciled, CloseClients, Exit, Boot, Shutdown, Crash, ClientDies, userVars, acctVars
  <1>6. ASSUME Routes PROVE SuspendedNotRestorable'
    <2>1. ASSUME NEW a \in Accounts, RemoveCommits(a) PROVE SuspendedNotRestorable'
      BY <2>1, StatusSet DEF RemoveCommits, Statuses, userVars
    <2>2. ASSUME NEW s \in Cmds, NEW a \in Accounts, Link(s, a) PROVE SuspendedNotRestorable'
      BY <2>2, StatusSet DEF Link, Statuses, userVars
    <2>3. ASSUME NEW u \in Users, Suspend(u) PROVE SuspendedNotRestorable'
      <3>1. approved' = [approved EXCEPT ![u] = FALSE]
        BY <2>3, Zenon DEF Suspend, I!Suspend
      <3>2. \A b \in Accounts :
                status'[b] = IF Owner[b] = u /\ status[b] \in {"connected", "starting"}
                             THEN "disconnected" ELSE status[b]
        BY <2>3 DEF Suspend
      <3> SUFFICES ASSUME NEW b \in Accounts, ~approved'[Owner[b]]
                   PROVE  status'[b] \notin {"connected", "starting"}
        BY DEF SuspendedNotRestorable
      <3>3. CASE Owner[b] = u
        BY <3>2, <3>3
      <3>4. CASE Owner[b] # u
        <4>1. ~approved[Owner[b]]
          BY <1>0, <3>1, <3>4
        <4> QED BY <3>2, <3>4, <4>1 DEF SuspendedNotRestorable
      <3> QED BY <3>3, <3>4
    <2>4. ASSUME NEW u \in Users, Approve(u) PROVE SuspendedNotRestorable'
      <3>1. approved' = [approved EXCEPT ![u] = TRUE] /\ status' = status
        BY <2>4, Zenon DEF Approve, I!Approve, acctVars
      <3>2. \A b \in Accounts : ~approved'[Owner[b]] => ~approved[Owner[b]]
        BY <1>0, <3>1
      <3> QED BY <3>1, <3>2, Zenon DEF SuspendedNotRestorable
    <2>5. ASSUME NEW u \in Users, ChangeCredential(u) PROVE SuspendedNotRestorable'
      BY <1>1, <2>5, Zenon DEF ChangeCredential, I!ChangeCredential, acctVars
    <2>6. ASSUME NEW s \in Cmds, NEW a \in Accounts,
                 \/ Reconnect(s, a) \/ DisconnectAccount(s, a) \/ RemoveBegins(s, a)
                 \/ SendPause(s, a)
          PROVE  SuspendedNotRestorable'
      BY <1>1, <2>6, Zenon DEF Reconnect, DisconnectAccount, RemoveBegins, SendPause,
          userVars, acctVars
    <2>7. ASSUME NEW s \in Cmds, CommandTimesOut(s) PROVE SuspendedNotRestorable'
      BY <1>1, <2>7, Zenon DEF CommandTimesOut, userVars, acctVars
    <2>8. ASSUME NEW a \in Accounts, RemoveAgain(a) \/ PauseLost(a)
          PROVE  SuspendedNotRestorable'
      BY <1>1, <2>8, Zenon DEF RemoveAgain, PauseLost, userVars, acctVars
    <2> QED BY <1>6, <2>1, <2>2, <2>3, <2>4, <2>5, <2>6, <2>7, <2>8 DEF Routes
  <1>7. CASE UNCHANGED vars
    BY <1>1, <1>7, Zenon DEF vars, userVars, acctVars
  <1> QED BY <1>2, <1>3, <1>4, <1>5, <1>6, <1>7, Zenon DEF Next

(* No account of a suspended owner is ever stored in a status that restore_all
   starts, for any number of accounts and of racing status requests. *)
THEOREM NotRestorable == Spec => []SuspendedNotRestorable
  <1>1. Init => SuspendedNotRestorable
    BY DEF Init, SuspendedNotRestorable
  <1>2. TypeOK /\ SuspendedNotRestorable /\ [Next]_vars => SuspendedNotRestorable'
    BY RestorableStep
  <1> QED BY <1>1, <1>2, TypeCorrect, PTL DEF Spec
-----------------------------------------------------------------------------
(* The account's lock, and what holds of the coroutine that has it. *)

Holds(s) == op[s].pc \notin {"idle", "lock"}

Mutex == \A s, t \in Slots : s # t /\ Holds(s) /\ Holds(t) => op[s].acct # op[t].acct

(* A coroutine o and the entry c of its account in ActiveClientManager.clients:
   only a start that found no connected client has one of its own, and whoever
   disconnects a client has popped the entry. *)
Sound(o, c) ==
    /\ o.live => o.pc \in {"authorize", "disconnect"}
    /\ o.pc \in {"lookup", "connect", "authorize"} => o.kind = "start" /\ c.conn # "live"
    /\ o.pc = "patch" /\ o.st \in {"starting", "error", "revoked"} => c.conn # "live"
    /\ o.pc \in {"disconnect", "closing", "drain"} => c = NoClient
    /\ o.pc = "patch" /\ o.st = "disconnected" => c = NoClient
    /\ o.pc = "patch" => (o.kind = "start" <=> o.st # "disconnected")
    /\ o.pc = "drain" => o.kind # "start"
    /\ o.by = "admin" => o.kind = "stop"

AllSound == \A s \in Slots : op[s].pc # "idle" => Sound(op[s], clients[op[s].acct])

(* What an account is left with by a stop that came after the suspension of
   its owner: coroutines that will not start a client. *)
QuietOp(o) ==
    /\ ~o.live
    /\ \/ o.pc \in {"lock", "drain"}
       \/ o.pc = "patch" /\ o.st = "disconnected"
       \/ o.pc = "patch" /\ o.st = "starting" /\ ~o.checked

Quiet(a) == clients[a] = NoClient /\ \A s \in Slots : op[s].acct = a => QuietOp(op[s])

Stopping ==
    \A a \in Accounts :
        ~approved[Owner[a]] /\ confirmed[Owner[a]] =>
            a \in unsent[Owner[a]] \/ a \in awaited[Owner[a]] \/ Quiet(a)

-----------------------------------------------------------------------------
(* A step of coroutine s. *)

Alone(s) ==
    /\ \A t \in Slots \ {s} : op'[t] = op[t]
    /\ \A b \in Accounts \ {op[s].acct} : clients'[b] = clients[b]

QuietKept(s) ==
    ~approved[Owner[op[s].acct]] /\ clients[op[s].acct] = NoClient /\ QuietOp(op[s]) =>
        clients'[op[s].acct] = NoClient /\ (op'[s].pc # "idle" => QuietOp(op'[s]))

(* An answer that leaves the suspension confirmed is given by a stop that
   leaves no client. *)
Released(s) ==
    \A u \in Users : confirmed'[u] =>
        /\ confirmed[u]
        /\ \/ awaited'[u] = awaited[u]
           \/ /\ awaited[u] \subseteq awaited'[u] \cup {op[s].acct}
              /\ op[s].pc # "lock" /\ op'[s].pc = "idle"
              /\ clients'[op[s].acct] = NoClient

Turn(s) ==
    /\ Alone(s) /\ QuietKept(s)
    /\ unsent' = unsent /\ Released(s)
    /\ op'[s].pc # "idle" => /\ op'[s].acct = op[s].acct
                             /\ Sound(op'[s], clients'[op[s].acct])

LEMMA OpKnown ==
    ASSUME TypeOK, NEW s \in Slots, op[s].pc # "idle"
    PROVE  /\ op \in [Slots -> OpType] /\ op[s] \in OpType
           /\ op[s].acct \in Accounts /\ Owner[op[s].acct] \in Users
           /\ op[s].pc = "patch" => op[s].st # "none"
           /\ clients \in [Accounts -> [conn : {"none", "live", "dead"}, gen : 0 .. MaxVer]]
           /\ NodeOK
  BY TypeParts DEF OpOK, OpType, Named, Formed, ClientsOK

LEMMA NodeStill ==
    ASSUME UNCHANGED nodeVars, NEW s PROVE unsent' = unsent /\ Released(s)
  BY DEF nodeVars, Released

LEMMA FinishTurns ==
    ASSUME TypeOK, NEW s \in Slots, NEW ok \in BOOLEAN, op[s].pc # "idle",
           Sound(op[s], clients[op[s].acct]), op[s].by = "admin" => op[s].pc = "patch",
           Finish(s, ok), clients' = clients
    PROVE  Turn(s)
  <1> DEFINE a == op[s].acct
  <1>0. op \in [Slots -> OpType] /\ a \in Accounts /\ Owner[a] \in Users /\ NodeOK
    BY OpKnown
  <1>1. op' = [op EXCEPT ![s] = IdleOp] /\ IdleOp.pc = "idle"
    BY DEF Finish, IdleOp, Op
  <1>2. Alone(s) /\ op'[s].pc = "idle"
    BY <1>0, <1>1 DEF Alone
  <1>3. QuietKept(s)
    BY <1>2 DEF QuietKept
  <1>4. unsent' = unsent /\ Released(s)
    <2>1. CASE op[s].by = "admin"
      <3>1. clients[a] = NoClient /\ op[s].pc = "patch"
        BY <2>1 DEF Sound
      <3>2. /\ awaited' = [awaited EXCEPT ![Owner[a]] = @ \ {a}]
            /\ unsent' = unsent
            /\ \/ confirmed' = confirmed
               \/ confirmed' = [confirmed EXCEPT ![Owner[a]] = FALSE]
        BY <2>1 DEF Finish, Answer
      <3> QED BY <1>0, <1>2, <3>1, <3>2 DEF NodeOK, Released
    <2>2. CASE op[s].by # "admin"
      <3>1. UNCHANGED <<unsent, awaited, confirmed>>
        BY <2>2 DEF Finish, Answer
      <3> QED BY <3>1 DEF Released
    <2> QED BY <2>1, <2>2
  <1> QED BY <1>2, <1>3, <1>4 DEF Turn

LEMMA PatchTurns ==
    ASSUME TypeOK, NEW s \in Slots, NEW st \in Statuses \ {"removed"}, op[s].pc # "idle",
           Sound(op[s], clients[op[s].acct]), ~op[s].live,
           st \in {"starting", "error", "revoked"} => clients[op[s].acct].conn # "live",
           st = "disconnected" => clients[op[s].acct] = NoClient,
           op[s].kind = "start" <=> st # "disconnected",
           QuietOp(op[s]) => st \in {"starting", "disconnected"},
           Patch(s, st), clients' = clients, UNCHANGED nodeVars
    PROVE  Turn(s)
  <1> DEFINE q == op'[s]
  <1>1. /\ q.pc = "patch" /\ q.st = st /\ q.checked = FALSE
        /\ q.live = op[s].live /\ q.kind = op[s].kind /\ q.by = op[s].by /\ q.acct = op[s].acct
        /\ Alone(s)
    BY OpKnown DEF Patch, OpType, Alone
  <1>2. Sound(q, clients'[op[s].acct])
    BY <1>1 DEF Sound
  <1>3. QuietKept(s)
    BY <1>1 DEF QuietKept, QuietOp
  <1> QED BY <1>1, <1>2, <1>3, NodeStill DEF Turn

LEMMA FailTurns ==
    ASSUME TypeOK, NEW s \in Slots, op[s].pc \in {"lookup", "connect", "authorize", "patch"},
           op[s].kind = "start", Sound(op[s], clients[op[s].acct]), ~QuietOp(op[s]),
           StartFails(s)
    PROVE  Turn(s)
  <1> DEFINE a == op[s].acct
             q == op'[s]
  <1>0. op \in [Slots -> OpType] /\ a \in Accounts
    BY OpKnown
  <1>1. clients' = [clients EXCEPT ![a] = NoClient] /\ UNCHANGED nodeVars
    BY Zenon DEF StartFails
  <1>2. clients'[a] = NoClient /\ \A b \in Accounts \ {a} : clients'[b] = clients[b]
    BY <1>0, <1>1, OpKnown
  <1>3. /\ q.kind = op[s].kind /\ q.by = op[s].by /\ q.acct = op[s].acct
        /\ q.pc = "patch" => q.st = "error" /\ q.live = op[s].live
        /\ q.pc \in {"patch", "disconnect"}
        /\ op[s].pc = "lookup" <=> q.pc = "patch"
        /\ \A t \in Slots \ {s} : op'[t] = op[t]
    BY <1>0 DEF StartFails, Patch, OpType
  <1>4. Sound(q, clients'[a])
    <2>1. NoClient.conn # "live"
      BY DEF NoClient
    <2> QED BY <1>2, <1>3, <2>1 DEF Sound
  <1>5. QuietKept(s)
    BY DEF QuietKept
  <1> QED BY <1>1, <1>2, <1>3, <1>4, <1>5, NodeStill DEF Turn, Alone

LEMMA ReturnTurns ==
    ASSUME TypeOK, NEW s \in Slots, NEW ok \in BOOLEAN, op[s].pc = "patch",
           Sound(op[s], clients[op[s].acct]),
           ok /\ op[s].st = "starting" => op[s].checked,
           PatchReturns(s, ok)
    PROVE  Turn(s)
  <1> DEFINE o == op[s]
             a == o.acct
             q == op'[s]
  <1>0. op \in [Slots -> OpType] /\ a \in Accounts
    BY OpKnown
  <1>1. CASE /\ o.st = "starting" /\ ok
             /\ op' = [op EXCEPT ![s].pc = "lookup", ![s].checked = FALSE]
             /\ UNCHANGED <<clients, nodeVars>>
    <2>1. /\ q.pc = "lookup" /\ q.live = o.live /\ q.kind = o.kind /\ q.by = o.by
          /\ q.acct = a /\ Alone(s)
      BY <1>0, <1>1 DEF OpType, Alone
    <2>2. Sound(q, clients'[a])
      BY <1>1, <2>1 DEF Sound
    <2>3. QuietKept(s)
      BY <1>1 DEF QuietKept, QuietOp
    <2> QED BY <1>1, <2>1, <2>2, <2>3, NodeStill DEF Turn
  <1>2. CASE /\ o.st = "disconnected" /\ ok /\ o.kind = "restart"
             /\ op' = [op EXCEPT ![s] = Op("start", o.acct, o.by, "lock")]
             /\ UNCHANGED <<clients, nodeVars>>
    <2>1. /\ q.pc = "lock" /\ q.live = FALSE /\ q.kind = "start" /\ q.by = o.by
          /\ q.acct = a /\ Alone(s)
      BY <1>0, <1>2 DEF Op, Alone
    <2>2. Sound(q, clients'[a])
      BY <1>2, <2>1 DEF Sound
    <2>3. QuietKept(s)
      BY <1>2, <2>1 DEF QuietKept, QuietOp
    <2> QED BY <1>2, <2>1, <2>2, <2>3, NodeStill DEF Turn
  <1>3. CASE o.st \in {"connected", "revoked"} /\ StartFails(s)
    <2>1. o.kind = "start"
      BY <1>3 DEF Sound
    <2>2. ~QuietOp(o)
      BY <1>3 DEF QuietOp
    <2> QED BY <1>3, <2>1, <2>2, FailTurns
  <1>4. CASE Finish(s, ok /\ o.st # "error") /\ UNCHANGED clients
    BY <1>4, FinishTurns
  <1> QED BY <1>1, <1>2, <1>3, <1>4, Zenon DEF PatchReturns

LEMMA SlotTurns ==
    ASSUME TypeOK, AllSound, NEW s \in Slots, Acquire(s) \/ Advance(s)
    PROVE  Turn(s) /\ op[s].pc # "idle" /\ (Holds(s) \/ LockFree(op[s].acct))
  <1> DEFINE o == op[s]
             a == o.acct
             q == op'[s]
  <1>0. o.pc # "idle" /\ (Holds(s) \/ LockFree(a))
    BY DEF Holds, Acquire, AcquireStart, AcquireStop, Advance, PatchCheck, PatchApply,
           PatchTimeout, LookupCheck, LookupRow, StartRaises, Connect, Authorized,
           SessionRevoked, Disconnect, Disconnected, Drained
  <1>1. op \in [Slots -> OpType] /\ a \in Accounts /\ Sound(o, clients[a])
    BY <1>0, OpKnown DEF AllSound
  <1>2. /\ "starting" \in Statuses \ {"removed"} /\ "disconnected" \in Statuses \ {"removed"}
        /\ "error" \in Statuses \ {"removed"}
    BY DEF Statuses
  <1>3. CASE AcquireStart(s)
    <2>1. CASE clients[a].conn = "live"
      <3>1. Finish(s, TRUE) /\ clients' = clients
        BY <1>3, <2>1 DEF AcquireStart
      <3> QED BY <1>0, <1>1, <1>3, <3>1, FinishTurns DEF AcquireStart, Sound
    <2>2. CASE clients[a].conn # "live"
      <3>1. Patch(s, "starting") /\ UNCHANGED nodeVars /\ clients' = clients
        BY <1>3, <2>2 DEF AcquireStart
      <3> QED BY <1>0, <1>1, <1>2, <1>3, <2>2, <3>1, PatchTurns DEF AcquireStart, Sound
    <2> QED BY <1>0, <2>1, <2>2
  <1>4. CASE AcquireStop(s)
    <2>1. /\ q.pc = IF clients[a] = NoClient THEN "drain" ELSE "disconnect"
          /\ q.live = (clients[a].conn = "live")
          /\ q.kind = o.kind /\ q.by = o.by /\ q.acct = a
          /\ \A t \in Slots \ {s} : op'[t] = op[t]
      BY <1>1, <1>4 DEF AcquireStop, OpType
    <2>2. clients' = [clients EXCEPT ![a] = NoClient] /\ UNCHANGED nodeVars
          /\ o.pc = "lock" /\ o.kind # "start"
      BY <1>4, Zenon DEF AcquireStop
    <2>3. clients'[a] = NoClient /\ \A b \in Accounts \ {a} : clients'[b] = clients[b]
      BY <1>0, <1>1, <2>2, OpKnown
    <2>4. NoClient.conn # "live"
      BY DEF NoClient
    <2>5. Sound(q, clients'[a])
      BY <1>1, <2>1, <2>2, <2>3, <2>4 DEF Sound
    <2>6. QuietKept(s)
      BY <2>1, <2>3, <2>4 DEF QuietKept, QuietOp
    <2> QED BY <1>0, <2>1, <2>2, <2>3, <2>5, <2>6, NodeStill DEF Turn, Alone
  <1>5. CASE PatchCheck(s)
    <2>1. CASE Eligible(a)
      <3>1. /\ q.pc = "patch" /\ q.st = o.st /\ q.live = o.live /\ q.kind = o.kind
            /\ q.by = o.by /\ q.acct = a /\ Alone(s) /\ clients' = clients
            /\ UNCHANGED nodeVars /\ o.pc = "patch"
        BY <1>1, <1>5, <2>1 DEF PatchCheck, OpType, Alone
      <3>2. Sound(q, clients'[a])
        BY <1>1, <3>1 DEF Sound
      <3>3. QuietKept(s)
        BY <2>1 DEF QuietKept, Eligible
      <3> QED BY <1>0, <3>1, <3>2, <3>3, NodeStill DEF Turn
    <2>2. CASE ~Eligible(a)
      <3>1. PatchReturns(s, FALSE) /\ o.pc = "patch"
        BY <1>5, <2>2 DEF PatchCheck
      <3> QED BY <1>0, <1>1, <3>1, ReturnTurns
    <2> QED BY <2>1, <2>2
  <1>6. CASE PatchApply(s) \/ PatchTimeout(s)
    <2>1. o.pc = "patch" /\ \/ PatchReturns(s, FALSE)
                            \/ PatchReturns(s, TRUE) /\ (o.st = "starting" => o.checked)
      BY <1>6 DEF PatchApply, PatchTimeout
    <2> QED BY <1>0, <1>1, <2>1, ReturnTurns
  <1>7. CASE LookupCheck(s) \/ LookupRow(s) \/ Connect(s)
    <2>1. /\ o.pc \in {"lookup", "connect"} /\ q.pc \in {"lookup", "connect", "authorize"}
          /\ q.live => q.pc = "authorize" \/ o.live
          /\ q.kind = o.kind /\ q.by = o.by /\ q.acct = a
          /\ Alone(s) /\ clients' = clients /\ UNCHANGED nodeVars
      BY <1>1, <1>7 DEF LookupCheck, LookupRow, Connect, To, OpType, Alone
    <2>2. Sound(q, clients'[a])
      BY <1>1, <2>1 DEF Sound
    <2>3. QuietKept(s)
      BY <2>1 DEF QuietKept, QuietOp
    <2> QED BY <1>0, <2>1, <2>2, <2>3, NodeStill DEF Turn
  <1>8. CASE StartRaises(s)
    <2>1. StartFails(s) /\ o.pc \in {"lookup", "connect", "authorize"}
      BY <1>8 DEF StartRaises
    <2>2. o.kind = "start" /\ ~QuietOp(o)
      BY <1>1, <2>1 DEF Sound, QuietOp
    <2> QED BY <1>0, <1>1, <2>1, <2>2, FailTurns
  <1>9. CASE Authorized(s) \/ SessionRevoked(s)
    <2>1. /\ o.pc = "authorize" /\ q.pc = "patch" /\ q.st \in {"connected", "revoked"}
          /\ ~q.live /\ q.kind = o.kind /\ q.by = o.by /\ q.acct = a
          /\ \A t \in Slots \ {s} : op'[t] = op[t]
          /\ UNCHANGED nodeVars
      BY <1>1, <1>9 DEF Authorized, SessionRevoked, OpType
    <2>2. \A b \in Accounts \ {a} : clients'[b] = clients[b]
      BY <1>0, <1>1, <1>9, OpKnown DEF Authorized, SessionRevoked
    <2>5. q.st = "revoked" => clients' = clients
      <3>1. CASE Authorized(s)
        <4>1. q.st = "connected"
          BY <1>1, <3>1 DEF Authorized, OpType
        <4> QED BY <4>1
      <3>2. CASE SessionRevoked(s)
        BY <3>2 DEF SessionRevoked
      <3> QED BY <1>9, <3>1, <3>2
    <2>6. q.st = "revoked" => clients'[a].conn # "live"
      BY <1>1, <2>1, <2>5 DEF Sound
    <2>3. Sound(q, clients'[a])
      BY <1>1, <2>1, <2>6 DEF Sound
    <2>4. QuietKept(s)
      BY <2>1 DEF QuietKept, QuietOp
    <2> QED BY <1>0, <2>1, <2>2, <2>3, <2>4, NodeStill DEF Turn, Alone
  <1>10. CASE Disconnect(s)
    <2>1. /\ o.pc = "disconnect" /\ q.pc = "closing"
          /\ ~q.live /\ q.kind = o.kind /\ q.by = o.by /\ q.acct = a
          /\ Alone(s) /\ clients' = clients /\ UNCHANGED nodeVars
      BY <1>1, <1>10 DEF Disconnect, OpType, Alone
    <2>2. Sound(q, clients'[a])
      BY <1>1, <2>1 DEF Sound
    <2>3. QuietKept(s)
      BY <2>1 DEF QuietKept, QuietOp
    <2> QED BY <1>0, <2>1, <2>2, <2>3, NodeStill DEF Turn
  <1>11. CASE Disconnected(s)
    <2>1. CASE o.kind = "start"
      <3>1. /\ Patch(s, "error") /\ clients' = clients /\ UNCHANGED nodeVars
            /\ o.pc = "closing"
        BY <1>11, <2>1 DEF Disconnected
      <3>2. clients[a] = NoClient /\ NoClient.conn # "live" /\ ~o.live
        BY <1>1, <3>1 DEF Sound, NoClient
      <3>3. clients[a].conn # "live"
        BY <3>2
      <3> QED BY <1>0, <1>1, <1>2, <2>1, <3>1, <3>2, <3>3, PatchTurns DEF QuietOp
    <2>2. CASE o.kind # "start"
      <3>1. /\ o.pc = "closing" /\ q.pc = "drain" /\ q.live = o.live /\ q.kind = o.kind
            /\ q.by = o.by /\ q.acct = a /\ Alone(s) /\ clients' = clients
            /\ UNCHANGED nodeVars
        BY <1>1, <1>11, <2>2 DEF Disconnected, To, OpType, Alone
      <3>2. Sound(q, clients'[a])
        BY <1>1, <2>2, <3>1 DEF Sound
      <3>3. QuietKept(s)
        BY <3>1 DEF QuietKept, QuietOp
      <3> QED BY <1>0, <3>1, <3>2, <3>3, NodeStill DEF Turn
    <2> QED BY <2>1, <2>2
  <1>12. CASE Drained(s)
    <2>0. o.pc = "drain" /\ clients' = clients
      BY <1>12 DEF Drained
    <2>1. CASE o.by = "close"
      <3>1. Finish(s, TRUE)
        BY <1>12, <2>1 DEF Drained
      <3> QED BY <1>0, <1>1, <2>0, <2>1, <3>1, FinishTurns
    <2>2. CASE o.by # "close"
      <3>1. Patch(s, "disconnected") /\ UNCHANGED nodeVars
        BY <1>12, <2>2 DEF Drained
      <3> QED BY <1>0, <1>1, <1>2, <2>0, <3>1, PatchTurns DEF Sound
    <2> QED BY <2>1, <2>2
  <1> QED BY <1>0, <1>3, <1>4, <1>5, <1>6, <1>7, <1>8, <1>9, <1>10, <1>11, <1>12
          DEF Acquire, Advance

(* Locking, what a holder of the lock may rely on, and confirmed stops. *)
LockInv == Mutex /\ AllSound /\ Stopping

LEMMA TurnKeeps ==
    ASSUME TypeOK, TypeOK', LockInv, NEW s \in Slots, Turn(s), op[s].pc # "idle",
           Holds(s) \/ LockFree(op[s].acct), approved' = approved
    PROVE  LockInv'
  <1> DEFINE a == op[s].acct
             q == op'[s]
  <1>0. /\ a \in Accounts /\ Owner[a] \in Users /\ OpOK /\ OpOK' /\ NodeOK /\ NodeOK'
        /\ \A t \in Slots \ {s} : op'[t] = op[t]
        /\ \A b \in Accounts \ {a} : clients'[b] = clients[b]
        /\ q.pc # "idle" => q.acct = a
    BY OpKnown, TypeParts, TypePartsNext DEF Turn, Alone
  <1>1. ASSUME NEW t \in Slots, t # s, op[t].acct = a PROVE op[t].pc = "lock"
    BY <1>0, <1>1 DEF LockInv, Mutex, LockFree, Holds, OpOK, Formed, Named
  <1>2. ASSUME NEW t \in Slots, op'[t].pc # "idle" PROVE Sound(op'[t], clients'[op'[t].acct])
    <2>1. CASE t = s
      BY <1>0, <1>2, <2>1 DEF Turn
    <2>2. CASE t # s
      <3>1. op'[t] = op[t] /\ op[t].acct \in Accounts /\ Sound(op[t], clients[op[t].acct])
        BY <1>0, <1>2, <2>2 DEF LockInv, AllSound, OpOK, OpType, Formed, Named
      <3>2. CASE op[t].acct = a
        <4>1. op[t].pc = "lock"
          BY <1>1, <2>2, <3>2
        <4> QED BY <3>1, <4>1 DEF Sound
      <3>3. CASE op[t].acct # a
        BY <1>0, <3>1, <3>3
      <3> QED BY <3>2, <3>3
    <2> QED BY <2>1, <2>2
  <1>3. AllSound'
    BY <1>2 DEF AllSound
  <1>4. Mutex'
    <2> SUFFICES ASSUME NEW t1 \in Slots, NEW t2 \in Slots, t1 # t2, Holds(t1)', Holds(t2)',
                        op'[t1].acct = op'[t2].acct
                 PROVE  FALSE
      BY DEF Mutex
    <2>1. CASE t1 # s /\ t2 # s
      BY <1>0, <2>1 DEF LockInv, Mutex, Holds
    <2>2. CASE t1 = s
      BY <1>0, <1>1, <2>2 DEF Holds
    <2>3. CASE t2 = s
      BY <1>0, <1>1, <2>3 DEF Holds
    <2> QED BY <2>1, <2>2, <2>3
  <1>5. ASSUME NEW b \in Accounts, ~approved[Owner[b]], Quiet(b) PROVE Quiet(b)'
    <2>1. CASE b = a
      <3>1. clients'[a] = NoClient /\ (q.pc # "idle" => QuietOp(q))
        BY <1>5, <2>1 DEF Quiet, Turn, QuietKept
      <3>2. q.pc = "idle" => q.acct # a
        BY <1>0 DEF OpOK, Formed, Named
      <3> QED BY <1>0, <1>5, <2>1, <3>1, <3>2 DEF Quiet
    <2>2. CASE b # a
      <3>1. q.acct # b
        BY <1>0, <2>2 DEF OpOK, Formed, Named
      <3> QED BY <1>0, <1>5, <2>2, <3>1 DEF Quiet
    <2> QED BY <2>1, <2>2
  <1>6. ASSUME NEW b \in Accounts, ~approved'[Owner[b]], confirmed'[Owner[b]]
        PROVE  b \in unsent'[Owner[b]] \/ b \in awaited'[Owner[b]] \/ Quiet(b)'
    <2> DEFINE u == Owner[b]
    <2>1. /\ u \in Users /\ ~approved[u] /\ confirmed[u] /\ unsent' = unsent
          /\ \/ awaited'[u] = awaited[u]
             \/ /\ awaited[u] \subseteq awaited'[u] \cup {a}
                /\ op[s].pc # "lock" /\ q.pc = "idle" /\ clients'[a] = NoClient
      BY <1>6 DEF Turn, Released
    <2>2. b \in unsent[u] \/ b \in awaited[u] \/ Quiet(b)
      BY <2>1 DEF LockInv, Stopping
    <2>3. CASE Quiet(b)
      BY <1>5, <2>1, <2>3
    <2>4. CASE b \in awaited[u] /\ b \notin awaited'[u]
      <3>1. b = a /\ q.pc = "idle" /\ clients'[a] = NoClient
        BY <2>1, <2>4
      <3>2. ASSUME NEW t \in Slots, op'[t].acct = a PROVE QuietOp(op'[t])
        <4>1. t # s
          BY <1>0, <3>1, <3>2 DEF OpOK, Formed, Named
        <4>2. op'[t] = op[t] /\ op[t].pc = "lock"
          BY <1>0, <1>1, <3>2, <4>1
        <4>3. ~op[t].live
          BY <1>0, <4>2, <3>2 DEF LockInv, AllSound, Sound
        <4> QED BY <4>2, <4>3 DEF QuietOp
      <3> QED BY <3>1, <3>2 DEF Quiet
    <2> QED BY <2>1, <2>2, <2>3, <2>4
  <1>7. Stopping'
    BY <1>6 DEF Stopping
  <1> QED BY <1>3, <1>4, <1>7 DEF LockInv

(* Steps that leave the lock alone: coroutines are queued, or cease to be
   waited for. *)
Queued(s) ==
    \/ op'[s] = op[s]
    \/ /\ op'[s].pc = "lock" /\ ~op'[s].live
       /\ op'[s].by = "admin" => op'[s].kind = "stop"
    \/ op'[s] = [op[s] EXCEPT !.by = "node"]

LEMMA QueueKeeps ==
    ASSUME TypeOK, TypeOK', Mutex, AllSound, clients' = clients, \A s \in Slots : Queued(s)
    PROVE  Mutex' /\ AllSound' /\ \A a \in Accounts : Quiet(a) => Quiet(a)'
  <1>0. OpOK /\ OpOK'
    BY TypeParts, TypePartsNext
  <1>1. ASSUME NEW s \in Slots
        PROVE  /\ op'[s].pc # "idle" => Sound(op'[s], clients'[op'[s].acct])
               /\ Holds(s)' => Holds(s) /\ op'[s].acct = op[s].acct
               /\ QuietOp(op[s]) => QuietOp(op'[s])
               /\ op'[s].acct = op[s].acct \/ QuietOp(op'[s])
    <2>0. /\ op[s] \in OpType /\ op'[s] \in OpType
          /\ op[s].pc # "idle" => Sound(op[s], clients[op[s].acct])
      BY <1>0 DEF OpOK, AllSound
    <2>1. CASE op'[s] = op[s]
      BY <2>0, <2>1 DEF Holds
    <2>2. CASE /\ op'[s].pc = "lock" /\ ~op'[s].live
               /\ op'[s].by = "admin" => op'[s].kind = "stop"
      BY <2>2 DEF Sound, Holds, QuietOp
    <2>3. CASE op'[s] = [op[s] EXCEPT !.by = "node"]
      <3>1. /\ op'[s].pc = op[s].pc /\ op'[s].st = op[s].st /\ op'[s].live = op[s].live
            /\ op'[s].kind = op[s].kind /\ op'[s].by = "node" /\ op'[s].acct = op[s].acct
            /\ op'[s].checked = op[s].checked
        BY <2>0, <2>3 DEF OpType
      <3> QED BY <2>0, <3>1 DEF Sound, Holds, QuietOp
    <2> QED BY <2>1, <2>2, <2>3 DEF Queued
  <1>2. Mutex'
    BY <1>1 DEF Mutex
  <1>3. AllSound'
    BY <1>1 DEF AllSound
  <1>4. \A a \in Accounts : Quiet(a) => Quiet(a)'
    BY <1>1 DEF Quiet
  <1> QED BY <1>2, <1>3, <1>4

(* No suspension stops being awaited. *)
Waiting ==
    \A u \in Users : ~approved'[u] /\ confirmed'[u] =>
        /\ ~approved[u] /\ confirmed[u]
        /\ unsent[u] \cup awaited[u] \subseteq unsent'[u] \cup awaited'[u]

LEMMA WaitKeeps ==
    ASSUME TypeOK, TypeOK', LockInv, clients' = clients, \A s \in Slots : Queued(s), Waiting
    PROVE  LockInv'
  <1>1. Mutex' /\ AllSound' /\ \A a \in Accounts : Quiet(a) => Quiet(a)'
    BY QueueKeeps DEF LockInv
  <1>2. \A a \in Accounts : Owner[a] \in Users
    OBVIOUS
  <1>3. Stopping'
    BY <1>1, <1>2 DEF LockInv, Stopping, Waiting
  <1> QED BY <1>1, <1>3 DEF LockInv

LEMMA StillKeeps ==
    ASSUME LockInv, UNCHANGED <<approved, nodeVars, clients, op>> PROVE LockInv'
  <1>1. Mutex' /\ AllSound'
    BY DEF LockInv, Mutex, Holds, AllSound
  <1>2. Stopping'
    BY DEF LockInv, Stopping, Quiet, nodeVars
  <1> QED BY <1>1, <1>2 DEF LockInv

LEMMA NodeWaits ==
    ASSUME UNCHANGED <<approved, nodeVars>> PROVE Waiting
  BY DEF Waiting, nodeVars

LEMMA SpawnQueues ==
    ASSUME TypeOK, NEW set \in SUBSET Accounts, NEW kind,
           NEW by \in {"restore", "monitor", "close"}, Spawn(set, kind, by)
    PROVE  \A s \in Slots : Queued(s)
  BY DEF Spawn, Op, Queued

LEMMA CommandQueues ==
    ASSUME TypeOK, NEW s \in Cmds, NEW kind, NEW a, NEW by, by = "admin" => kind = "stop",
           Command(s, kind, a, by)
    PROVE  clients' = clients /\ task' = task /\ \A t \in Slots : Queued(t)
  <1>1. op \in [Slots -> OpType]
    BY TypeParts DEF OpOK
  <1> QED BY <1>1 DEF Command, Op, Queued, Slots

LEMMA LoopKeeps ==
    ASSUME TypeOK, TypeOK', LockInv,
           Loop \/ Boot \/ Shutdown \/ Crash \/ \E a \in Accounts : ClientDies(a)
    PROVE  LockInv'
  <1>1. CASE Restored \/ ReadEligibility \/ Reconciled \/ Boot \/ Shutdown
    <2>1. UNCHANGED <<approved, nodeVars, clients, op>>
      BY <1>1, Zenon DEF Restored, ReadEligibility, Reconciled, Boot, Shutdown, userVars
    <2> QED BY <2>1, StillKeeps
  <1>2. CASE RestoreAll \/ StopIneligible \/ CloseClients
    <2>1. UNCHANGED <<approved, nodeVars, clients>>
      BY <1>2, Zenon DEF RestoreAll, StopIneligible, CloseClients, userVars
    <2>2. \A s \in Slots : Queued(s)
      BY <1>2, SpawnQueues DEF RestoreAll, StopIneligible, CloseClients
    <2> QED BY <2>1, <2>2, NodeWaits, WaitKeeps
  <1>3. CASE Exit \/ Crash
    <2>1. /\ \A a \in Accounts : clients'[a] = NoClient
          /\ \A s \in Slots : op'[s] = IdleOp
      BY <1>3 DEF Exit, Crash, WorkerGone
    <2>2. IdleOp.pc = "idle" /\ IdleOp.acct \notin Accounts
      BY DEF IdleOp, Op
    <2>3. Mutex' /\ AllSound' /\ Stopping'
      BY <2>1, <2>2 DEF Mutex, Holds, AllSound, Stopping, Quiet
    <2> QED BY <2>3 DEF LockInv
  <1>4. ASSUME NEW a \in Accounts, ClientDies(a) PROVE LockInv'
    <2>0. clients \in [Accounts -> [conn : {"none", "live", "dead"}, gen : 0 .. MaxVer]]
      BY TypeParts DEF ClientsOK
    <2>1. /\ clients[a].conn = "live" /\ clients'[a].conn = "dead"
          /\ \A b \in Accounts \ {a} : clients'[b] = clients[b]
          /\ UNCHANGED <<approved, nodeVars, op>>
      BY <1>4, <2>0 DEF ClientDies, userVars
    <2>2. clients[a] # NoClient
      BY <2>1 DEF NoClient
    <2>3. ASSUME NEW s \in Slots, op[s].pc # "idle" PROVE Sound(op[s], clients'[op[s].acct])
      <3>1. op[s].acct \in Accounts /\ Sound(op[s], clients[op[s].acct])
        BY <2>3, OpKnown DEF LockInv, AllSound
      <3> QED BY <2>1, <2>2, <3>1 DEF Sound
    <2>4. Mutex' /\ AllSound'
      BY <2>1, <2>3 DEF LockInv, Mutex, Holds, AllSound
    <2>5. \A b \in Accounts : Quiet(b) => Quiet(b)'
      BY <2>1, <2>2 DEF Quiet
    <2>6. Stopping'
      BY <2>1, <2>5 DEF LockInv, Stopping, nodeVars
    <2> QED BY <2>4, <2>6 DEF LockInv
  <1> QED BY <1>1, <1>2, <1>3, <1>4 DEF Loop

LEMMA RouteQueues ==
    ASSUME TypeOK, Routes
    PROVE  clients' = clients /\ task' = task /\ \A t \in Slots : Queued(t)
  <1>1. ASSUME NEW s \in Cmds, NEW a \in Accounts,
               \/ Reconnect(s, a) \/ DisconnectAccount(s, a) \/ RemoveBegins(s, a)
               \/ Link(s, a) \/ SendPause(s, a)
        PROVE  clients' = clients /\ task' = task /\ \A t \in Slots : Queued(t)
    <2>1. CASE Link(s, a) /\ UNCHANGED workVars
      BY <2>1 DEF workVars, Queued
    <2>2. CASE \E kind, by : (by = "admin" => kind = "stop") /\ Command(s, kind, a, by)
      BY <2>2, CommandQueues
    <2> QED BY <1>1, <2>1, <2>2 DEF Reconnect, DisconnectAccount, RemoveBegins, Link, SendPause
  <1>2. ASSUME NEW s \in Cmds, CommandTimesOut(s)
        PROVE  clients' = clients /\ task' = task /\ \A t \in Slots : Queued(t)
    BY <1>2, TypeParts DEF CommandTimesOut, Queued, OpOK, Slots
  <1>3. ASSUME UNCHANGED workVars
        PROVE  clients' = clients /\ task' = task /\ \A t \in Slots : Queued(t)
    BY <1>3 DEF workVars, Queued
  <1>4. ASSUME NEW a \in Accounts, RemoveAgain(a) \/ RemoveCommits(a) \/ PauseLost(a)
        PROVE  UNCHANGED workVars
    BY <1>4, Zenon DEF RemoveAgain, RemoveCommits, PauseLost
  <1>5. ASSUME NEW u \in Users, Approve(u) \/ Suspend(u) \/ ChangeCredential(u)
        PROVE  UNCHANGED workVars
    BY <1>5, Zenon DEF Approve, Suspend, ChangeCredential
  <1> QED BY <1>1, <1>2, <1>3, <1>4, <1>5 DEF Routes

LEMMA RouteKeeps ==
    ASSUME TypeOK, TypeOK', LockInv, Routes PROVE LockInv'
  <1>0. NodeOK /\ OpOK /\ approved \in [Users -> BOOLEAN]
    BY TypeParts DEF I!TypeOK
  <1>1. ASSUME NEW s \in Cmds, NEW a \in Accounts, Reconnect(s, a) \/ DisconnectAccount(s, a)
               \/ RemoveBegins(s, a) \/ Link(s, a)
        PROVE  LockInv'
    <2>1. Waiting
      BY <1>1 DEF Reconnect, DisconnectAccount, RemoveBegins, Link, Waiting, userVars, nodeVars
    <2> QED BY <2>1, RouteQueues, WaitKeeps
  <1>2. ASSUME NEW s \in Cmds, NEW a \in Accounts, SendPause(s, a) PROVE LockInv'
    <2>1. Waiting
      <3>1. approved' = approved /\ confirmed' = confirmed
        BY <1>2 DEF SendPause, userVars
      <3>2. \A u \in Users : unsent[u] \cup awaited[u] \subseteq unsent'[u] \cup awaited'[u]
        BY <1>0, <1>2 DEF SendPause, NodeOK
      <3> QED BY <3>1, <3>2 DEF Waiting
    <2> QED BY <2>1, RouteQueues, WaitKeeps
  <1>3. ASSUME NEW s \in Cmds, CommandTimesOut(s) PROVE LockInv'
    <2>0. s \in Slots /\ op[s].pc # "idle"
      BY <1>3 DEF CommandTimesOut, Slots
    <2>1. Waiting
      <3>1. approved' = approved /\ unsent' = unsent
        BY <1>3 DEF CommandTimesOut, userVars
      <3>2. CASE op[s].by = "admin"
        <4>1. /\ awaited' = [awaited EXCEPT ![Owner[op[s].acct]] = @ \ {op[s].acct}]
              /\ confirmed' = [confirmed EXCEPT ![Owner[op[s].acct]] = FALSE]
          BY <1>3, <3>2, Zenon DEF CommandTimesOut
        <4> QED BY <1>0, <2>0, <3>1, <4>1, OpKnown DEF NodeOK, Waiting
      <3>3. CASE op[s].by # "admin"
        <4>1. awaited' = awaited /\ confirmed' = confirmed
          BY <1>3, <3>3, Zenon DEF CommandTimesOut
        <4> QED BY <3>1, <4>1 DEF Waiting
      <3> QED BY <3>2, <3>3
    <2> QED BY <2>1, RouteQueues, WaitKeeps
  <1>4. ASSUME NEW a \in Accounts, RemoveAgain(a) \/ RemoveCommits(a) \/ PauseLost(a)
        PROVE  LockInv'
    <2>1. Waiting
      <3>1. CASE PauseLost(a)
        BY <1>0, <3>1 DEF PauseLost, userVars, NodeOK, Waiting
      <3>2. CASE RemoveAgain(a) \/ RemoveCommits(a)
        BY <3>2 DEF RemoveAgain, RemoveCommits, userVars, Waiting
      <3> QED BY <1>4, <3>1, <3>2
    <2> QED BY <2>1, RouteQueues, WaitKeeps
  <1>5. ASSUME NEW u \in Users, Approve(u) \/ ChangeCredential(u) PROVE LockInv'
    <2>1. Waiting
      <3>1. /\ nodeVars' = nodeVars
            /\ \/ approved' = approved
               \/ approved' = [approved EXCEPT ![u] = TRUE]
        BY <1>5, Zenon DEF Approve, ChangeCredential, I!Approve, I!ChangeCredential
      <3> QED BY <1>0, <3>1 DEF nodeVars, Waiting
    <2> QED BY <2>1, RouteQueues, WaitKeeps
  <1>6. ASSUME NEW u \in Users, Suspend(u) PROVE LockInv'
    <2>1. /\ approved' = [approved EXCEPT ![u] = FALSE]
          /\ unsent' = [unsent EXCEPT ![u] = AccountsOf(u)]
          /\ confirmed' = [confirmed EXCEPT ![u] = TRUE]
          /\ UNCHANGED <<awaited, clients, op>>
      BY <1>6, Zenon DEF Suspend, I!Suspend, workVars
    <2>2. Mutex' /\ AllSound'
      BY <2>1 DEF LockInv, Mutex, Holds, AllSound
    <2>3. \A b \in Accounts : Quiet(b) => Quiet(b)'
      BY <2>1 DEF Quiet
    <2>4. \A b \in Accounts : Owner[b] = u => b \in unsent'[u]
      BY <1>0, <2>1 DEF AccountsOf, NodeOK
    <2>5. \A b \in Accounts : Owner[b] # u =>
              /\ approved'[Owner[b]] = approved[Owner[b]]
              /\ confirmed'[Owner[b]] = confirmed[Owner[b]]
              /\ unsent'[Owner[b]] = unsent[Owner[b]]
              /\ awaited'[Owner[b]] = awaited[Owner[b]]
      BY <1>0, <2>1 DEF NodeOK
    <2>6. Stopping'
      BY <2>3, <2>4, <2>5 DEF LockInv, Stopping
    <2> QED BY <2>2, <2>6 DEF LockInv
  <1> QED BY <1>1, <1>2, <1>3, <1>4, <1>5, <1>6 DEF Routes

LEMMA LockStep ==
    ASSUME TypeOK, TypeOK', LockInv, [Next]_vars PROVE LockInv'
  <1>1. ASSUME NEW s \in Slots, Acquire(s) \/ Advance(s) PROVE LockInv'
    <2>1. approved' = approved
      BY <1>1, Zenon DEF Acquire, AcquireStart, AcquireStop, Advance, PatchCheck, PatchApply,
          PatchTimeout, LookupCheck, LookupRow, StartRaises, Connect, Authorized,
          SessionRevoked, Disconnect, Disconnected, Drained, userVars
    <2> QED BY <1>1, <2>1, SlotTurns, TurnKeeps DEF LockInv
  <1>2. ASSUME NEW p \in Posts, Handle(p) \/ \E a \in Accounts : Arrive(p, a) PROVE LockInv'
    <2>1. UNCHANGED <<approved, nodeVars, clients, op>>
      BY <1>2, Zenon DEF Handle, FilterAllows, TakeContext, Ingest, HandlerEnds, ServePost, Arrive,
          I!Receive, I!Serve, I!Lock, I!Reject, I!Commit, I!Abort, userVars, workVars
    <2> QED BY <2>1, StillKeeps
  <1>3. ASSUME NEW r \in late, LateCheck(r) \/ LateApply(r) \/ LateDrop(r) PROVE LockInv'
    <2>1. UNCHANGED <<approved, nodeVars, clients, op>>
      BY <1>3, Zenon DEF LateCheck, LateApply, LateDrop, userVars, workVars
    <2> QED BY <2>1, StillKeeps
  <1>4. CASE UNCHANGED vars
    BY <1>4, StillKeeps DEF vars, userVars, workVars
  <1> QED BY <1>1, <1>2, <1>3, <1>4, LoopKeeps, RouteKeeps DEF Next

LEMMA Locking == Spec => []LockInv
  <1>1. ASSUME Init PROVE LockInv
    <2>1. \A s \in Slots : op[s].pc = "idle" /\ op[s].acct \notin Accounts
      BY <1>1 DEF Init, IdleOp, Op
    <2>2. \A a \in Accounts : clients[a] = NoClient
      BY <1>1 DEF Init
    <2> QED BY <2>1, <2>2 DEF LockInv, Mutex, Holds, AllSound, Stopping, Quiet
  <1>2. TypeOK /\ TypeOK' /\ LockInv /\ [Next]_vars => LockInv'
    BY LockStep
  <1> QED BY <1>1, <1>2, TypeCorrect, PTL DEF Spec

(* At most one client of an account is connected to Telegram, whatever
   commands and monitor passes are queued for it: the lock keeps a second
   start from connecting before the first is registered, and a stop disconnects
   what it has popped before the lock is released. *)
THEOREM OneClient == Spec => []OneClientPerAccount
  <1>1. TypeOK /\ LockInv => OneClientPerAccount
    <2> SUFFICES ASSUME TypeOK, LockInv, NEW a \in Accounts
                 PROVE  Cardinality(LiveClients(a)) <= 1
      BY DEF OneClientPerAccount
    <2>1. ASSUME NEW s \in Slots, op[s].acct = a, op[s].live
          PROVE  Holds(s) /\ clients[a].conn # "live"
      <3>1. op[s].pc # "idle"
        BY <2>1, TypeParts DEF OpOK, Formed, Named
      <3>2. Sound(op[s], clients[a])
        BY <2>1, <3>1 DEF LockInv, AllSound
      <3>3. NoClient.conn # "live"
        BY DEF NoClient
      <3> QED BY <2>1, <3>2, <3>3 DEF Sound, Holds
    <2>2. CASE clients[a].conn = "live"
      <3>1. LiveClients(a) = {"registered"}
        BY <2>1, <2>2 DEF LiveClients
      <3> QED BY <3>1, FS_Singleton
    <2>3. CASE clients[a].conn # "live"
      <3>1. LiveClients(a) = {s \in Slots : op[s].acct = a /\ op[s].live}
        BY <2>3 DEF LiveClients
      <3>2. \A s, t \in LiveClients(a) : s = t
        BY <2>1, <3>1 DEF LockInv, Mutex
      <3>3. CASE LiveClients(a) = {}
        BY <3>3, FS_EmptySet
      <3>4. ASSUME NEW s \in LiveClients(a) PROVE Cardinality(LiveClients(a)) = 1
        <4>1. LiveClients(a) = {s}
          BY <3>2, <3>4
        <4> QED BY <4>1, FS_Singleton
      <3> QED BY <3>3, <3>4
    <2> QED BY <2>2, <2>3
  <1> QED BY <1>1, TypeCorrect, Locking, PTL

(* A start that fails, wherever it does, has disconnected its client before it
   reports so, and the lock kept other coroutines from connecting one. *)
THEOREM FailedStarts == Spec => []FailedStartDisconnects
  <1>1. TypeOK /\ LockInv => FailedStartDisconnects
    <2> SUFFICES ASSUME TypeOK, LockInv, NEW s \in Slots,
                        op[s].pc = "patch", op[s].st \in {"error", "revoked"}
                 PROVE  ~Delivering(op[s].acct)
      BY DEF FailedStartDisconnects
    <2>1. Holds(s) /\ clients[op[s].acct].conn # "live"
      BY DEF Holds, LockInv, AllSound, Sound
    <2>2. ASSUME NEW t \in Slots, op[t].acct = op[s].acct, op[t].live
          PROVE  FALSE
      <3>1. op[t].pc # "idle"
        BY <2>1, <2>2, OpKnown, TypeParts DEF OpOK, Formed, Named, Holds
      <3>2. op[t].pc \in {"authorize", "disconnect"}
        BY <2>2, <3>1 DEF LockInv, AllSound, Sound
      <3> QED BY <2>1, <2>2, <3>2 DEF LockInv, Mutex, Holds
    <2> QED BY <2>1, <2>2 DEF Delivering
  <1> QED BY <1>1, TypeCorrect, Locking, PTL

(* A suspension whose every pause was answered leaves no client of its owner,
   registered or connected, for as long as the owner is not approved again:
   the starts and restarts still queued find the account ineligible. *)
THEOREM StopsConfirmed == Spec => []ConfirmedStop
  <1>1. TypeOK /\ LockInv => ConfirmedStop
    <2> SUFFICES ASSUME TypeOK, LockInv, NEW u \in Users,
                        confirmed[u], unsent[u] = {}, awaited[u] = {}, ~approved[u],
                        NEW a \in AccountsOf(u)
                 PROVE  clients[a] = NoClient /\ ~Delivering(a)
      BY DEF ConfirmedStop
    <2>1. a \in Accounts /\ Owner[a] = u
      BY DEF AccountsOf
    <2>2. Quiet(a)
      BY <2>1 DEF LockInv, Stopping
    <2>3. clients[a] = NoClient /\ clients[a].conn # "live"
      BY <2>2 DEF Quiet, NoClient
    <2>4. \A s \in Slots : op[s].acct = a => ~op[s].live
      BY <2>2 DEF Quiet, QuietOp
    <2> QED BY <2>3, <2>4 DEF Delivering
  <1> QED BY <1>1, TypeCorrect, Locking, PTL
-----------------------------------------------------------------------------
(* The handlers a stop of s has still to wait for: those it noted, and, until
   the client is disconnected, the client's own. *)
Left(s) ==
    LET o == op[s] IN
    /\ o.pc \in {"disconnect", "closing"} /\ o.kind # "start" =>
          \A p \in Posts : task[p].acct = o.acct => p \in o.snap \/ task[p].own
    /\ o.pc = "drain" => \A p \in Posts : task[p].acct = o.acct => p \in o.snap
    /\ o.pc = "patch" /\ o.st = "disconnected" => \A p \in Posts : task[p].acct # o.acct

AllLeft == \A s \in Slots : op[s].pc # "idle" => Left(s)

(* Handlers end, and none begins or changes hands. *)
Fades ==
    \A p \in Posts :
        \/ task'[p].acct = task[p].acct /\ task'[p].own = task[p].own
        \/ task'[p].acct = NoAccount

LEMMA CancelFades == ASSUME TypeOK, NEW set, CancelTasks(set) PROVE Fades
  <1>1. \A p \in Posts : task[p] \in TaskType
    BY TypeParts DEF TaskOK
  <1>2. ASSUME NEW t \in TaskType
        PROVE  \/ Cancelled(t).acct = t.acct /\ Cancelled(t).own = t.own
               \/ Cancelled(t).acct = NoAccount
    BY DEF Cancelled, NoTask, TaskType
  <1>3. \A p \in Posts : task'[p] = task[p] \/ task'[p] = Cancelled(task[p])
    BY DEF CancelTasks
  <1> QED BY <1>1, <1>2, <1>3 DEF Fades

LEMMA QueuedLeft ==
    ASSUME TypeOK, TypeOK', AllLeft, \A s \in Slots : Queued(s), Fades PROVE AllLeft'
  <1> SUFFICES ASSUME NEW s \in Slots, op'[s].pc # "idle" PROVE Left(s)'
    BY DEF AllLeft
  <1>0. op[s] \in OpType /\ (op[s].pc # "idle" => op[s].acct # NoAccount)
    BY TypeParts DEF OpOK, Formed, Named
  <1>1. CASE op'[s].pc = "lock"
    BY <1>1 DEF Left
  <1>2. CASE op'[s] = op[s] \/ op'[s] = [op[s] EXCEPT !.by = "node"]
    <2>1. /\ op'[s].pc = op[s].pc /\ op'[s].st = op[s].st /\ op'[s].kind = op[s].kind
          /\ op'[s].acct = op[s].acct /\ op'[s].snap = op[s].snap
      BY <1>0, <1>2 DEF OpType
    <2> QED BY <1>0, <2>1 DEF AllLeft, Left, Fades
  <1> QED BY <1>1, <1>2 DEF Queued

(* What a coroutine that is not a stop waiting for handlers has to wait for. *)
Elsewhere(o) ==
    /\ o.pc \in {"disconnect", "closing"} => o.kind = "start"
    /\ o.pc # "drain"
    /\ o.pc = "patch" => o.st # "disconnected"

LEMMA ReturnsElsewhere ==
    ASSUME TypeOK, NEW s \in Slots, NEW ok \in BOOLEAN, op[s].pc = "patch",
           Sound(op[s], clients[op[s].acct]), PatchReturns(s, ok)
    PROVE  Elsewhere(op'[s])
  <1> DEFINE o == op[s]
             q == op'[s]
  <1>0. op \in [Slots -> OpType]
    BY OpKnown
  <1>1. CASE o.st = "starting" /\ op' = [op EXCEPT ![s].pc = "lookup", ![s].checked = FALSE]
    BY <1>0, <1>1 DEF OpType, Elsewhere
  <1>2. CASE op' = [op EXCEPT ![s] = Op("start", o.acct, o.by, "lock")]
    BY <1>0, <1>2 DEF Op, Elsewhere
  <1>3. CASE o.st \in {"connected", "revoked"} /\ StartFails(s)
    <2>1. o.kind = "start"
      BY <1>3 DEF Sound
    <2>2. q.kind = o.kind /\ q.pc = "disconnect"
      BY <1>0, <1>3 DEF StartFails, OpType
    <2> QED BY <2>1, <2>2 DEF Elsewhere
  <1>4. CASE Finish(s, ok /\ o.st # "error")
    BY <1>0, <1>4 DEF Finish, IdleOp, Op, Elsewhere
  <1> QED BY <1>1, <1>2, <1>3, <1>4, Zenon DEF PatchReturns

LEMMA FinishIdles ==
    ASSUME op \in [Slots -> OpType], NEW s \in Slots, NEW ok, Finish(s, ok)
    PROVE  op'[s].pc = "idle"
  BY DEF Finish, IdleOp, Op

(* The coroutine that takes the step. *)
LEMMA OwnLeft ==
    ASSUME TypeOK, TypeOK', LockInv, AllLeft, NEW s \in Slots, Acquire(s) \/ Advance(s),
           op'[s].pc # "idle"
    PROVE  Left(s)'
  <1> DEFINE o == op[s]
             a == o.acct
             q == op'[s]
  <1>0. op[s].pc # "idle" /\ Turn(s)
    BY SlotTurns DEF LockInv
  <1>1. /\ op \in [Slots -> OpType] /\ a \in Accounts /\ a # NoAccount
        /\ Sound(o, clients[a]) /\ Left(s)
        /\ q.acct = a
    BY <1>0, OpKnown DEF LockInv, AllSound, AllLeft, Turn
  <1>2. ASSUME Elsewhere(q) PROVE Left(s)'
    BY <1>2 DEF Elsewhere, Left
  <1>3. \A p \in Posts : task[p].pc = "idle" <=> task[p].acct = NoAccount
    BY TypeParts DEF TaskOK, Named
  <1>4. CASE AcquireStart(s)
    <2>1. Patch(s, "starting")
      BY <1>1, <1>4, FinishIdles DEF AcquireStart
    <2> QED BY <1>1, <1>2, <2>1 DEF Patch, OpType, Elsewhere
  <1>5. CASE AcquireStop(s)
    <2>1. q.snap = TasksOf(a) /\ q.pc \in {"drain", "disconnect"}
      BY <1>1, <1>5 DEF AcquireStop, OpType
    <2>2. Fades
      BY <1>5, CancelFades DEF AcquireStop, Fades
    <2> QED BY <1>1, <1>3, <2>1, <2>2 DEF Fades, Left, TasksOf
  <1>6. CASE PatchCheck(s)
    <2>1. CASE Eligible(a)
      BY <1>1, <1>2, <1>6, <2>1 DEF PatchCheck, OpType, Elsewhere
    <2>2. CASE ~Eligible(a)
      BY <1>1, <1>2, <1>6, <2>2, ReturnsElsewhere DEF PatchCheck
    <2> QED BY <2>1, <2>2
  <1>7. CASE PatchApply(s) \/ PatchTimeout(s)
    <2>1. o.pc = "patch" /\ \E ok \in BOOLEAN : PatchReturns(s, ok)
      BY <1>7, Zenon DEF PatchApply, PatchTimeout
    <2> QED BY <1>1, <1>2, <2>1, ReturnsElsewhere
  <1>8. CASE LookupCheck(s) \/ LookupRow(s) \/ Connect(s) \/ Authorized(s) \/ SessionRevoked(s)
    BY <1>1, <1>2, <1>8 DEF LookupCheck, LookupRow, Connect, Authorized, SessionRevoked, To,
                            OpType, Elsewhere
  <1>9. CASE StartRaises(s)
    <2>1. o.kind = "start"
      BY <1>1, <1>9 DEF StartRaises, Sound
    <2> QED BY <1>1, <1>2, <1>9, <2>1 DEF StartRaises, StartFails, Patch, OpType, Elsewhere
  <1>10. CASE Disconnect(s)
    <2>1. q.pc = "closing" /\ q.kind = o.kind /\ q.snap = o.snap /\ o.pc = "disconnect"
      BY <1>1, <1>10 DEF Disconnect, OpType
    <2>2. Fades
      BY <1>10, CancelFades DEF Disconnect
    <2> QED BY <1>1, <2>1, <2>2 DEF Fades, Left
  <1>11. CASE Disconnected(s)
    <2>1. CASE o.kind = "start"
      BY <1>1, <1>2, <1>11, <2>1 DEF Disconnected, Patch, OpType, Elsewhere
    <2>2. CASE o.kind # "start"
      <3>1. q.pc = "drain" /\ q.snap = o.snap /\ o.pc = "closing" /\ OwnTasks(a) = {}
        BY <1>1, <1>11, <2>2 DEF Disconnected, To, OpType
      <3>2. Fades
        BY <1>11, <2>2, CancelFades DEF Disconnected
      <3>3. \A p \in Posts : task[p].acct = a => p \in o.snap
        BY <1>1, <1>3, <2>2, <3>1 DEF Left, OwnTasks, TasksOf
      <3> QED BY <1>1, <3>1, <3>2, <3>3 DEF Fades, Left
    <2> QED BY <2>1, <2>2
  <1>12. CASE Drained(s)
    <2>1. /\ o.pc = "drain" /\ task' = task
          /\ \A p \in o.snap : task[p].pc = "idle"
          /\ Patch(s, "disconnected")
      BY <1>1, <1>12, FinishIdles DEF Drained
    <2>2. \A p \in Posts : task[p].acct # a
      BY <1>1, <1>3, <2>1 DEF Left
    <2>3. q.pc = "patch"
      BY <1>1, <2>1 DEF Patch, OpType
    <2> QED BY <1>1, <2>1, <2>2, <2>3 DEF Left
  <1> QED BY <1>4, <1>5, <1>6, <1>7, <1>8, <1>9, <1>10, <1>11, <1>12 DEF Acquire, Advance

LEMMA LeftStep ==
    ASSUME TypeOK, TypeOK', LockInv, AllLeft, [Next]_vars PROVE AllLeft'
  <1>0. OpOK /\ TaskOK /\ \A s \in Slots : op[s].pc # "idle" => op[s].acct \in Accounts
    BY TypeParts DEF OpOK, OpType, Formed, Named
  <1>1. ASSUME task' = task PROVE Fades
    BY <1>1 DEF Fades
  <1>2. ASSUME op' = op, Fades PROVE AllLeft'
    BY <1>2, QueuedLeft DEF Queued
  <1>3. ASSUME NEW t \in Slots, Acquire(t) \/ Advance(t) PROVE AllLeft'
    <2> SUFFICES ASSUME NEW s \in Slots, op'[s].pc # "idle" PROVE Left(s)'
      BY DEF AllLeft
    <2>1. CASE s = t
      BY <1>3, <2>1, OwnLeft
    <2>2. CASE s # t
      <3>1. op'[s] = op[s] /\ Left(s) /\ op[s].acct \in Accounts /\ op[s].acct # NoAccount
        BY <1>0, <1>3, <2>2, SlotTurns DEF LockInv, Turn, Alone, AllLeft
      <3>2. CASE Connect(t)
        <4>1. Holds(t) /\ \A p \in Posts : task[p].acct # op[t].acct => task'[p] = task[p]
          BY <3>2 DEF Connect, Holds
        <4>2. Holds(s) => op[s].acct # op[t].acct
          BY <2>2, <4>1 DEF LockInv, Mutex
        <4>3. \A p \in Posts : task'[p].acct = task[p].acct
          BY <1>0, <3>2 DEF Connect, TaskOK, TaskType
        <4> QED BY <3>1, <4>1, <4>2, <4>3 DEF Left, Holds
      <3>3. CASE ~Connect(t)
        <4>1. \/ task' = task
              \/ \E set : CancelTasks(set)
          BY <1>3, <3>3 DEF Acquire, AcquireStart, AcquireStop, Advance, PatchCheck,
              PatchApply, PatchTimeout, LookupCheck, LookupRow, StartRaises, Authorized,
              SessionRevoked, Disconnect, Disconnected, Drained
        <4>2. Fades
          BY <1>1, <4>1, CancelFades
        <4> QED BY <3>1, <4>2 DEF Fades, Left
      <3> QED BY <3>2, <3>3
    <2> QED BY <2>1, <2>2
  <1>4. ASSUME NEW p \in Posts, Handle(p) PROVE AllLeft'
    <2>1. op' = op
      BY <1>4, Zenon DEF Handle, FilterAllows, TakeContext, Ingest, HandlerEnds, ServePost, workVars
    <2>2. Fades
      BY <1>0, <1>4 DEF Handle, FilterAllows, TakeContext, Ingest, HandlerEnds, ServePost, workVars,
                        NoTask, Fades, TaskOK, TaskType
    <2> QED BY <1>2, <2>1, <2>2
  <1>5. ASSUME NEW p \in Posts, NEW a \in Accounts, Arrive(p, a) PROVE AllLeft'
    <2> SUFFICES ASSUME NEW s \in Slots, op[s].pc # "idle" PROVE Left(s)'
      BY <1>5 DEF AllLeft, Arrive
    <2>1. /\ op' = op /\ Delivering(a) /\ task'[p].acct = a /\ task'[p].own
          /\ \A r \in Posts \ {p} : task'[r] = task[r]
      BY <1>0, <1>5 DEF Arrive, TaskOK
    <2>2. Left(s) /\ Sound(op[s], clients[op[s].acct])
      BY DEF AllLeft, LockInv, AllSound
    <2>3. CASE op[s].acct # a
      BY <2>1, <2>2, <2>3 DEF Left
    <2>4. CASE op[s].acct = a /\ (clients[a] = NoClient => op[s].pc \in {"disconnect", "lock"})
      BY <2>1, <2>2, <2>4 DEF Left, Sound
    <2>5. CASE op[s].acct = a /\ clients[a] = NoClient /\ op[s].pc # "lock"
      <3>1. clients[a].conn # "live"
        BY <2>5 DEF NoClient
      <3>2. PICK t \in Slots : op[t].acct = a /\ op[t].live
        BY <2>1, <3>1 DEF Delivering
      <3>3. op[t].pc # "idle" /\ Sound(op[t], clients[a])
        BY <1>0, <3>2 DEF OpOK, Formed, Named, LockInv, AllSound
      <3>4. t = s
        BY <2>5, <3>2, <3>3 DEF Sound, LockInv, Mutex, Holds
      <3>5. op[s].pc \in {"authorize", "disconnect"}
        BY <3>2, <3>3, <3>4 DEF Sound
      <3> QED BY <2>1, <2>2, <2>5, <3>5 DEF Left
    <2> QED BY <2>3, <2>4, <2>5
  <1>6. ASSUME NEW r \in late, LateCheck(r) \/ LateApply(r) \/ LateDrop(r) PROVE AllLeft'
    BY <1>1, <1>2, <1>6, Zenon DEF LateCheck, LateApply, LateDrop, workVars
  <1>7. CASE Loop \/ Boot \/ Shutdown \/ Crash \/ \E a \in Accounts : ClientDies(a)
    <2>1. CASE RestoreAll \/ StopIneligible \/ CloseClients
      <3>1. \A s \in Slots : Queued(s)
        BY <2>1, SpawnQueues DEF RestoreAll, StopIneligible, CloseClients
      <3>2. Fades
        BY <1>1, <2>1 DEF RestoreAll, StopIneligible, CloseClients
      <3> QED BY <3>1, <3>2, QueuedLeft
    <2>2. CASE Exit \/ Crash
      <3>1. \A s \in Slots : op'[s] = IdleOp
        BY <2>2 DEF Exit, Crash, WorkerGone
      <3> QED BY <3>1 DEF AllLeft, IdleOp, Op
    <2>3. CASE \/ Restored \/ ReadEligibility \/ Reconciled \/ Boot \/ Shutdown
               \/ \E a \in Accounts : ClientDies(a)
      BY <1>1, <1>2, <2>3, Zenon DEF Restored, ReadEligibility, Reconciled, Boot, Shutdown,
          ClientDies
    <2> QED BY <1>7, <2>1, <2>2, <2>3 DEF Loop
  <1>8. CASE Routes
    BY <1>1, <1>8, RouteQueues, QueuedLeft
  <1>9. CASE UNCHANGED vars
    BY <1>1, <1>2, <1>9 DEF vars, workVars
  <1> QED BY <1>3, <1>4, <1>5, <1>6, <1>7, <1>8, <1>9 DEF Next

(* When a stop reports "disconnected", no client of the account delivers
   updates and none of its handlers is left, those of clients replaced earlier
   and uploads that cannot be cancelled included. *)
THEOREM StopIsQuiet == Spec => []QuietAfterStop
  <1>1. Init => AllLeft
    BY DEF Init, AllLeft, IdleOp, Op
  <1>2. TypeOK /\ TypeOK' /\ LockInv /\ AllLeft /\ [Next]_vars => AllLeft'
    BY LeftStep
  <1>3. TypeOK /\ LockInv /\ AllLeft => QuietAfterStop
    <2> SUFFICES ASSUME TypeOK, LockInv, AllLeft, NEW s \in Slots,
                        op[s].pc = "patch", op[s].st = "disconnected"
                 PROVE  ~Delivering(op[s].acct) /\ TasksOf(op[s].acct) = {}
      BY DEF QuietAfterStop
    <2>1. Left(s) /\ Sound(op[s], clients[op[s].acct])
      BY DEF AllLeft, LockInv, AllSound
    <2>2. TasksOf(op[s].acct) = {}
      BY <2>1 DEF Left, TasksOf
    <2>3. clients[op[s].acct].conn # "live" /\ ~op[s].live
      BY <2>1 DEF Sound, NoClient
    <2>4. ASSUME NEW t \in Slots, op[t].acct = op[s].acct, op[t].live PROVE FALSE
      <3>1. op[s].pc # "idle" /\ op[s].acct \in Accounts
        BY OpKnown
      <3>2. op[t].pc # "idle"
        BY <2>4, <3>1, TypeParts DEF OpOK, Formed, Named
      <3>3. Holds(t) /\ Holds(s)
        BY <2>4, <3>2 DEF LockInv, AllSound, Sound, Holds
      <3>4. t = s
        BY <2>4, <3>3 DEF LockInv, Mutex
      <3> QED BY <2>3, <2>4, <3>4
    <2> QED BY <2>2, <2>3, <2>4 DEF Delivering
  <1> QED BY <1>1, <1>2, <1>3, TypeCorrect, Locking, PTL DEF Spec
=============================================================================
