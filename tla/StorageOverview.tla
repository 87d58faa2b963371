-------------------------- MODULE StorageOverview --------------------------
(***************************************************************************)
(* GET /api/storage (storage.js): the cached totals of a user, and the     *)
(* computation that concurrent requests share, over the objects of         *)
(* ExportLibrary, which exports and deletions change meanwhile.  A total   *)
(* is modelled by the set of the objects it counts.                        *)
(***************************************************************************)
EXTENDS ExportLibrary, Sequences

CONSTANTS
    Asks,       \* slots for requests
    MaxCache    \* results kept: 1000

ASSUME MaxCacheAssumption == MaxCache \in Nat \ {0}

VARIABLES
    cache,      \* the Map of results, in order of insertion
    pending,    \* the Map of computations
    ask         \* the requests that wait for a computation

storageVars == <<cache, pending, ask>>
allVars == <<exportVars, storageVars>>

(* gone: history, the keys whose object was deleted when it began. *)
NoCalc == [pc |-> "none", files |-> {}, gone |-> {}]

IdleAsk == [pc |-> "idle", user |-> NoUser, files |-> {}, gone |-> {}]

StorageTypeOK ==
    /\ ExportTypeOK
    /\ cache \in Seq([user : Users, files : SUBSET Keys, expired : BOOLEAN])
    /\ Len(cache) <= MaxCache
    /\ \A i, j \in 1 .. Len(cache) : cache[i].user = cache[j].user => i = j
    /\ pending \in [Users -> [pc : {"none", "list", "listed", "done"},
                              files : SUBSET Keys, gone : SUBSET Keys]]
    /\ ask \in [Asks -> [pc : {"idle", "wait", "answer"}, user : Users \cup {NoUser},
                         files : SUBSET Keys, gone : SUBSET Keys]]

StorageInit ==
    /\ ExportInit
    /\ cache = << >>
    /\ pending = [u \in Users |-> NoCalc]
    /\ ask = [r \in Asks |-> IdleAsk]

-----------------------------------------------------------------------------
Deleted == used \ objects

Fresh(u) == \E i \in 1 .. Len(cache) : cache[i].user = u /\ ~cache[i].expired

(* A result is in the cache: it is the answer, and nothing changes.  Only a
   refresh, or a request that finds none, goes on. *)
Ask(r, u, refresh) ==
    /\ ask[r].pc = "idle"
    /\ refresh \/ ~Fresh(u)
    /\ pending' = IF pending[u] = NoCalc
                  THEN [pending EXCEPT ![u] = [pc |-> "list", files |-> {}, gone |-> Deleted]]
                  ELSE pending
    /\ ask' = [ask EXCEPT ![r] =
                 [pc |-> IF pending[u].pc = "done" THEN "answer" ELSE "wait", user |-> u,
                  files |-> pending[u].files,
                  gone |-> IF pending[u].pc \in {"none", "done"} THEN Deleted
                                                                ELSE pending[u].gone]]
    /\ UNCHANGED cache

(* The queries are over, S3 lists the user's objects. *)
List(u) ==
    /\ pending[u].pc = "list"
    /\ pending' = [pending EXCEPT ![u].pc = "listed",
                                  ![u].files = {k \in objects : KeyOwner[k] = u}]
    /\ UNCHANGED <<cache, ask>>

(* What `finally` leaves in the Map of computations.  (X_Y is a faulty variant
   of X, see the README.) *)
Settled_Kept(u) == [pending[u] EXCEPT !.pc = "done"]

Settled(u) == NoCalc

(* The places of the n results that have not expired, in their order. *)
Unexpired(n) ==
    {at \in [1 .. n -> 1 .. Len(cache)] :
        /\ \A i, j \in 1 .. n : i < j => at[i] < at[j]
        /\ \A k \in 1 .. Len(cache) : cache[k].expired <=> \A i \in 1 .. n : at[i] # k}

(* Expired results go, `kept` stays; when the Map is full, its first inserted
   goes too; the new one takes its user's place, or the last. *)
Full_OneMore(kept) == Len(kept) > MaxCache

Full(kept) == Len(kept) >= MaxCache

Cached(kept, u, files) ==
    LET room == IF Full(kept) THEN Tail(kept) ELSE kept
        new == [user |-> u, files |-> files, expired |-> FALSE] IN
    IF \E i \in 1 .. Len(room) : room[i].user = u
    THEN [i \in 1 .. Len(room) |-> IF room[i].user = u THEN new ELSE room[i]]
    ELSE Append(room, new)

(* The computation ends, and with it the waiting of its requests. *)
Complete(u) ==
    /\ pending[u].pc = "listed"
    /\ \E n \in 0 .. Len(cache) : \E at \in Unexpired(n) :
          cache' = Cached([i \in 1 .. n |-> cache[at[i]]], u, pending[u].files)
    /\ pending' = [pending EXCEPT ![u] = Settled(u)]
    /\ ask' = [r \in Asks |->
                 IF ask[r].pc = "wait" /\ ask[r].user = u
                 THEN [ask[r] EXCEPT !.pc = "answer", !.files = pending[u].files]
                 ELSE ask[r]]

(* A query or a listing fails: 503 to all of them. *)
FailCalc(u) ==
    /\ pending[u].pc \in {"list", "listed"}
    /\ pending' = [pending EXCEPT ![u] = NoCalc]
    /\ ask' = [r \in Asks |-> IF ask[r].pc = "wait" /\ ask[r].user = u THEN IdleAsk
                                                                      ELSE ask[r]]
    /\ UNCHANGED cache

Respond(r) ==
    /\ ask[r].pc = "answer"
    /\ ask' = [ask EXCEPT ![r] = IdleAsk]
    /\ UNCHANGED <<cache, pending>>

(* Sixty seconds are over. *)
Expire(i) ==
    /\ cache' = [cache EXCEPT ![i].expired = TRUE]
    /\ UNCHANGED <<pending, ask>>

Restart ==
    /\ Crash
    /\ cache' = << >> /\ pending' = [u \in Users |-> NoCalc] /\ ask' = [r \in Asks |-> IdleAsk]

-----------------------------------------------------------------------------
StorageStep ==
    \/ \E r \in Asks :
        \/ \E u \in Users, refresh \in BOOLEAN : Ask(r, u, refresh)
        \/ Respond(r)
    \/ \E u \in Users : List(u) \/ Complete(u) \/ FailCalc(u)
    \/ \E i \in 1 .. Len(cache) : Expire(i)

StorageNext ==
    \/ ExportStep /\ UNCHANGED storageVars
    \/ StorageStep /\ UNCHANGED exportVars
    \/ Restart

StorageSpec == StorageInit /\ [][StorageNext]_allVars

-----------------------------------------------------------------------------
(* An answer that is computed does not count an object deleted before the
   computation began; a request that starts one sees every deletion made
   before it (STORAGE_OVERVIEW.md: "Refresh bypasses completed cached results;
   concurrent calculations for one user share a request"). *)
RefreshSkipsDeleted ==
    \A r \in Asks : ask[r].pc = "answer" => ask[r].files \cap ask[r].gone = {}
=============================================================================
