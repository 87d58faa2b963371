----------------------- MODULE StorageOverview_proofs -----------------------
(* Saved exports and the totals computed over them, for any number of users,
   keys and requests. *)
EXTENDS StorageOverview, TLAPS

USE KeysAssumption

-----------------------------------------------------------------------------
(* The type invariant, a part for the tables and one for the requests. *)

Job == [pc : {"idle", "render", "upload", "uploaded", "locked", "saved", "catch"},
        user : Users \cup {NoUser}, gen : 0 .. MaxVer,
        key : Keys \cup {NoKey}, persisted : BOOLEAN]

Del == [pc : {"idle", "object", "row"}, key : Keys \cup {NoKey}]

TablesOK ==
    /\ ver \in [Users -> 0 .. MaxVer]
    /\ rows \subseteq used /\ objects \subseteq used /\ used \subseteq Keys
    /\ hollow \subseteq used /\ stray \subseteq used

JobsOK == job \in [Jobs -> Job]

DelsOK ==
    /\ del \in [Dels -> Del]
    /\ \A d \in Dels : del[d].pc # "idle" => del[d].key \in hollow
    /\ \A d \in Dels : del[d].pc = "row" => del[d].key \notin objects

(* A request has a user from its first step, and a key from the upload on; the
   key was used for it alone. *)
JobKeys ==
    \A j \in Jobs :
        /\ job[j].pc # "idle" => job[j].user \in Users
        /\ job[j].pc \in {"idle", "render", "upload"} => job[j].key = NoKey
        /\ job[j].pc \in {"uploaded", "locked", "saved"} => job[j].key # NoKey
        /\ job[j].key # NoKey => job[j].key \in used

OwnKeys ==
    \A i, j \in Jobs : job[i].key = job[j].key /\ job[i].key # NoKey => i = j

(* What the flag `persisted` means: without it a row of the key is of a commit
   in doubt, and up to the commit there is none but the object is there; with
   it the object has a row. *)
Persisted ==
    \A j \in Jobs :
        /\ job[j].pc \in {"uploaded", "locked"} =>
              ~job[j].persisted /\ job[j].key \in objects \cup hollow
        /\ job[j].pc \in {"idle", "render", "upload"} => ~job[j].persisted
        /\ job[j].pc = "saved" => job[j].persisted
        /\ ~job[j].persisted /\ job[j].key \in rows => job[j].key \in hollow
        /\ job[j].persisted => job[j].key \notin objects \/ job[j].key \in rows

(* Who holds the owner's row has found the generation of its session there. *)
LockedCurrent ==
    \A j \in Jobs : job[j].pc = "locked" => ver[job[j].user] = job[j].gen

IInv ==
    /\ TablesOK /\ JobsOK /\ DelsOK /\ JobKeys /\ OwnKeys /\ Persisted /\ LockedCurrent
    /\ SavedCanBeOpened /\ NoStrayObjects

-----------------------------------------------------------------------------
(* Steps of one request that leave the tables alone. *)

(* A job that goes on, or that an error takes to the catch clause. *)
LEMMA Moves ==
    ASSUME IInv, NEW j \in Jobs, NEW q \in Job,
           job' = [job EXCEPT ![j] = q],
           UNCHANGED <<objects, rows, used, hollow, stray, del, ver>>,
           q.key = job[j].key, q.persisted = job[j].persisted,
           q.pc # "idle" => q.user \in Users,
           q.pc \in {"idle", "render", "upload"} => q.key = NoKey,
           q.pc \in {"uploaded", "locked", "saved"} => q.key # NoKey,
           q.pc = "locked" => ver[q.user] = q.gen,
           q.pc \in {"uploaded", "locked"} => job[j].pc \in {"uploaded", "locked"},
           q.pc # "saved",
           q.pc \in {"idle", "render", "upload"} => ~q.persisted
    PROVE  IInv'
  <1>1. job'[j] = q /\ \A i \in Jobs : i # j => job'[i] = job[i]
    BY DEF IInv, JobsOK
  <1>2. TablesOK' /\ JobsOK' /\ DelsOK' /\ SavedCanBeOpened'
    BY DEF IInv, TablesOK, JobsOK, DelsOK, SavedCanBeOpened
  <1>3. \A i \in Jobs : job'[i].key = job[i].key /\ job'[i].persisted = job[i].persisted
    BY <1>1
  <1>4. JobKeys'
    BY <1>1 DEF IInv, JobKeys
  <1>5. OwnKeys'
    BY <1>3 DEF IInv, OwnKeys
  <1>6. Persisted'
    BY <1>1, <1>3 DEF IInv, Persisted
  <1>7. LockedCurrent'
    BY <1>1 DEF IInv, LockedCurrent
  <1>8. {job'[i].key : i \in Jobs} = {job[i].key : i \in Jobs}
    BY <1>3
  <1>9. NoStrayObjects'
    BY <1>8 DEF IInv, NoStrayObjects
  <1> QED BY <1>2, <1>4, <1>5, <1>6, <1>7, <1>9 DEF IInv

LEMMA Steps ==
    ASSUME IInv, NEW j \in Jobs,
           (\E u \in Users : Export(j, u)) \/ Rendered(j) \/ LockOwner(j) \/ Throw(j)
    PROVE  IInv'
  <1>1. job[j] \in Job /\ job \in [Jobs -> Job]
    BY DEF IInv, JobsOK
  <1>2. ASSUME NEW u \in Users, Export(j, u) PROVE IInv'
    <2> DEFINE q == [IdleJob EXCEPT !.pc = "render", !.user = u, !.gen = ver[u]]
    <2>1. q \in Job
      BY DEF IInv, TablesOK, IdleJob, Job
    <2>2. /\ q.pc = "render" /\ q.user = u /\ q.key = NoKey /\ q.persisted = FALSE
          /\ job' = [job EXCEPT ![j] = q]
      BY <1>2 DEF Export, IdleJob
    <2>3. job[j].key = NoKey /\ UNCHANGED <<objects, rows, used, hollow, stray, del, ver>>
      BY <1>2 DEF Export, IInv, JobKeys
    <2> HIDE DEF q
    <2>4. \A i \in Jobs : job'[i].key = job[i].key
      BY <1>1, <2>2, <2>3
    <2>5. job'[j] = q /\ \A i \in Jobs : i # j => job'[i] = job[i]
      BY <1>1, <2>2
    <2>6. TablesOK' /\ JobsOK' /\ DelsOK' /\ SavedCanBeOpened'
      BY <2>1, <2>2, <2>3 DEF IInv, TablesOK, JobsOK, DelsOK, SavedCanBeOpened
    <2>7. JobKeys' /\ OwnKeys'
      BY <2>2, <2>3, <2>4, <2>5 DEF IInv, JobKeys, OwnKeys
    <2>8. NoKey \notin rows
      BY DEF IInv, TablesOK
    <2>9. Persisted' /\ LockedCurrent'
      BY <2>2, <2>3, <2>5, <2>8 DEF IInv, Persisted, LockedCurrent
    <2>10. NoStrayObjects'
      BY <2>3, <2>4 DEF IInv, NoStrayObjects
    <2> QED BY <2>6, <2>7, <2>9, <2>10 DEF IInv
  <1>3. ASSUME Rendered(j) PROVE IInv'
    <2> DEFINE q == [job[j] EXCEPT !.pc = "upload"]
    <2>1. /\ q \in Job /\ q.pc = "upload" /\ q.user = job[j].user /\ q.key = job[j].key
          /\ q.persisted = job[j].persisted
      BY <1>1 DEF Job
    <2>2. job' = [job EXCEPT ![j] = q]
      BY <1>1, <1>3 DEF Rendered, To, Job
    <2>3. /\ UNCHANGED <<objects, rows, used, hollow, stray, del, ver>>
          /\ q.user \in Users /\ q.key = NoKey /\ ~q.persisted
      BY <1>3, <2>1 DEF Rendered, IInv, JobKeys, Persisted
    <2> HIDE DEF q
    <2> QED BY <2>1, <2>2, <2>3, Moves
  <1>4. ASSUME LockOwner(j) PROVE IInv'
    <2> DEFINE q == [job[j] EXCEPT !.pc = "locked"]
    <2>1. /\ q \in Job /\ q.pc = "locked" /\ q.user = job[j].user /\ q.key = job[j].key
          /\ q.persisted = job[j].persisted /\ q.gen = job[j].gen
      BY <1>1 DEF Job
    <2>2. job' = [job EXCEPT ![j] = q]
      BY <1>1, <1>4 DEF LockOwner, To, Job
    <2>3. /\ UNCHANGED <<objects, rows, used, hollow, stray, del, ver>>
          /\ q.user \in Users /\ q.key # NoKey /\ job[j].pc = "uploaded"
          /\ ver[q.user] = q.gen
      BY <1>4, <2>1 DEF LockOwner, Authorized, IInv, JobKeys
    <2> HIDE DEF q
    <2> QED BY <2>1, <2>2, <2>3, Moves
  <1>5. ASSUME Throw(j) PROVE IInv'
    <2> DEFINE q == [job[j] EXCEPT !.pc = "catch"]
    <2>1. /\ q \in Job /\ q.pc = "catch" /\ q.user = job[j].user /\ q.key = job[j].key
          /\ q.persisted = job[j].persisted
      BY <1>1 DEF Job
    <2>2. job' = [job EXCEPT ![j] = q]
      BY <1>1, <1>5 DEF Throw, To, Job
    <2>3. /\ UNCHANGED <<objects, rows, used, hollow, stray, del, ver>>
          /\ q.user \in Users
      BY <1>5, <2>1 DEF Throw, IInv, JobKeys
    <2> HIDE DEF q
    <2> QED BY <2>1, <2>2, <2>3, Moves
  <1> QED BY <1>2, <1>3, <1>4, <1>5

-----------------------------------------------------------------------------
(* Steps that write a table. *)

LEMMA UploadStep ==
    ASSUME IInv, NEW j \in Jobs, NEW k \in Keys, Upload(j, k)
    PROVE  IInv'
  <1> DEFINE q == [job[j] EXCEPT !.pc = "uploaded", !.key = k]
  <1>1. job[j] \in Job /\ job \in [Jobs -> Job] /\ job[j].key = NoKey /\ job[j].user \in Users
    BY DEF IInv, JobsOK, JobKeys, Upload
  <1>2. /\ q \in Job /\ q.pc = "uploaded" /\ q.key = k /\ q.user = job[j].user
        /\ q.persisted = job[j].persisted
    BY <1>1 DEF Job
  <1>3. job' = [job EXCEPT ![j] = q]
    BY <1>1 DEF Upload, Job
  <1> HIDE DEF q
  <1>4. job'[j] = q /\ \A i \in Jobs : i # j => job'[i] = job[i]
    BY <1>1, <1>3
  <1>5. /\ k \notin used /\ used' = used \cup {k} /\ objects' = objects \cup {k}
        /\ UNCHANGED <<ver, rows, hollow, stray, del>>
    BY DEF Upload
  <1>6. TablesOK' /\ JobsOK' /\ DelsOK' /\ SavedCanBeOpened'
    BY <1>2, <1>3, <1>5 DEF IInv, TablesOK, JobsOK, DelsOK, SavedCanBeOpened
  <1>7. JobKeys' /\ OwnKeys'
    BY <1>1, <1>2, <1>4, <1>5 DEF IInv, JobKeys, OwnKeys
  <1>8. ~job[j].persisted
    BY DEF Upload, IInv, Persisted
  <1>9. Persisted' /\ LockedCurrent'
    BY <1>1, <1>2, <1>4, <1>5, <1>8 DEF IInv, TablesOK, JobKeys, Persisted, LockedCurrent
  <1>10. NoStrayObjects'
    <2> SUFFICES ASSUME NEW x \in objects' \ rows', x \notin stray'
                 PROVE  \E i \in Jobs : x = job'[i].key
      BY DEF NoStrayObjects
    <2>1. CASE x = k
      BY <1>2, <1>4, <2>1
    <2>2. CASE x # k
      <3>1. PICK i \in Jobs : x = job[i].key
        BY <1>5, <2>2 DEF IInv, NoStrayObjects
      <3>2. x # NoKey
        BY <1>5, <2>2 DEF IInv, TablesOK
      <3> QED BY <1>1, <1>4, <3>1, <3>2
    <2> QED BY <2>1, <2>2
  <1> QED BY <1>6, <1>7, <1>9, <1>10 DEF IInv

LEMMA InDoubtStep ==
    ASSUME IInv, NEW j \in Jobs, NEW k \in Keys, UploadInDoubt(j, k)
    PROVE  IInv'
  <1> DEFINE q == [job[j] EXCEPT !.pc = "catch"]
  <1>1. job[j] \in Job /\ job \in [Jobs -> Job] /\ job[j].user \in Users
    BY DEF IInv, JobsOK, JobKeys, UploadInDoubt
  <1>2. /\ q \in Job /\ q.pc = "catch" /\ q.key = job[j].key /\ q.user = job[j].user
        /\ q.persisted = job[j].persisted
    BY <1>1 DEF Job
  <1>3. job' = [job EXCEPT ![j] = q]
    BY <1>1 DEF UploadInDoubt, To, Job
  <1> HIDE DEF q
  <1>4. job'[j] = q /\ \A i \in Jobs : i # j => job'[i] = job[i]
    BY <1>1, <1>3
  <1>5. /\ k \notin used /\ used' = used \cup {k} /\ objects' = objects \cup {k}
        /\ stray' = stray \cup {k} /\ UNCHANGED <<ver, rows, hollow, del>>
    BY DEF UploadInDoubt
  <1>6. TablesOK' /\ JobsOK' /\ DelsOK' /\ SavedCanBeOpened'
    BY <1>2, <1>3, <1>5 DEF IInv, TablesOK, JobsOK, DelsOK, SavedCanBeOpened
  <1>7. JobKeys' /\ OwnKeys'
    BY <1>1, <1>2, <1>4, <1>5 DEF IInv, JobKeys, OwnKeys
  <1>8. Persisted' /\ LockedCurrent'
    BY <1>2, <1>4, <1>5 DEF IInv, TablesOK, JobKeys, Persisted, LockedCurrent
  <1>9. {job'[i].key : i \in Jobs} = {job[i].key : i \in Jobs}
    BY <1>2, <1>4
  <1>10. NoStrayObjects'
    BY <1>5, <1>9 DEF IInv, NoStrayObjects
  <1> QED BY <1>6, <1>7, <1>8, <1>10 DEF IInv

(* The commit: from now on an error leaves the object alone. *)
LEMMA SaveStep ==
    ASSUME IInv, NEW j \in Jobs, Save(j) \/ SaveInDoubt(j)
    PROVE  IInv'
  <1>0. PICK k \in used : k = job[j].key
    BY DEF Save, SaveInDoubt, IInv, JobKeys
  <1>1. /\ job[j] \in Job /\ job \in [Jobs -> Job] /\ job[j].user \in Users
        /\ job[j].pc = "locked" /\ k # NoKey
    BY <1>0 DEF IInv, JobsOK, JobKeys, Save, SaveInDoubt
  <1>2. /\ job'[j] \in Job /\ job'[j].key = k /\ job'[j].user = job[j].user
        /\ job' = [job EXCEPT ![j] = job'[j]]
        /\ \/ job'[j].pc = "saved" /\ job'[j].persisted /\ hollow' = hollow
           \/ job'[j].pc = "catch" /\ hollow' = hollow \cup {k}
    BY <1>0, <1>1 DEF Save, SaveInDoubt, To, Job
  <1>3. \A i \in Jobs : i # j => job'[i] = job[i]
    BY <1>1, <1>2
  <1>4. rows' = rows \cup {k} /\ UNCHANGED <<ver, objects, used, stray, del>>
    BY <1>0 DEF Save, SaveInDoubt
  <1>5. k \in objects \cup hollow
    BY <1>0, <1>1 DEF IInv, Persisted
  <1>6. TablesOK' /\ JobsOK' /\ DelsOK' /\ SavedCanBeOpened'
    <2>1. hollow \subseteq hollow' /\ hollow' \subseteq used
      BY <1>2 DEF IInv, TablesOK
    <2> QED BY <1>2, <1>4, <1>5, <2>1 DEF IInv, TablesOK, JobsOK, DelsOK, SavedCanBeOpened
  <1>7. JobKeys' /\ OwnKeys'
    BY <1>0, <1>1, <1>2, <1>3, <1>4 DEF IInv, JobKeys, OwnKeys
  <1>8. Persisted'
    <2> SUFFICES ASSUME NEW i \in Jobs
                 PROVE  /\ job'[i].pc \in {"uploaded", "locked"} =>
                              ~job'[i].persisted /\ job'[i].key \in objects' \cup hollow'
                        /\ job'[i].pc \in {"idle", "render", "upload"} => ~job'[i].persisted
                        /\ job'[i].pc = "saved" => job'[i].persisted
                        /\ ~job'[i].persisted /\ job'[i].key \in rows' => job'[i].key \in hollow'
                        /\ job'[i].persisted => job'[i].key \notin objects' \/ job'[i].key \in rows'
      BY DEF Persisted
    <2>1. hollow \subseteq hollow'
      BY <1>2
    <2>2. CASE i = j
      BY <1>2, <1>4, <2>2
    <2>3. CASE i # j
      <3>1. job'[i] = job[i] /\ job[i].key # k
        BY <1>0, <1>1, <1>3, <2>3 DEF IInv, OwnKeys
      <3> QED BY <1>4, <2>1, <3>1 DEF IInv, Persisted
    <2> QED BY <2>2, <2>3
  <1>9. LockedCurrent'
    BY <1>2, <1>3, <1>4 DEF IInv, LockedCurrent
  <1>10. {job'[i].key : i \in Jobs} = {job[i].key : i \in Jobs}
    BY <1>0, <1>2, <1>3
  <1>11. NoStrayObjects'
    BY <1>4, <1>10 DEF IInv, NoStrayObjects
  <1> QED BY <1>6, <1>7, <1>8, <1>9, <1>11 DEF IInv

(* The end of a request: what the catch clause deletes has no row, or one whose
   commit was in doubt. *)
LEMMA FinishStep ==
    ASSUME IInv, NEW j \in Jobs, Finish(j)
    PROVE  IInv'
  <1>0. PICK k \in Keys \cup {NoKey} : k = job[j].key
    BY DEF IInv, JobsOK, Job
  <1>1. job \in [Jobs -> Job] /\ IdleJob \in Job
    BY DEF IInv, JobsOK, TablesOK, IdleJob, Job
  <1>2. job'[j] = IdleJob /\ \A i \in Jobs : i # j => job'[i] = job[i]
    BY <1>1 DEF Finish, Answer
  <1>3. IdleJob.pc = "idle" /\ IdleJob.key = NoKey /\ IdleJob.persisted = FALSE
    BY DEF IdleJob
  <1>4. UNCHANGED <<ver, rows, used, hollow, del>>
    BY DEF Finish
  <1>5. \/ objects' = objects /\ stray' = stray /\ (k = NoKey \/ job[j].persisted \/ job[j].pc = "saved")
        \/ /\ k # NoKey /\ ~job[j].persisted
           /\ objects' = objects \ {k} /\ stray' = stray
        \/ /\ k # NoKey /\ ~job[j].persisted
           /\ objects' = objects /\ stray' = stray \cup {k}
    BY <1>0 DEF Finish, Answer, Orphaned
  <1>6. k # NoKey => k \in used /\ (k \in hollow \/ job[j].persisted \/ k \notin rows)
    BY <1>0 DEF IInv, JobKeys, Persisted
  <1>7. TablesOK' /\ JobsOK' /\ DelsOK'
    BY <1>1, <1>2, <1>4, <1>5, <1>6 DEF IInv, TablesOK, JobsOK, DelsOK, Finish, Answer
  <1>8. SavedCanBeOpened'
    BY <1>4, <1>5, <1>6 DEF IInv, SavedCanBeOpened
  <1>9. JobKeys' /\ OwnKeys'
    BY <1>2, <1>3, <1>4 DEF IInv, JobKeys, OwnKeys
  <1>10. Persisted' /\ LockedCurrent'
    <2>1. \A i \in Jobs : i # j /\ job[i].key # NoKey => job[i].key # k
      BY <1>0 DEF IInv, OwnKeys
    <2>2. \A i \in Jobs : job[i].pc \in {"uploaded", "locked"} => job[i].key # NoKey
      BY DEF IInv, JobKeys
    <2>3. NoKey \notin rows
      BY DEF IInv, TablesOK
    <2>4. LockedCurrent'
      BY <1>2, <1>3, <1>4 DEF IInv, LockedCurrent
    <2>5. Persisted'
      BY <1>2, <1>3, <1>4, <1>5, <2>1, <2>2, <2>3 DEF IInv, Persisted
    <2> QED BY <2>4, <2>5
  <1>11. NoStrayObjects'
    <2> SUFFICES ASSUME NEW x \in objects' \ rows', x \notin stray'
                 PROVE  \E i \in Jobs : x = job'[i].key
      BY DEF NoStrayObjects
    <2>1. x \in objects \ rows /\ x \notin stray /\ x # NoKey
      BY <1>4, <1>5 DEF IInv, TablesOK
    <2>2. PICK i \in Jobs : x = job[i].key
      BY <2>1 DEF IInv, NoStrayObjects
    <2>3. job[i].persisted => job[i].key \notin objects \/ job[i].key \in rows
      BY DEF IInv, Persisted
    <2>4. i # j
      BY <1>0, <1>5, <2>1, <2>2, <2>3 DEF IInv, Persisted
    <2> QED BY <1>2, <2>2, <2>4
  <1> QED BY <1>7, <1>8, <1>9, <1>10, <1>11 DEF IInv

-----------------------------------------------------------------------------
(* The other steps. *)

(* A deletion gives up the row that its user asked to delete, after the
   object. *)
LEMMA DeleteStep ==
    ASSUME IInv, NEW d \in Dels,
           \/ \E k \in Keys : AskDelete(d, k)
           \/ DeleteObject(d) \/ DeleteRow(d) \/ DeleteFails(d)
    PROVE  IInv'
  <1>1. del \in [Dels -> Del] /\ IdleDel \in Del /\ IdleDel.pc = "idle"
    BY DEF IInv, DelsOK, IdleDel, Del
  <1>2. ASSUME NEW k \in Keys, AskDelete(d, k) PROVE IInv'
    <2> DEFINE q == [pc |-> "object", key |-> k]
    <2>1. q \in Del /\ q.pc = "object" /\ q.key = k
      BY DEF Del
    <2>2. /\ del' = [del EXCEPT ![d] = q] /\ hollow' = hollow \cup {k} /\ k \in rows
          /\ UNCHANGED <<ver, objects, rows, used, stray, job>>
      BY <1>2 DEF AskDelete
    <2> HIDE DEF q
    <2>3. DelsOK'
      BY <1>1, <2>1, <2>2 DEF IInv, DelsOK
    <2>4. TablesOK' /\ JobsOK' /\ JobKeys' /\ OwnKeys' /\ LockedCurrent'
      BY <2>2 DEF IInv, TablesOK, JobsOK, JobKeys, OwnKeys, LockedCurrent
    <2>5. Persisted' /\ SavedCanBeOpened' /\ NoStrayObjects'
      BY <2>2 DEF IInv, Persisted, SavedCanBeOpened, NoStrayObjects
    <2> QED BY <2>3, <2>4, <2>5 DEF IInv
  <1>3. ASSUME DeleteObject(d) PROVE IInv'
    <2> DEFINE k == del[d].key
               q == [del[d] EXCEPT !.pc = "row"]
    <2>1. q \in Del /\ q.pc = "row" /\ q.key = k
      BY <1>1 DEF Del
    <2>2. /\ del' = [del EXCEPT ![d] = q] /\ objects' = objects \ {k}
          /\ UNCHANGED <<ver, rows, used, hollow, stray, job>>
      BY <1>1, <1>3 DEF DeleteObject, Del
    <2>3. k \in hollow
      BY <1>3 DEF DeleteObject, IInv, DelsOK
    <2> HIDE DEF q, k
    <2>4. DelsOK'
      BY <1>1, <2>1, <2>2, <2>3 DEF IInv, DelsOK
    <2>5. TablesOK' /\ JobsOK' /\ JobKeys' /\ OwnKeys' /\ LockedCurrent'
      BY <2>2 DEF IInv, TablesOK, JobsOK, JobKeys, OwnKeys, LockedCurrent
    <2>6. Persisted' /\ SavedCanBeOpened' /\ NoStrayObjects'
      BY <2>2, <2>3 DEF IInv, Persisted, SavedCanBeOpened, NoStrayObjects
    <2> QED BY <2>4, <2>5, <2>6 DEF IInv
  <1>4. ASSUME DeleteRow(d) PROVE IInv'
    <2> DEFINE k == del[d].key
    <2>1. /\ del' = [del EXCEPT ![d] = IdleDel] /\ rows' = rows \ {k}
          /\ UNCHANGED <<ver, objects, used, hollow, stray, job>>
      BY <1>4 DEF DeleteRow
    <2>2. k \in hollow /\ k \notin objects
      BY <1>4 DEF DeleteRow, IInv, DelsOK
    <2> HIDE DEF k
    <2>3. DelsOK'
      BY <1>1, <2>1 DEF IInv, DelsOK
    <2>4. TablesOK' /\ JobsOK' /\ JobKeys' /\ OwnKeys' /\ LockedCurrent'
      BY <2>1 DEF IInv, TablesOK, JobsOK, JobKeys, OwnKeys, LockedCurrent
    <2>5. Persisted' /\ SavedCanBeOpened' /\ NoStrayObjects'
      BY <2>1, <2>2 DEF IInv, Persisted, SavedCanBeOpened, NoStrayObjects
    <2> QED BY <2>3, <2>4, <2>5 DEF IInv
  <1>5. ASSUME DeleteFails(d) PROVE IInv'
    <2>1. /\ del' = [del EXCEPT ![d] = IdleDel]
          /\ UNCHANGED <<ver, objects, rows, used, hollow, stray, job>>
      BY <1>5 DEF DeleteFails
    <2>2. DelsOK'
      BY <1>1, <2>1 DEF IInv, DelsOK
    <2>3. TablesOK' /\ JobsOK' /\ JobKeys' /\ OwnKeys' /\ LockedCurrent'
      BY <2>1 DEF IInv, TablesOK, JobsOK, JobKeys, OwnKeys, LockedCurrent
    <2>4. Persisted' /\ SavedCanBeOpened' /\ NoStrayObjects'
      BY <2>1 DEF IInv, Persisted, SavedCanBeOpened, NoStrayObjects
    <2> QED BY <2>2, <2>3, <2>4 DEF IInv
  <1> QED BY <1>2, <1>3, <1>4, <1>5

LEMMA RevokeStep ==
    ASSUME IInv, NEW u \in Users, Revoke(u)
    PROVE  IInv'
  <1>1. LockedCurrent'
    BY DEF Revoke, RowFree, IInv, TablesOK, LockedCurrent
  <1>2. TablesOK'
    <2>1. ver[u] \in 0 .. MaxVer /\ ver[u] < MaxVer
      BY DEF Revoke, IInv, TablesOK
    <2>2. ver' \in [Users -> 0 .. MaxVer]
      BY <2>1 DEF Revoke, IInv, TablesOK
    <2> QED BY <2>2 DEF Revoke, IInv, TablesOK
  <1>3. JobsOK' /\ DelsOK' /\ JobKeys' /\ OwnKeys'
    BY DEF Revoke, IInv, JobsOK, DelsOK, JobKeys, OwnKeys
  <1>4. Persisted' /\ SavedCanBeOpened' /\ NoStrayObjects'
    BY DEF Revoke, IInv, Persisted, SavedCanBeOpened, NoStrayObjects
  <1> QED BY <1>1, <1>2, <1>3, <1>4 DEF IInv

LEMMA CrashStep ==
    ASSUME IInv, Crash
    PROVE  IInv'
  <1>1. IdleJob \in Job /\ IdleJob.pc = "idle" /\ IdleJob.key = NoKey /\ IdleJob.persisted = FALSE
    BY DEF IInv, TablesOK, IdleJob, Job
  <1>2. IdleDel \in Del /\ IdleDel.pc = "idle"
    BY DEF IdleDel, Del
  <1>3. /\ job' = [j \in Jobs |-> IdleJob] /\ del' = [d \in Dels |-> IdleDel]
        /\ UNCHANGED <<ver, objects, rows, used, hollow>>
    BY DEF Crash
  <1>4. \A x : x \in stray' <=> x \in stray \/ \E j \in Jobs : Orphaned(j) /\ x = job[j].key
    BY DEF Crash
  <1>5. stray' \subseteq used
    BY <1>4 DEF Orphaned, IInv, TablesOK, JobKeys
  <1>6. TablesOK'
    BY <1>3, <1>5 DEF IInv, TablesOK
  <1>7. JobsOK' /\ DelsOK' /\ JobKeys' /\ OwnKeys' /\ LockedCurrent'
    BY <1>1, <1>2, <1>3 DEF JobsOK, DelsOK, JobKeys, OwnKeys, LockedCurrent
  <1>8. NoKey \notin rows
    BY DEF IInv, TablesOK
  <1>9. Persisted' /\ SavedCanBeOpened'
    BY <1>1, <1>3, <1>8 DEF IInv, Persisted, SavedCanBeOpened
  <1>10. NoStrayObjects'
    <2> SUFFICES ASSUME NEW x \in objects \ rows, x \notin stray'
                 PROVE  FALSE
      BY <1>3 DEF NoStrayObjects
    <2>1. x \notin stray /\ x # NoKey
      BY <1>4 DEF IInv, TablesOK
    <2>2. PICK j \in Jobs : x = job[j].key
      BY <2>1 DEF IInv, NoStrayObjects
    <2> QED BY <1>4, <2>1, <2>2 DEF Orphaned, IInv, Persisted
  <1> QED BY <1>6, <1>7, <1>9, <1>10 DEF IInv

LEMMA Start == ExportInit => IInv
  <1> SUFFICES ASSUME ExportInit PROVE IInv
    OBVIOUS
  <1> USE DEF ExportInit
  <1>1. TablesOK
    BY DEF TablesOK
  <1>2. JobsOK
    BY DEF JobsOK, IdleJob, Job
  <1>3. DelsOK
    BY DEF DelsOK, IdleDel, Del
  <1>4. JobKeys /\ OwnKeys /\ Persisted /\ LockedCurrent
    BY DEF JobKeys, OwnKeys, Persisted, LockedCurrent, IdleJob
  <1>5. SavedCanBeOpened /\ NoStrayObjects
    BY DEF SavedCanBeOpened, NoStrayObjects
  <1> QED BY <1>1, <1>2, <1>3, <1>4, <1>5 DEF IInv

LEMMA Inductive == IInv /\ [ExportNext]_exportVars => IInv'
  <1> SUFFICES ASSUME IInv, [ExportNext]_exportVars PROVE IInv'
    OBVIOUS
  <1>1. CASE UNCHANGED exportVars
    BY <1>1 DEF exportVars, IInv, TablesOK, JobsOK, DelsOK, JobKeys, OwnKeys, Persisted,
                LockedCurrent, SavedCanBeOpened, NoStrayObjects
  <1>2. CASE ExportNext
    BY <1>2, Steps, UploadStep, InDoubtStep, SaveStep, FinishStep, DeleteStep, RevokeStep,
       CrashStep DEF ExportNext, ExportStep
  <1> QED BY <1>1, <1>2

(* Tables and requests are always well formed. *)
THEOREM TypeCorrect == ExportSpec => []ExportTypeOK
  <1>1. ExportSpec => []IInv
    BY Start, Inductive, PTL DEF ExportSpec
  <1>2. IInv => ExportTypeOK
    BY DEF IInv, TablesOK, JobsOK, DelsOK, JobKeys, Job, Del, ExportTypeOK
  <1> QED BY <1>1, <1>2, PTL

(* However exports, deletions, revocations and failures overlap, the row of an
   export has its object, unless its deletion was asked for or its commit was
   in doubt: the catch clause deletes only what no commit has recorded. *)
THEOREM Openable == ExportSpec => []SavedCanBeOpened
  <1>1. ExportSpec => []IInv
    BY Start, Inductive, PTL DEF ExportSpec
  <1> QED BY <1>1, PTL DEF IInv

(* An object that no row refers to belongs to a request in progress, unless S3
   or Node failed. *)
THEOREM NothingStray == ExportSpec => []NoStrayObjects
  <1>1. ExportSpec => []IInv
    BY Start, Inductive, PTL DEF ExportSpec
  <1> QED BY <1>1, PTL DEF IInv

(* An export is recorded only under the generation of the session that asked
   for it: the transaction looks again, with the owner's row locked. *)
THEOREM RevokedNotSaved == ExportSpec => RevokedSavesNothing
  <1>1. ExportSpec => []IInv
    BY Start, Inductive, PTL DEF ExportSpec
  <1>2. IInv => \A j \in Jobs : Save(j) \/ SaveInDoubt(j) => ver[job[j].user] = job[j].gen
    BY DEF IInv, LockedCurrent, Save, SaveInDoubt
  <1> QED BY <1>1, <1>2, PTL DEF ExportSpec, RevokedSavesNothing

-----------------------------------------------------------------------------
(* The totals *)

(* With the totals the library is what it is without them. *)
THEOREM Composition == StorageSpec => ExportSpec
  <1>1. StorageInit => ExportInit
    BY DEF StorageInit
  <1>2. [StorageNext]_allVars => [ExportNext]_exportVars
    BY DEF StorageNext, allVars, Restart, ExportNext
  <1> QED BY <1>1, <1>2, PTL DEF StorageSpec, ExportSpec

(* A key is used once: what is deleted stays deleted. *)
LEMMA DeletedStays ==
    ASSUME TablesOK, [StorageNext]_allVars
    PROVE  Deleted \subseteq Deleted'
  <1>1. ASSUME UNCHANGED exportVars PROVE Deleted \subseteq Deleted'
    BY <1>1 DEF exportVars, Deleted
  <1>2. ASSUME NEW j \in Jobs, NEW k \in Keys, Upload(j, k) \/ UploadInDoubt(j, k)
        PROVE  Deleted \subseteq Deleted'
    BY <1>2 DEF Upload, UploadInDoubt, Deleted
  <1>3. ASSUME UNCHANGED used, objects' \subseteq objects PROVE Deleted \subseteq Deleted'
    BY <1>3 DEF Deleted
  <1>4. CASE ExportStep
    <2>1. ASSUME NEW j \in Jobs,
                 \/ \E u \in Users : Export(j, u)
                 \/ Rendered(j) \/ LockOwner(j) \/ Save(j) \/ SaveInDoubt(j) \/ Throw(j)
          PROVE  Deleted \subseteq Deleted'
      BY <1>3, <2>1 DEF Export, Rendered, LockOwner, Save, SaveInDoubt, Throw
    <2>2. ASSUME NEW j \in Jobs, Finish(j) PROVE Deleted \subseteq Deleted'
      BY <1>3, <2>2 DEF Finish
    <2>3. ASSUME NEW d \in Dels,
                 \/ \E k \in Keys : AskDelete(d, k)
                 \/ DeleteObject(d) \/ DeleteRow(d) \/ DeleteFails(d)
          PROVE  Deleted \subseteq Deleted'
      BY <1>3, <2>3 DEF AskDelete, DeleteObject, DeleteRow, DeleteFails
    <2>4. ASSUME NEW u \in Users, Revoke(u) PROVE Deleted \subseteq Deleted'
      BY <1>3, <2>4 DEF Revoke
    <2> QED BY <1>2, <1>4, <2>1, <2>2, <2>3, <2>4 DEF ExportStep
  <1>5. CASE Restart
    BY <1>3, <1>5 DEF Restart, Crash
  <1> QED BY <1>1, <1>4, <1>5 DEF StorageNext, allVars

(* A computation knows what was deleted when it began, and those who wait for
   it know as much; what it has listed is disjoint from that. *)
CalcOK ==
    /\ pending \in [Users -> [pc : {"none", "list", "listed", "done"},
                             files : SUBSET Keys, gone : SUBSET Keys]]
    /\ ask \in [Asks -> [pc : {"idle", "wait", "answer"}, user : Users \cup {NoUser},
                         files : SUBSET Keys, gone : SUBSET Keys]]
    /\ \A u \in Users :
        /\ pending[u].pc # "done"
        /\ pending[u].pc = "none" => pending[u] = NoCalc
        /\ pending[u].gone \subseteq Deleted
        /\ pending[u].files \cap pending[u].gone = {}
    /\ \A r \in Asks : ask[r].pc = "wait" =>
        /\ ask[r].user \in Users
        /\ pending[ask[r].user].pc \in {"list", "listed"}
        /\ ask[r].gone = pending[ask[r].user].gone

CInv == TablesOK /\ CalcOK /\ RefreshSkipsDeleted

LEMMA CalcStart == StorageInit => CInv
  BY Start DEF StorageInit, IInv, CInv, CalcOK, NoCalc, IdleAsk, RefreshSkipsDeleted

(* While the objects change, computations and requests keep what they have. *)
LEMMA CalcKept ==
    ASSUME CInv, Deleted \subseteq Deleted', UNCHANGED storageVars
    PROVE  CalcOK' /\ RefreshSkipsDeleted'
  BY DEF CInv, CalcOK, RefreshSkipsDeleted, storageVars

LEMMA AskStep ==
    ASSUME CInv, UNCHANGED exportVars, NEW r \in Asks, NEW u \in Users,
           NEW refresh \in BOOLEAN, Ask(r, u, refresh)
    PROVE  CalcOK' /\ RefreshSkipsDeleted'
  <1>1. Deleted' = Deleted /\ Deleted \subseteq Keys
    BY DEF exportVars, Deleted, CInv, TablesOK
  <1>2. pending[u].pc \in {"none", "list", "listed"} /\ (pending[u].pc = "none" <=> pending[u] = NoCalc)
    BY DEF CInv, CalcOK, NoCalc
  <1>3. /\ pending'[u].gone = ask'[r].gone
        /\ pending'[u].pc \in {"list", "listed"}
        /\ pending'[u].gone \subseteq Deleted
        /\ pending'[u].files \cap pending'[u].gone = {}
        /\ \A v \in Users : v # u => pending'[v] = pending[v]
        /\ pending[u] # NoCalc => pending' = pending
        /\ pending' \in [Users -> [pc : {"none", "list", "listed", "done"},
                                   files : SUBSET Keys, gone : SUBSET Keys]]
    <2>1. CASE pending[u] = NoCalc
      BY <1>1, <1>2, <2>1 DEF Ask, CInv, CalcOK, NoCalc
    <2>2. CASE pending[u] # NoCalc
      BY <1>1, <1>2, <2>2 DEF Ask, CInv, CalcOK
    <2> QED BY <2>1, <2>2
  <1>4. /\ ask'[r].pc = "wait" /\ ask'[r].user = u
        /\ \A s \in Asks : s # r => ask'[s] = ask[s]
        /\ ask' \in [Asks -> [pc : {"idle", "wait", "answer"}, user : Users \cup {NoUser},
                              files : SUBSET Keys, gone : SUBSET Keys]]
    BY <1>1, <1>2 DEF Ask, CInv, CalcOK
  <1>5. ASSUME NEW s \in Asks, ask'[s].pc = "wait"
        PROVE  /\ ask'[s].user \in Users
               /\ pending'[ask'[s].user].pc \in {"list", "listed"}
               /\ ask'[s].gone = pending'[ask'[s].user].gone
    <2>1. CASE s = r
      BY <1>3, <1>4, <2>1
    <2>2. CASE s # r
      <3>1. ask'[s] = ask[s] /\ ask[s].user \in Users
            /\ pending[ask[s].user].pc \in {"list", "listed"}
            /\ ask[s].gone = pending[ask[s].user].gone
        BY <1>4, <1>5, <2>2 DEF CInv, CalcOK
      <3>2. pending'[ask[s].user] = pending[ask[s].user]
        BY <1>2, <1>3, <3>1
      <3> QED BY <3>1, <3>2
    <2> QED BY <2>1, <2>2
  <1>6. \A v \in Users :
          /\ pending'[v].pc # "done"
          /\ pending'[v].pc = "none" => pending'[v] = NoCalc
          /\ pending'[v].gone \subseteq Deleted
          /\ pending'[v].files \cap pending'[v].gone = {}
    BY <1>3 DEF CInv, CalcOK
  <1>7. CalcOK'
    BY <1>1, <1>3, <1>4, <1>5, <1>6 DEF CalcOK
  <1>8. RefreshSkipsDeleted'
    BY <1>4 DEF CInv, RefreshSkipsDeleted
  <1> QED BY <1>7, <1>8

LEMMA ListStep ==
    ASSUME CInv, UNCHANGED exportVars, NEW u \in Users, List(u)
    PROVE  CalcOK' /\ RefreshSkipsDeleted'
  <1>1. Deleted' = Deleted
    BY DEF exportVars, Deleted
  <1> DEFINE F == {k \in objects : KeyOwner[k] = u}
             q == [pending[u] EXCEPT !.pc = "listed", !.files = F]
  <1>2. F \subseteq Keys /\ F \subseteq objects
    BY DEF CInv, TablesOK
  <1>a. pending' = [pending EXCEPT ![u].pc = "listed", ![u].files = F]
    BY DEF List
  <1> HIDE DEF F
  <1>b. /\ q.pc = "listed" /\ q.gone = pending[u].gone /\ q.files = F
        /\ q \in [pc : {"none", "list", "listed", "done"}, files : SUBSET Keys, gone : SUBSET Keys]
    <2> DEFINE P == SUBSET Keys
    <2>1. pending[u] \in [pc : {"none", "list", "listed", "done"}, files : P, gone : P]
      BY DEF CInv, CalcOK
    <2>2. F \in P
      BY <1>2
    <2> HIDE DEF P
    <2>3. /\ q.pc = "listed" /\ q.gone = pending[u].gone /\ q.files = F
          /\ q \in [pc : {"none", "list", "listed", "done"}, files : P, gone : P]
      BY <2>1, <2>2
    <2> QED BY <2>3 DEF P
  <1>c. pending' = [pending EXCEPT ![u] = q]
    <2>1. /\ pending \in [Users -> [pc : {"none", "list", "listed", "done"},
                                   files : SUBSET Keys, gone : SUBSET Keys]]
      BY DEF CInv, CalcOK
    <2> QED BY <1>a, <2>1
  <1> HIDE DEF q
  <1>3. /\ pending'[u].pc = "listed" /\ pending'[u].gone = pending[u].gone
        /\ pending'[u].files = F
        /\ \A v \in Users : v # u => pending'[v] = pending[v]
        /\ pending' \in [Users -> [pc : {"none", "list", "listed", "done"},
                                   files : SUBSET Keys, gone : SUBSET Keys]]
    BY <1>b, <1>c DEF CInv, CalcOK
  <1>4. pending'[u].files \cap pending'[u].gone = {}
    BY <1>2, <1>3 DEF CInv, CalcOK, Deleted
  <1>5. ask' = ask /\ pending[u].pc = "list"
    BY DEF List
  <1>6. CalcOK'
    BY <1>1, <1>3, <1>4, <1>5 DEF CInv, CalcOK
  <1>7. RefreshSkipsDeleted'
    BY <1>5 DEF CInv, RefreshSkipsDeleted
  <1> QED BY <1>6, <1>7

(* The end of a computation: its requests take what it has listed. *)
LEMMA EndStep ==
    ASSUME CInv, UNCHANGED exportVars, NEW u \in Users, Complete(u) \/ FailCalc(u)
    PROVE  CalcOK' /\ RefreshSkipsDeleted'
  <1>1. Deleted' = Deleted
    BY DEF exportVars, Deleted
  <1>2. /\ pending'[u] = NoCalc
        /\ \A v \in Users : v # u => pending'[v] = pending[v]
        /\ pending' \in [Users -> [pc : {"none", "list", "listed", "done"},
                                   files : SUBSET Keys, gone : SUBSET Keys]]
    <2>1. pending' = [pending EXCEPT ![u] = NoCalc]
      BY DEF Complete, FailCalc, Settled
    <2>2. NoCalc \in [pc : {"none", "list", "listed", "done"}, files : SUBSET Keys, gone : SUBSET Keys]
      BY DEF NoCalc
    <2> QED BY <2>1, <2>2 DEF CInv, CalcOK
  <1>3. ASSUME NEW r \in Asks
        PROVE  \/ ask'[r] = ask[r] /\ ~(ask[r].pc = "wait" /\ ask[r].user = u)
               \/ ask'[r] = IdleAsk
               \/ /\ ask[r].pc = "wait" /\ ask[r].user = u
                  /\ ask'[r] = [ask[r] EXCEPT !.pc = "answer", !.files = pending[u].files]
    BY DEF Complete, FailCalc
  <1>4. ask' \in [Asks -> [pc : {"idle", "wait", "answer"}, user : Users \cup {NoUser},
                          files : SUBSET Keys, gone : SUBSET Keys]]
    <2> DEFINE A == [pc : {"idle", "wait", "answer"}, user : Users \cup {NoUser},
                     files : SUBSET Keys, gone : SUBSET Keys]
    <2>1. IdleAsk \in A
      BY DEF IdleAsk
    <2>2. pending[u].files \subseteq Keys
      BY DEF CInv, CalcOK
    <2>3. \A r \in Asks : ask[r] \in A
      BY DEF CInv, CalcOK
    <2>4. \A r \in Asks : [ask[r] EXCEPT !.pc = "answer", !.files = pending[u].files] \in A
      BY <2>2, <2>3
    <2> HIDE DEF A
    <2>5. \A r \in Asks : ask'[r] \in A
      BY <1>3, <2>1, <2>3, <2>4
    <2>6. ask' = [r \in Asks |-> ask'[r]]
      BY DEF Complete, FailCalc
    <2>7. ask' \in [Asks -> A]
      BY <2>5, <2>6
    <2> QED BY <2>7 DEF A
  <1>5. NoCalc.gone = {} /\ NoCalc.files = {} /\ NoCalc.pc = "none" /\ IdleAsk.pc = "idle"
    BY DEF NoCalc, IdleAsk
  <1>6. CalcOK'
    <2>1. \A v \in Users :
            /\ pending'[v].pc # "done"
            /\ pending'[v].pc = "none" => pending'[v] = NoCalc
            /\ pending'[v].gone \subseteq Deleted
            /\ pending'[v].files \cap pending'[v].gone = {}
      BY <1>2, <1>5 DEF CInv, CalcOK
    <2>2. ASSUME NEW r \in Asks, ask'[r].pc = "wait"
          PROVE  /\ ask'[r].user \in Users
                 /\ pending'[ask'[r].user].pc \in {"list", "listed"}
                 /\ ask'[r].gone = pending'[ask'[r].user].gone
      <3>1. ask'[r] = ask[r] /\ ask[r].user # u
        BY <1>3, <1>5, <2>2 DEF CInv, CalcOK
      <3> QED BY <1>2, <2>2, <3>1 DEF CInv, CalcOK
    <2> QED BY <1>1, <1>2, <1>4, <2>1, <2>2 DEF CalcOK
  <1>7. RefreshSkipsDeleted'
    <2> SUFFICES ASSUME NEW r \in Asks, ask'[r].pc = "answer"
                 PROVE  ask'[r].files \cap ask'[r].gone = {}
      BY DEF RefreshSkipsDeleted
    <2>1. CASE ask'[r] = ask[r]
      BY <2>1 DEF CInv, RefreshSkipsDeleted
    <2>2. CASE /\ ask[r].pc = "wait" /\ ask[r].user = u
               /\ ask'[r] = [ask[r] EXCEPT !.pc = "answer", !.files = pending[u].files]
      <3>1. ask'[r].files = pending[u].files /\ ask'[r].gone = ask[r].gone
        BY <2>2 DEF CInv, CalcOK
      <3> QED BY <2>2, <3>1 DEF CInv, CalcOK
    <2> QED BY <1>3, <1>5, <2>1, <2>2
  <1> QED BY <1>6, <1>7

LEMMA RespondStep ==
    ASSUME CInv, UNCHANGED exportVars, NEW r \in Asks, Respond(r)
    PROVE  CalcOK' /\ RefreshSkipsDeleted'
  <1>1. Deleted' = Deleted
    BY DEF exportVars, Deleted
  <1> QED BY <1>1 DEF Respond, IdleAsk, CInv, CalcOK, RefreshSkipsDeleted

LEMMA CalcStep == CInv /\ [StorageNext]_allVars => CalcOK' /\ RefreshSkipsDeleted'
  <1> SUFFICES ASSUME CInv, [StorageNext]_allVars PROVE CalcOK' /\ RefreshSkipsDeleted'
    OBVIOUS
  <1>1. Deleted \subseteq Deleted'
    BY DeletedStays DEF CInv
  <1>2. CASE UNCHANGED storageVars
    BY <1>1, <1>2, CalcKept
  <1>3. CASE StorageStep /\ UNCHANGED exportVars
    <2>1. ASSUME NEW i \in 1 .. Len(cache), Expire(i) PROVE CalcOK' /\ RefreshSkipsDeleted'
      BY <1>1, <2>1 DEF Expire, CInv, CalcOK, RefreshSkipsDeleted
    <2> QED BY <1>3, <2>1, AskStep, ListStep, EndStep, RespondStep DEF StorageStep
  <1>4. CASE Restart
    BY <1>4 DEF Restart, CalcOK, NoCalc, IdleAsk, RefreshSkipsDeleted
  <1> QED BY <1>2, <1>3, <1>4 DEF StorageNext, allVars

LEMMA CalcInductive == StorageSpec => []CInv
  <1>1. StorageSpec => []TablesOK
    <2>1. ExportSpec => []IInv
      BY Start, Inductive, PTL DEF ExportSpec
    <2> QED BY <2>1, Composition, PTL DEF IInv
  <1>2. StorageInit => CInv
    BY CalcStart
  <1>3. CalcOK /\ RefreshSkipsDeleted /\ TablesOK /\ [StorageNext]_allVars
           => CalcOK' /\ RefreshSkipsDeleted'
    BY CalcStep DEF CInv
  <1>4. CInv <=> CalcOK /\ RefreshSkipsDeleted /\ TablesOK
    BY DEF CInv
  <1> QED BY <1>1, <1>2, <1>3, <1>4, PTL DEF StorageSpec

(* For any number of users, keys, exports, deletions and requests: a total that
   is computed counts no object deleted before its computation began; who
   starts one sees every deletion made before. *)
THEOREM Refreshed == StorageSpec => []RefreshSkipsDeleted
  <1>1. CInv => RefreshSkipsDeleted
    BY DEF CInv
  <1> QED BY <1>1, CalcInductive, PTL

-----------------------------------------------------------------------------
(* The Map of results *)

Entry == [user : Users, files : SUBSET Keys, expired : BOOLEAN]

OnePerUser(c) == \A i, j \in 1 .. Len(c) : c[i].user = c[j].user => i = j

CacheOK == cache \in Seq(Entry) /\ Len(cache) <= MaxCache /\ OnePerUser(cache)

(* What has not expired is a part of the Map, in its order. *)
LEMMA KeptIsSmaller ==
    ASSUME CacheOK, NEW n \in 0 .. Len(cache), NEW at \in Unexpired(n),
           NEW kept, kept = [i \in 1 .. n |-> cache[at[i]]]
    PROVE  kept \in Seq(Entry) /\ Len(kept) <= MaxCache /\ OnePerUser(kept)
  <1>1. /\ n \in Nat /\ Len(cache) \in Nat /\ at \in [1 .. n -> 1 .. Len(cache)]
        /\ \A i, j \in 1 .. n : i < j => at[i] < at[j]
    BY DEF CacheOK, Unexpired
  <1>2. \A i \in 1 .. n : cache[at[i]] \in Entry
    BY <1>1 DEF CacheOK
  <1>3. kept \in Seq(Entry) /\ Len(kept) = n
    BY <1>1, <1>2
  <1>4. ASSUME NEW i \in 1 .. n, NEW j \in 1 .. n, cache[at[i]].user = cache[at[j]].user
        PROVE  i = j
    <2>1. at[i] = at[j]
      BY <1>1, <1>4 DEF CacheOK, OnePerUser
    <2> QED BY <1>1, <2>1
  <1>5. OnePerUser(kept)
    BY <1>3, <1>4 DEF OnePerUser
  <1> QED BY <1>1, <1>3, <1>5, MaxCacheAssumption DEF CacheOK

Room(kept) == IF Full(kept) THEN Tail(kept) ELSE kept

(* With the first inserted gone from a full Map there is room for one more. *)
LEMMA RoomLeft ==
    ASSUME NEW kept \in Seq(Entry), Len(kept) <= MaxCache, OnePerUser(kept),
           NEW room, room = Room(kept)
    PROVE  room \in Seq(Entry) /\ Len(room) < MaxCache /\ OnePerUser(room)
  <1>1. Len(kept) \in Nat /\ MaxCache \in Nat \ {0}
    BY MaxCacheAssumption
  <1>2. CASE Full(kept)
    <2>1. kept # << >> /\ room = Tail(kept)
      BY <1>1, <1>2 DEF Room, Full
    <2>2. room \in Seq(Entry) /\ Len(room) = Len(kept) - 1
      BY <2>1
    <2>3. \A i \in 1 .. Len(room) : room[i] = kept[i + 1]
      BY <2>1, <2>2
    <2>4. OnePerUser(room)
      BY <1>1, <2>2, <2>3 DEF OnePerUser
    <2> QED BY <1>1, <2>2, <2>4
  <1>3. CASE ~Full(kept)
    BY <1>1, <1>3 DEF Room, Full
  <1> QED BY <1>2, <1>3

(* The new result takes the place of its user's, or the last. *)
LEMMA ResultStored ==
    ASSUME NEW kept \in Seq(Entry), Len(kept) <= MaxCache, OnePerUser(kept),
           NEW u \in Users, NEW files \in SUBSET Keys, NEW c, c = Cached(kept, u, files)
    PROVE  c \in Seq(Entry) /\ Len(c) <= MaxCache /\ OnePerUser(c)
  <1> DEFINE new == [user |-> u, files |-> files, expired |-> FALSE]
  <1>1. PICK room : room = Room(kept)
    OBVIOUS
  <1>2. /\ room \in Seq(Entry) /\ Len(room) < MaxCache /\ OnePerUser(room)
        /\ Len(room) \in Nat /\ MaxCache \in Nat
    BY <1>1, RoomLeft, MaxCacheAssumption
  <1>3. new \in Entry /\ new.user = u
    BY DEF Entry
  <1>4. c = IF \E i \in 1 .. Len(room) : room[i].user = u
            THEN [i \in 1 .. Len(room) |-> IF room[i].user = u THEN new ELSE room[i]]
            ELSE Append(room, new)
    BY <1>1 DEF Cached, Room
  <1> HIDE DEF new
  <1>5. CASE \E i \in 1 .. Len(room) : room[i].user = u
    <2>1. c = [i \in 1 .. Len(room) |-> IF room[i].user = u THEN new ELSE room[i]]
      BY <1>4, <1>5
    <2>2. \A i \in 1 .. Len(room) : room[i] \in Entry
      BY <1>2
    <2>3. c \in Seq(Entry) /\ Len(c) = Len(room)
      BY <1>2, <1>3, <2>1, <2>2
    <2>4. \A i \in 1 .. Len(room) : c[i].user = room[i].user
      BY <1>3, <2>1
    <2>5. OnePerUser(c)
      BY <1>2, <2>3, <2>4 DEF OnePerUser
    <2> QED BY <1>2, <2>3, <2>5
  <1>6. CASE ~ \E i \in 1 .. Len(room) : room[i].user = u
    <2>1. c = Append(room, new)
      BY <1>4, <1>6
    <2>2. c \in Seq(Entry) /\ Len(c) = Len(room) + 1
      BY <1>2, <1>3, <2>1
    <2>3. c[Len(room) + 1] = new /\ \A i \in 1 .. Len(room) : c[i] = room[i]
      BY <1>2, <1>3, <2>1
    <2>4. OnePerUser(c)
      BY <1>2, <1>3, <1>6, <2>2, <2>3 DEF OnePerUser
    <2> QED BY <1>2, <2>2, <2>4
  <1> QED BY <1>5, <1>6

LEMMA CacheStep == CacheOK /\ CInv /\ [StorageNext]_allVars => CacheOK'
  <1> SUFFICES ASSUME CacheOK, CInv, [StorageNext]_allVars PROVE CacheOK'
    OBVIOUS
  <1>1. ASSUME NEW u \in Users, Complete(u) PROVE CacheOK'
    <2>1. PICK n \in 0 .. Len(cache) : \E at \in Unexpired(n) :
              cache' = Cached([i \in 1 .. n |-> cache[at[i]]], u, pending[u].files)
      BY <1>1 DEF Complete
    <2>2. PICK at \in Unexpired(n) :
              cache' = Cached([i \in 1 .. n |-> cache[at[i]]], u, pending[u].files)
      BY <2>1
    <2>3. PICK kept : kept = [i \in 1 .. n |-> cache[at[i]]]
      OBVIOUS
    <2>4. PICK files \in SUBSET Keys : files = pending[u].files
      BY DEF CInv, CalcOK
    <2>5. kept \in Seq(Entry) /\ Len(kept) <= MaxCache /\ OnePerUser(kept)
      BY <2>3, KeptIsSmaller
    <2>6. PICK c : c = cache'
      OBVIOUS
    <2>7. c = Cached(kept, u, files)
      BY <2>2, <2>3, <2>4, <2>6
    <2>8. c \in Seq(Entry) /\ Len(c) <= MaxCache /\ OnePerUser(c)
      BY <2>5, <2>7, ResultStored
    <2> QED BY <2>6, <2>8 DEF CacheOK, OnePerUser
  <1>2. ASSUME NEW i \in 1 .. Len(cache), Expire(i) PROVE CacheOK'
    <2>1. cache \in Seq(Entry) /\ cache' = [cache EXCEPT ![i].expired = TRUE]
      BY <1>2 DEF Expire, CacheOK
    <2>2. cache[i] \in Entry
      BY <2>1
    <2>3. [cache[i] EXCEPT !.expired = TRUE] \in Entry
      BY <2>2 DEF Entry
    <2>4. cache' \in Seq(Entry) /\ Len(cache') = Len(cache)
      BY <2>1, <2>3
    <2>5. \A j \in 1 .. Len(cache) : cache'[j].user = cache[j].user
      BY <2>1, <2>2 DEF Entry
    <2> QED BY <2>4, <2>5 DEF CacheOK, OnePerUser
  <1>3. CASE UNCHANGED cache
    BY <1>3 DEF CacheOK, OnePerUser
  <1>4. CASE Restart
    <2>1. cache' = << >>
      BY <1>4 DEF Restart
    <2> QED BY <2>1, MaxCacheAssumption DEF CacheOK, OnePerUser
  <1>5. CASE StorageStep
    BY <1>1, <1>2, <1>3, <1>5, Zenon DEF StorageStep, Ask, List, FailCalc, Respond
  <1>6. CASE UNCHANGED storageVars
    BY <1>3, <1>6 DEF storageVars
  <1> QED BY <1>4, <1>5, <1>6 DEF StorageNext, allVars

(* For any number of users and requests, every value stays in its type; the
   Map of results never outgrows its limit and holds one result per user. *)
THEOREM StorageTypeCorrect == StorageSpec => []StorageTypeOK
  <1>1. StorageInit => CacheOK
    BY MaxCacheAssumption DEF StorageInit, CacheOK, OnePerUser
  <1>2. StorageSpec => []CacheOK
    BY <1>1, CacheStep, CalcInductive, PTL DEF StorageSpec
  <1>3. StorageSpec => []ExportTypeOK
    BY TypeCorrect, Composition, PTL
  <1>4. ExportTypeOK /\ CInv /\ CacheOK => StorageTypeOK
    BY DEF CInv, CalcOK, CacheOK, OnePerUser, Entry, StorageTypeOK
  <1> QED BY <1>2, <1>3, <1>4, CalcInductive, PTL
=============================================================================
