--------------------------- MODULE ExportLibrary ---------------------------
(***************************************************************************)
(* Saved PDF exports: the requests that render, upload and record a PDF    *)
(* (pdf.export.js), those that delete one (pdf.exports.js), the rows of    *)
(* pdf_exports and the objects in S3 (s3Media.js).  The clean-up of        *)
(* exports by age is in Retention.                                         *)
(***************************************************************************)
EXTENDS Naturals

CONSTANTS
    Users, NoUser,
    Keys, NoKey,    \* the storage keys, a new UUID per upload
    KeyOwner,       \* the user in the prefix of a key
    Jobs,           \* slots for requests that export
    Dels,           \* slots for requests that delete
    MaxVer          \* bound on auth_version

ASSUME KeysAssumption ==
    /\ KeyOwner \in [Keys -> Users]
    /\ NoKey \notin Keys /\ NoUser \notin Users /\ MaxVer \in Nat

VARIABLES
    ver,        \* users.auth_version; a suspended user's is not any session's
    objects,    \* keys of the objects in S3
    rows,       \* keys in pdf_exports
    used,       \* history: the keys uploaded under
    hollow,     \* history: keys whose row may be without an object, because
                \* the user asked to delete it or a commit was in doubt
    stray,      \* history: keys whose object may be without a row, because
                \* S3 or Node failed in the middle
    job, del

exportVars == <<ver, objects, rows, used, hollow, stray, job, del>>

IdleJob == [pc |-> "idle", user |-> NoUser, gen |-> 0, key |-> NoKey, persisted |-> FALSE]
IdleDel == [pc |-> "idle", key |-> NoKey]

ExportTypeOK ==
    /\ ver \in [Users -> 0 .. MaxVer]
    /\ rows \subseteq used /\ objects \subseteq used /\ used \subseteq Keys
    /\ hollow \subseteq used /\ stray \subseteq used
    /\ job \in [Jobs -> [pc : {"idle", "render", "upload", "uploaded", "locked", "saved",
                               "catch"},
                         user : Users \cup {NoUser}, gen : 0 .. MaxVer,
                         key : Keys \cup {NoKey}, persisted : BOOLEAN]]
    /\ \A j \in Jobs : job[j].pc \in {"uploaded", "locked", "saved"} => job[j].key \in used
    /\ del \in [Dels -> [pc : {"idle", "object", "row"}, key : Keys \cup {NoKey}]]

ExportInit ==
    /\ ver = [u \in Users |-> 0]
    /\ objects = {} /\ rows = {} /\ used = {} /\ hollow = {} /\ stray = {}
    /\ job = [j \in Jobs |-> IdleJob]
    /\ del = [d \in Dels |-> IdleDel]

-----------------------------------------------------------------------------
RowFree(u) == \A j \in Jobs : ~(job[j].pc = "locked" /\ job[j].user = u)

To(j, pc) == job' = [job EXCEPT ![j].pc = pc]

(* The export is asked for, its messages are read, the browser renders. *)
Export(j, u) ==
    /\ job[j].pc = "idle"
    /\ job' = [job EXCEPT ![j] = [IdleJob EXCEPT !.pc = "render", !.user = u, !.gen = ver[u]]]
    /\ UNCHANGED <<ver, objects, rows, used, hollow, stray, del>>

(* The transfer is not aborted and the session is still valid. *)
Rendered(j) ==
    /\ job[j].pc = "render"
    /\ ver[job[j].user] = job[j].gen
    /\ To(j, "upload")
    /\ UNCHANGED <<ver, objects, rows, used, hollow, stray, del>>

Upload(j, k) ==
    /\ job[j].pc = "upload"
    /\ k \notin used /\ KeyOwner[k] = job[j].user
    /\ used' = used \cup {k}
    /\ objects' = objects \cup {k}
    /\ job' = [job EXCEPT ![j].pc = "uploaded", ![j].key = k]
    /\ UNCHANGED <<ver, rows, hollow, stray, del>>

(* S3 has the object, the answer is an error: the handler knows no key. *)
UploadInDoubt(j, k) ==
    /\ job[j].pc = "upload"
    /\ k \notin used /\ KeyOwner[k] = job[j].user
    /\ used' = used \cup {k}
    /\ objects' = objects \cup {k}
    /\ stray' = stray \cup {k}
    /\ To(j, "catch")
    /\ UNCHANGED <<ver, rows, hollow, del>>

(* The transaction locks the owner, who must still be at the generation of the
   session.  (X_Y is a faulty variant of X, see the README.) *)
Authorized_AtUpload(j) == TRUE

Authorized(j) == ver[job[j].user] = job[j].gen

LockOwner_SetsPersisted(j) ==
    /\ job[j].pc = "uploaded"
    /\ RowFree(job[j].user)
    /\ Authorized(j)
    /\ job' = [job EXCEPT ![j].pc = "locked", ![j].persisted = TRUE]
    /\ UNCHANGED <<ver, objects, rows, used, hollow, stray, del>>

LockOwner(j) ==
    /\ job[j].pc = "uploaded"
    /\ RowFree(job[j].user)
    /\ Authorized(j)
    /\ To(j, "locked")
    /\ UNCHANGED <<ver, objects, rows, used, hollow, stray, del>>

(* The commit succeeds. *)
Save(j) ==
    /\ job[j].pc = "locked"
    /\ rows' = rows \cup {job[j].key}
    /\ job' = [job EXCEPT ![j].pc = "saved", ![j].persisted = TRUE]
    /\ UNCHANGED <<ver, objects, used, hollow, stray, del>>

(* The commit succeeds and reports an error. *)
SaveInDoubt(j) ==
    /\ job[j].pc = "locked"
    /\ rows' = rows \cup {job[j].key}
    /\ hollow' = hollow \cup {job[j].key}
    /\ To(j, "catch")
    /\ UNCHANGED <<ver, objects, used, stray, del>>

(* A statement fails, access is revoked, the client is gone: at any point, the
   one between the commit and the answer included. *)
Throw(j) ==
    /\ job[j].pc \notin {"idle", "catch"}
    /\ To(j, "catch")
    /\ UNCHANGED <<ver, objects, rows, used, hollow, stray, del>>

(* The catch clause takes the object of an export that was not recorded. *)
Orphaned_Uploaded(j) == job[j].key # NoKey

Orphaned(j) == job[j].key # NoKey /\ ~job[j].persisted

(* The answer, or the end of the catch clause. *)
Answer(j) ==
    /\ job[j].pc \in {"saved", "catch"}
    /\ job' = [job EXCEPT ![j] = IdleJob]

Finish(j) ==
    /\ Answer(j)
    /\ IF job[j].pc = "catch" /\ Orphaned(j)
       THEN \/ objects' = objects \ {job[j].key} /\ UNCHANGED stray
            \/ stray' = stray \cup {job[j].key} /\ UNCHANGED objects
       ELSE UNCHANGED <<objects, stray>>
    /\ UNCHANGED <<ver, rows, used, hollow, del>>

-----------------------------------------------------------------------------
(* DELETE /api/pdf-exports/:id: the row is read, then the object deleted, then
   the row. *)
AskDelete(d, k) ==
    /\ del[d].pc = "idle"
    /\ k \in rows
    /\ del' = [del EXCEPT ![d] = [pc |-> "object", key |-> k]]
    /\ hollow' = hollow \cup {k}
    /\ UNCHANGED <<ver, objects, rows, used, stray, job>>

DeleteObject(d) ==
    /\ del[d].pc = "object"
    /\ objects' = objects \ {del[d].key}
    /\ del' = [del EXCEPT ![d].pc = "row"]
    /\ UNCHANGED <<ver, rows, used, hollow, stray, job>>

DeleteRow(d) ==
    /\ del[d].pc = "row"
    /\ rows' = rows \ {del[d].key}
    /\ del' = [del EXCEPT ![d] = IdleDel]
    /\ UNCHANGED <<ver, objects, used, hollow, stray, job>>

DeleteFails(d) ==
    /\ del[d].pc # "idle"
    /\ del' = [del EXCEPT ![d] = IdleDel]
    /\ UNCHANGED <<ver, objects, rows, used, hollow, stray, job>>

(* A suspension, or a change of password or e-mail. *)
Revoke(u) ==
    /\ RowFree(u)
    /\ ver[u] < MaxVer
    /\ ver' = [ver EXCEPT ![u] = @ + 1]
    /\ UNCHANGED <<objects, rows, used, hollow, stray, job, del>>

(* The Node process ends. *)
Crash ==
    /\ job' = [j \in Jobs |-> IdleJob] /\ del' = [d \in Dels |-> IdleDel]
    /\ stray' = stray \cup {job[j].key : j \in {i \in Jobs : Orphaned(i)}}
    /\ UNCHANGED <<ver, objects, rows, used, hollow>>

-----------------------------------------------------------------------------
ExportStep ==
    \/ \E j \in Jobs :
        \/ \E u \in Users : Export(j, u)
        \/ \E k \in Keys : Upload(j, k) \/ UploadInDoubt(j, k)
        \/ Rendered(j) \/ LockOwner(j) \/ Save(j) \/ SaveInDoubt(j) \/ Throw(j) \/ Finish(j)
    \/ \E d \in Dels :
        \/ \E k \in Keys : AskDelete(d, k)
        \/ DeleteObject(d) \/ DeleteRow(d) \/ DeleteFails(d)
    \/ \E u \in Users : Revoke(u)

ExportNext == ExportStep \/ Crash

ExportSpec == ExportInit /\ [][ExportNext]_exportVars

-----------------------------------------------------------------------------
(* A recorded export can be opened: its object is there unless its deletion
   was asked for or its commit was in doubt.  A revocation between the commit
   and the answer must not delete it. *)
SavedCanBeOpened == rows \subseteq objects \cup hollow

(* An object without a row belongs to a request in progress, unless S3 or Node
   failed. *)
NoStrayObjects ==
    objects \ rows \subseteq
        stray \cup {job[j].key : j \in Jobs}

(* An export rendered for a session that is revoked meanwhile is not recorded:
   the row is written under the generation of the request. *)
RevokedSavesNothing ==
    [][\A j \in Jobs : Save(j) \/ SaveInDoubt(j) => ver[job[j].user] = job[j].gen]_exportVars
=============================================================================
