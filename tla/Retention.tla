----------------------------- MODULE Retention -----------------------------
(***************************************************************************)
(* What one user has stored, under the retention settings: preview and     *)
(* change of the settings (routes/retention.js), the hourly clean-up       *)
(* (services/retention.js), deletion by hand (media.s3.js, pdf.exports.js) *)
(* and message delivery.  A file is a media file or a PDF: a row in MySQL  *)
(* and an object in S3, which can be changed one after the other only.     *)
(*                                                                         *)
(* S3 and MySQL are external: an S3 request may fail, before or after it   *)
(* took effect; the database connection may be lost, which rolls the       *)
(* transaction back and gives up its locks at once, whatever Node awaits.  *)
(***************************************************************************)
EXTENDS Naturals

CONSTANTS
    Files,
    Exports,         \* the files that are PDF exports
    Categories,      \* of the settings
    Kind,            \* the category of a file
    Reqs,            \* slots for requests about the settings
    Dels,            \* slots for requests that delete a file
    NoFile,
    MaxAge           \* bound on days

ASSUME KindAssumption ==
    /\ Kind \in [Files -> Categories]
    /\ Exports \subseteq Files
ASSUME NoFileAssumption == NoFile \notin Files
ASSUME AgeAssumption == MaxAge \in Nat

(* A period is a number of days; Forever is longer than any. *)
Forever == MaxAge + 1
Policies == [Categories -> 1 .. Forever]
AllForever == [c \in Categories |-> Forever]

VARIABLES
    policy,   \* the committed row of user_storage_settings
    preview,  \* session.retentionPreview
    req,      \* the requests about settings
    age,      \* days since saved_at or created_at
    row, obj, \* the files with a row, with an object
    clean,    \* the clean-up
    del,      \* the deletions by hand
    dlv,      \* a message whose file is uploaded and not posted yet
    stray     \* the media uploaded by a delivery that could not post them

vars == <<policy, preview, req, age, row, obj, clean, del, dlv, stray>>
filesVars == <<age, row, obj, clean, del, dlv, stray>>

NoPreview == [before |-> AllForever, after |-> AllForever]
Previews == [before : Policies, after : Policies]

IdleReq == [pc |-> "idle", shown |-> NoPreview, before |-> AllForever, new |-> AllForever]
IdleClean == [pc |-> "idle", left |-> {}, due |-> {}, batch |-> {}, dropped |-> {}, file |-> NoFile]
IdleDel == [pc |-> "idle", file |-> NoFile]

TypeOK ==
    /\ policy \in Policies /\ preview \in Previews
    /\ req \in [Reqs -> [pc : {"idle", "preview", "lock", "locked"}, shown : Previews,
                         before : Policies, new : Policies]]
    /\ age \in [Files -> 0 .. MaxAge]
    /\ row \subseteq Files /\ obj \subseteq Files
    /\ clean \in [pc : {"idle", "next", "batch", "delete", "lost"}, left : SUBSET Categories,
                  due : SUBSET Files, batch : SUBSET Files, dropped : SUBSET Files,
                  file : Files \cup {NoFile}]
    /\ clean.batch \cup clean.dropped \subseteq row
    /\ del \in [Dels -> [pc : {"idle", "found", "removed"}, file : Files \cup {NoFile}]]
    /\ dlv \in Files \cup {NoFile} /\ stray \subseteq Files

Init ==
    /\ policy = AllForever /\ preview = NoPreview
    /\ req = [r \in Reqs |-> IdleReq]
    /\ age = [f \in Files |-> 0]
    /\ row = Files /\ obj = Files
    /\ clean = IdleClean
    /\ del = [d \in Dels |-> IdleDel]
    /\ dlv = NoFile /\ stray = {}

-----------------------------------------------------------------------------
(* Row locks *)

CleanHolds == clean.pc \in {"next", "batch", "delete"}

(* The clean-up or the PUT reads the settings without FOR UPDATE. *)
PolicyFree_NoLock == TRUE

(* SELECT ... FOR UPDATE of the settings succeeds. *)
PolicyFree == ~CleanHolds /\ \A r \in Reqs : req[r].pc # "locked"

(* A deletion by hand is one transaction for media, and none for exports. *)
DelHolds(f) == \E d \in Dels : del[d].pc # "idle" /\ del[d].file = f /\ f \notin Exports

(* A deletion by hand that reads its row without FOR UPDATE. *)
RowFree_PlainSelect(f) == ~DelHolds(f)

RowFree(f) == ~DelHolds(f) /\ f \notin clean.batch \cup clean.dropped

-----------------------------------------------------------------------------
(* The settings *)

Shortened(before, after) == \E c \in Categories : after[c] < before[c]

PreviewReads(r, new) ==
    /\ req[r].pc = "idle"
    /\ req' = [req EXCEPT ![r] = [IdleReq EXCEPT !.pc = "preview", !.before = policy, !.new = new]]
    /\ UNCHANGED <<policy, preview, filesVars>>

(* The counts are shown; the session remembers for what. *)
PreviewEnds(r) ==
    /\ req[r].pc = "preview"
    /\ preview' = [before |-> req[r].before, after |-> req[r].new]
    /\ req' = [req EXCEPT ![r] = IdleReq]
    /\ UNCHANGED <<policy, filesVars>>

(* PUT with the token of the session's preview, or with none. *)
PutArrives(r, new, token) ==
    /\ req[r].pc = "idle"
    /\ req' = [req EXCEPT ![r] = [IdleReq EXCEPT !.pc = "lock", !.new = new,
                                     !.shown = IF token THEN preview ELSE NoPreview]]
    /\ UNCHANGED <<policy, preview, filesVars>>

PutLocks(r) ==
    /\ req[r].pc = "lock" /\ PolicyFree
    /\ req' = [req EXCEPT ![r].pc = "locked", ![r].before = policy]
    /\ UNCHANGED <<policy, preview, filesVars>>

(* The preview's settings of departure are not compared. *)
Confirmed_AfterOnly(q) == q.shown.after = q.new

Confirmed(q) == q.shown.before = q.before /\ q.shown.after = q.new

(* The preview is used up. *)
PutCommits(r) ==
    LET q == req[r] IN
    /\ q.pc = "locked"
    /\ Shortened(q.before, q.new) => Confirmed(q)
    /\ policy' = q.new
    /\ preview' = NoPreview
    /\ req' = [req EXCEPT ![r] = IdleReq]
    /\ UNCHANGED filesVars

(* Not confirmed, expired, or an error. *)
ReqFails(r) ==
    /\ req[r].pc # "idle"
    /\ req' = [req EXCEPT ![r] = IdleReq]
    /\ UNCHANGED <<policy, preview, filesVars>>

-----------------------------------------------------------------------------
(* cleanupUser: one at a time (GET_LOCK).  `due` are the rows that were old
   enough when it began. *)

Due(f) == age[f] >= policy[Kind[f]]

CleanBegins ==
    /\ clean.pc = "idle" /\ PolicyFree
    /\ policy # AllForever
    /\ clean' = [IdleClean EXCEPT !.pc = "next", !.left = Categories, !.due = {f \in Files : Due(f)}]
    /\ UNCHANGED <<policy, preview, req, age, row, obj, del, dlv, stray>>

(* The batch of a category is selected and locked.  LIMIT 100 is left out. *)
CleanSelects(c) ==
    LET found == {f \in clean.due \cap row : Kind[f] = c} IN
    /\ clean.pc = "next" /\ c \in clean.left
    /\ \A f \in found : RowFree(f)
    /\ clean' = [clean EXCEPT !.pc = "batch", !.left = @ \ {c}, !.batch = found,
                              !.due = {f \in @ : Kind[f] # c}]
    /\ UNCHANGED <<policy, preview, req, age, row, obj, del, dlv, stray>>

CleanRequests(f) ==
    /\ clean.pc = "batch" /\ f \in clean.batch
    /\ clean' = [clean EXCEPT !.pc = "delete", !.file = f]
    /\ UNCHANGED <<policy, preview, req, age, row, obj, del, dlv, stray>>

(* The object is deleted, then the row, in the open transaction. *)
CleanDeletes(f) ==
    /\ clean.pc = "delete" /\ clean.file = f
    /\ obj' = obj \ {f}
    /\ clean' = [clean EXCEPT !.pc = "batch", !.batch = @ \ {f}, !.dropped = @ \cup {f}, !.file = NoFile]
    /\ UNCHANGED <<policy, preview, req, age, row, del, dlv, stray>>

(* The error is logged and the row deleted all the same. *)
Spared_RowToo(k) == [k EXCEPT !.pc = "batch", !.batch = @ \ {k.file}, !.dropped = @ \cup {k.file},
                              !.file = NoFile]

(* After an S3 error the row is left for the next pass. *)
Spared(k) == [k EXCEPT !.pc = "batch", !.batch = @ \ {k.file}, !.file = NoFile]

CleanSpares ==
    /\ clean.pc = "delete"
    /\ obj' \in {obj, obj \ {clean.file}}
    /\ clean' = Spared(clean)
    /\ UNCHANGED <<policy, preview, req, age, row, del, dlv, stray>>

CleanGoesOn ==
    /\ clean.pc = "batch" /\ clean.batch = {}
    /\ IF clean.left # {}
       THEN clean' = [clean EXCEPT !.pc = "next"] /\ UNCHANGED row
       ELSE clean' = IdleClean /\ row' = row \ clean.dropped
    /\ UNCHANGED <<policy, preview, req, age, obj, del, dlv, stray>>

(* The connection is lost or a statement fails: the transaction is rolled
   back; an object deletion under way takes its course. *)
CleanFails ==
    /\ CleanHolds
    /\ clean' = IF clean.pc = "delete" THEN [IdleClean EXCEPT !.pc = "lost", !.file = clean.file]
                                       ELSE IdleClean
    /\ UNCHANGED <<policy, preview, req, age, row, obj, del, dlv, stray>>

LostEnds ==
    /\ clean.pc = "lost"
    /\ obj' \in {obj, obj \ {clean.file}}
    /\ clean' = IdleClean
    /\ UNCHANGED <<policy, preview, req, age, row, del, dlv, stray>>

-----------------------------------------------------------------------------
(* DELETE /media/:id and DELETE /pdf-exports/:id *)

DelFinds(d, f) ==
    /\ del[d].pc = "idle" /\ f \in row
    /\ f \in Exports \/ RowFree(f)
    /\ del' = [del EXCEPT ![d] = [pc |-> "found", file |-> f]]
    /\ UNCHANGED <<policy, preview, req, age, row, obj, clean, dlv, stray>>

DelObject(d) ==
    /\ del[d].pc = "found"
    /\ obj' = obj \ {del[d].file}
    /\ del' = [del EXCEPT ![d].pc = "removed"]
    /\ UNCHANGED <<policy, preview, req, age, row, clean, dlv, stray>>

DelRow(d) ==
    LET f == del[d].file IN
    /\ del[d].pc = "removed"
    /\ f \in Exports => f \notin clean.batch \cup clean.dropped
    /\ row' = row \ {f}
    /\ del' = [del EXCEPT ![d] = IdleDel]
    /\ UNCHANGED <<policy, preview, req, age, obj, clean, dlv, stray>>

DelFails(d) ==
    /\ del[d].pc # "idle"
    /\ del' = [del EXCEPT ![d] = IdleDel]
    /\ obj' \in {obj, IF del[d].pc = "found" THEN obj \ {del[d].file} ELSE obj}
    /\ UNCHANGED <<policy, preview, req, age, row, clean, dlv, stray>>

-----------------------------------------------------------------------------
(* A message is delivered, perhaps again, and upserted: the media file under
   the same key. *)

Upload(f) ==
    /\ dlv = NoFile /\ f \notin Exports
    /\ obj' = obj \cup {f}
    /\ dlv' = f
    /\ UNCHANGED <<policy, preview, req, age, row, clean, del, stray>>

Post ==
    /\ dlv # NoFile /\ RowFree(dlv)
    /\ row' = row \cup {dlv}
    /\ IF dlv \in row
       THEN UNCHANGED <<age, clean>>
       ELSE /\ age' = [age EXCEPT ![dlv] = 0]
            /\ clean' = [clean EXCEPT !.due = @ \ {dlv}]
    /\ dlv' = NoFile /\ stray' = stray \ {dlv}
    /\ UNCHANGED <<policy, preview, req, obj, del>>

PostFails ==
    /\ dlv # NoFile
    /\ dlv' = NoFile
    /\ stray' = stray \cup {dlv}
    /\ UNCHANGED <<policy, preview, req, age, row, obj, clean, del>>

Day ==
    /\ \E f \in Files : age[f] < MaxAge
    /\ age' = [f \in Files |-> IF age[f] < MaxAge THEN age[f] + 1 ELSE age[f]]
    /\ UNCHANGED <<policy, preview, req, row, obj, clean, del, dlv, stray>>

-----------------------------------------------------------------------------
Next ==
    \/ \E r \in Reqs :
        \/ \E new \in Policies : PreviewReads(r, new) \/ \E token \in BOOLEAN : PutArrives(r, new, token)
        \/ PreviewEnds(r) \/ PutLocks(r) \/ PutCommits(r) \/ ReqFails(r)
    \/ CleanBegins \/ CleanSpares \/ CleanGoesOn \/ CleanFails \/ LostEnds
    \/ \E c \in Categories : CleanSelects(c)
    \/ \E f \in Files : CleanRequests(f) \/ CleanDeletes(f) \/ Upload(f)
    \/ \E d \in Dels :
        \/ \E f \in Files : DelFinds(d, f)
        \/ DelObject(d) \/ DelRow(d) \/ DelFails(d)
    \/ Post \/ PostFails \/ Day

Spec == Init /\ [][Next]_vars

-----------------------------------------------------------------------------
(* STORAGE_OVERVIEW.md: "saves wait for the active batch to finish".  While it
   holds its connection, the clean-up deletes no file that the settings in
   force keep. *)
RetentionRespectsPolicy ==
    [][/\ \A f \in Files : CleanDeletes(f) => Due(f)
       /\ CleanGoesOn => \A f \in row \ row' : Due(f)]_vars

(* STORAGE_OVERVIEW.md: "Shortening requires confirmation": a period becomes
   shorter only from the settings, and to those, that the confirmed preview was
   made for. *)
ShorteningPreviewed ==
    [][\A r \in Reqs : PutCommits(r) /\ Shortened(policy, policy')
                        => req[r].shown = [before |-> policy, after |-> policy']]_vars

(* STORAGE_OVERVIEW.md: "File cleanup deletes S3 content before its database
   row": no object is left that no row leads to, except by a delivery that is
   under way or has failed. *)
NoOrphans == obj \subseteq row \cup stray \cup {dlv}
=============================================================================
