-------------------------- MODULE Retention_proofs --------------------------
(* The retention of files, for any number of files, categories, requests,
   deletions and days. *)
EXTENDS Retention, TLAPS

USE KindAssumption, NoFileAssumption, AgeAssumption

-----------------------------------------------------------------------------
(* The type invariant, a part for each group of variables. *)

ReqType == [pc : {"idle", "preview", "lock", "locked"}, shown : Previews, before : Policies,
            new : Policies]
CleanType == [pc : {"idle", "next", "batch", "delete", "lost"}, left : SUBSET Categories,
              due : SUBSET Files, batch : SUBSET Files, dropped : SUBSET Files,
              file : Files \cup {NoFile}]
DelType == [pc : {"idle", "found", "removed"}, file : Files \cup {NoFile}]

SettingsOK == policy \in Policies /\ preview \in Previews /\ req \in [Reqs -> ReqType]

FilesOK ==
    /\ age \in [Files -> 0 .. MaxAge]
    /\ row \subseteq Files /\ obj \subseteq Files
    /\ dlv \in Files \cup {NoFile} /\ stray \subseteq Files

CleanOK == clean \in CleanType
DelOK == del \in [Dels -> DelType]

(* The rows that the clean-up has locked are still there. *)
BatchHasRows == clean.batch \cup clean.dropped \subseteq row

LEMMA TypeParts == TypeOK <=> SettingsOK /\ FilesOK /\ CleanOK /\ DelOK /\ BatchHasRows
  BY DEF TypeOK, SettingsOK, FilesOK, CleanOK, DelOK, BatchHasRows, ReqType, CleanType, DelType

LEMMA ForeverTyped == AllForever \in Policies /\ NoPreview \in Previews
  BY DEF AllForever, Forever, Policies, Previews, NoPreview

LEMMA IdleReqTyped == IdleReq \in ReqType
  BY ForeverTyped DEF IdleReq, ReqType

LEMMA IdleCleanTyped == IdleClean \in CleanType
  BY DEF IdleClean, CleanType

LEMMA IdleDelTyped == IdleDel \in DelType
  BY DEF IdleDel, DelType

-----------------------------------------------------------------------------
(* The types, a lemma for each part of the system. *)

LEMMA InitTyped == Init => SettingsOK /\ FilesOK /\ CleanOK /\ DelOK
  BY ForeverTyped, IdleReqTyped, IdleCleanTyped, IdleDelTyped
     DEF Init, SettingsOK, FilesOK, CleanOK, DelOK

RequestStep(r) ==
    \/ \E new \in Policies : PreviewReads(r, new) \/ \E token \in BOOLEAN : PutArrives(r, new, token)
    \/ PreviewEnds(r) \/ PutLocks(r) \/ PutCommits(r) \/ ReqFails(r)

CleanStep ==
    \/ CleanBegins \/ CleanSpares \/ CleanGoesOn \/ CleanFails \/ LostEnds
    \/ \E c \in Categories : CleanSelects(c)
    \/ \E f \in Files : CleanRequests(f) \/ CleanDeletes(f)

DelStep(d) ==
    \/ \E f \in Files : DelFinds(d, f)
    \/ DelObject(d) \/ DelRow(d) \/ DelFails(d)

DeliveryStep == (\E f \in Files : Upload(f)) \/ Post \/ PostFails

LEMMA NextCases ==
    Next <=> (\E r \in Reqs : RequestStep(r)) \/ CleanStep \/ (\E d \in Dels : DelStep(d))
                \/ DeliveryStep \/ Day
  BY DEF Next, RequestStep, CleanStep, DelStep, DeliveryStep

LEMMA RequestTyped ==
    ASSUME SettingsOK, NEW r \in Reqs, RequestStep(r)
    PROVE  SettingsOK'
  <1> USE DEF SettingsOK
  <1>1. ASSUME NEW new \in Policies, PreviewReads(r, new) PROVE SettingsOK'
    <2>1. [IdleReq EXCEPT !.pc = "preview", !.before = policy, !.new = new] \in ReqType
      BY IdleReqTyped DEF ReqType
    <2> QED BY <1>1, <2>1 DEF PreviewReads
  <1>2. ASSUME NEW new \in Policies, NEW token \in BOOLEAN, PutArrives(r, new, token)
        PROVE  SettingsOK'
    <2>1. (IF token THEN preview ELSE NoPreview) \in Previews
      BY ForeverTyped
    <2>2. [IdleReq EXCEPT !.pc = "lock", !.new = new,
                          !.shown = IF token THEN preview ELSE NoPreview] \in ReqType
      BY IdleReqTyped, <2>1 DEF ReqType
    <2> QED BY <1>2, <2>2 DEF PutArrives
  <1>3. CASE PreviewEnds(r)
    <2>1. [before |-> req[r].before, after |-> req[r].new] \in Previews
      BY DEF ReqType, Previews
    <2> QED BY <1>3, <2>1, IdleReqTyped DEF PreviewEnds
  <1>4. CASE PutLocks(r)
    <2>1. [req[r] EXCEPT !.pc = "locked", !.before = policy] \in ReqType
      BY DEF ReqType
    <2>2. req' = [req EXCEPT ![r] = [req[r] EXCEPT !.pc = "locked", !.before = policy]]
      BY <1>4 DEF PutLocks
    <2> QED BY <1>4, <2>1, <2>2 DEF PutLocks
  <1>5. CASE PutCommits(r)
    <2>1. req[r].new \in Policies
      BY DEF ReqType
    <2> QED BY <1>5, <2>1, IdleReqTyped, ForeverTyped DEF PutCommits
  <1>6. CASE ReqFails(r)
    BY <1>6, IdleReqTyped DEF ReqFails
  <1> QED BY <1>1, <1>2, <1>3, <1>4, <1>5, <1>6 DEF RequestStep

LEMMA CleanTyped ==
    ASSUME FilesOK, CleanOK, CleanStep
    PROVE  CleanOK' /\ FilesOK'
  <1> USE DEF CleanOK, FilesOK
  <1>1. CASE CleanBegins
    BY <1>1, IdleCleanTyped DEF CleanBegins, CleanType
  <1>2. CASE CleanSpares
    BY <1>2 DEF CleanSpares, Spared, CleanType
  <1>3. CASE CleanGoesOn
    BY <1>3, IdleCleanTyped DEF CleanGoesOn, CleanType
  <1>4. CASE CleanFails
    BY <1>4, IdleCleanTyped DEF CleanFails, CleanType
  <1>5. CASE LostEnds
    BY <1>5, IdleCleanTyped DEF LostEnds
  <1>6. ASSUME NEW c \in Categories, CleanSelects(c) PROVE CleanOK' /\ FilesOK'
    BY <1>6 DEF CleanSelects, CleanType
  <1>7. ASSUME NEW f \in Files, CleanRequests(f) PROVE CleanOK' /\ FilesOK'
    BY <1>7 DEF CleanRequests, CleanType
  <1>8. ASSUME NEW f \in Files, CleanDeletes(f) PROVE CleanOK' /\ FilesOK'
    BY <1>8 DEF CleanDeletes, CleanType
  <1> QED BY <1>1, <1>2, <1>3, <1>4, <1>5, <1>6, <1>7, <1>8 DEF CleanStep

LEMMA DelTyped ==
    ASSUME FilesOK, DelOK, NEW d \in Dels, DelStep(d)
    PROVE  DelOK' /\ FilesOK'
  <1> USE DEF DelOK, FilesOK
  <1>1. ASSUME NEW f \in Files, DelFinds(d, f) PROVE DelOK' /\ FilesOK'
    <2>1. [pc |-> "found", file |-> f] \in DelType
      BY DEF DelType
    <2> QED BY <1>1, <2>1 DEF DelFinds
  <1>2. CASE DelObject(d)
    <2>1. [del[d] EXCEPT !.pc = "removed"] \in DelType
      BY DEF DelType
    <2>2. del' = [del EXCEPT ![d] = [del[d] EXCEPT !.pc = "removed"]]
      BY <1>2 DEF DelObject
    <2> QED BY <1>2, <2>1, <2>2 DEF DelObject
  <1>3. CASE DelRow(d)
    BY <1>3, IdleDelTyped DEF DelRow
  <1>4. CASE DelFails(d)
    BY <1>4, IdleDelTyped DEF DelFails
  <1> QED BY <1>1, <1>2, <1>3, <1>4 DEF DelStep

LEMMA DeliveryTyped ==
    ASSUME FilesOK, CleanOK, DeliveryStep
    PROVE  CleanOK' /\ FilesOK'
  <1> USE DEF CleanOK, FilesOK
  <1>1. ASSUME NEW f \in Files, Upload(f) PROVE CleanOK' /\ FilesOK'
    BY <1>1 DEF Upload
  <1>2. CASE Post
    <2>1. dlv \in Files
      BY <1>2 DEF Post
    <2>2. clean' = clean \/ clean' = [clean EXCEPT !.due = @ \ {dlv}]
      BY <1>2 DEF Post
    <2>3. CleanOK'
      BY <2>2 DEF CleanType
    <2>4. age' \in [Files -> 0 .. MaxAge]
      BY <1>2, <2>1 DEF Post
    <2> QED BY <1>2, <2>1, <2>3, <2>4 DEF Post
  <1>3. CASE PostFails
    BY <1>3 DEF PostFails
  <1> QED BY <1>1, <1>2, <1>3 DEF DeliveryStep

LEMMA DayTyped ==
    ASSUME FilesOK, Day
    PROVE  FilesOK' /\ \A f \in Files : age'[f] >= age[f]
  BY DEF Day, FilesOK

-----------------------------------------------------------------------------
(* The locks.  The clean-up and a save that has locked the settings exclude
   each other, and so do two saves; a media file being deleted by hand is not
   in the clean-up's transaction. *)

SettingsLock ==
    /\ CleanHolds => \A r \in Reqs : req[r].pc # "locked"
    /\ \A r, q \in Reqs : req[r].pc = "locked" /\ req[q].pc = "locked" => r = q

ReadUnderLock == \A r \in Reqs : req[r].pc = "locked" => req[r].before = policy

RowLock ==
    \A d \in Dels : del[d].pc # "idle" /\ del[d].file \notin Exports
                      => del[d].file \notin clean.batch \cup clean.dropped

(* The object that the clean-up is deleting is one of its batch. *)
AwaitsBatch == clean.pc = "delete" => clean.file \in clean.batch

LocksOK == SettingsOK /\ FilesOK /\ CleanOK /\ DelOK /\ BatchHasRows
            /\ SettingsLock /\ ReadUnderLock /\ RowLock /\ AwaitsBatch

LEMMA InitLocks == Init => LocksOK
  <1> SUFFICES ASSUME Init PROVE BatchHasRows /\ SettingsLock /\ ReadUnderLock /\ RowLock
                                           /\ AwaitsBatch
    BY InitTyped DEF LocksOK
  <1> QED BY DEF Init, BatchHasRows, SettingsLock, ReadUnderLock, RowLock, AwaitsBatch,
                 IdleReq, IdleClean, IdleDel, CleanHolds

LEMMA RequestLocks ==
    ASSUME LocksOK, NEW r \in Reqs, RequestStep(r)
    PROVE  LocksOK'
  <1> USE DEF LocksOK
  <1>1. UNCHANGED filesVars
    BY DEF RequestStep, PreviewReads, PutArrives, PreviewEnds, PutLocks, PutCommits, ReqFails
  <1>2. FilesOK' /\ CleanOK' /\ DelOK' /\ BatchHasRows' /\ RowLock' /\ AwaitsBatch'
        /\ (CleanHolds' <=> CleanHolds)
    BY <1>1 DEF filesVars, FilesOK, CleanOK, DelOK, BatchHasRows, RowLock, AwaitsBatch, CleanHolds
  <1>3. \A q \in Reqs \ {r} : req'[q] = req[q]
    BY DEF RequestStep, PreviewReads, PutArrives, PreviewEnds, PutLocks, PutCommits, ReqFails,
           SettingsOK
  <1>4. CASE PutLocks(r)
    <2>1. req'[r].before = policy /\ policy' = policy /\ PolicyFree
      BY <1>4 DEF PutLocks, SettingsOK, ReqType
    <2> QED BY <1>2, <1>3, <2>1, RequestTyped DEF SettingsLock, ReadUnderLock, PolicyFree
  <1>5. CASE ~PutLocks(r)
    <2>1. req'[r].pc # "locked"
      <3>1. ASSUME NEW new \in Policies, PreviewReads(r, new) PROVE req'[r].pc # "locked"
        BY <3>1 DEF PreviewReads, SettingsOK, IdleReq
      <3>2. ASSUME NEW new \in Policies, NEW token \in BOOLEAN, PutArrives(r, new, token)
            PROVE  req'[r].pc # "locked"
        BY <3>2 DEF PutArrives, SettingsOK, IdleReq
      <3>3. CASE PreviewEnds(r) \/ PutCommits(r) \/ ReqFails(r)
        <4>1. req' = [req EXCEPT ![r] = IdleReq]
          BY <3>3 DEF PreviewEnds, PutCommits, ReqFails
        <4> QED BY <4>1 DEF SettingsOK, IdleReq
      <3> QED BY <1>5, <3>1, <3>2, <3>3 DEF RequestStep
    <2>2. policy' = policy \/ req[r].pc = "locked"
      BY <1>5 DEF RequestStep, PreviewReads, PutArrives, PreviewEnds, PutCommits, ReqFails
    <2> QED BY <1>2, <1>3, <2>1, <2>2, RequestTyped DEF SettingsLock, ReadUnderLock
  <1> QED BY <1>4, <1>5

LEMMA CleanLocks ==
    ASSUME LocksOK, CleanStep
    PROVE  LocksOK'
  <1> USE DEF LocksOK
  <1>1. UNCHANGED <<policy, preview, req, del>>
    BY DEF CleanStep, CleanBegins, CleanSpares, CleanGoesOn, CleanFails, LostEnds, CleanSelects,
           CleanRequests, CleanDeletes
  <1>2. SettingsOK' /\ DelOK' /\ ReadUnderLock'
    BY <1>1 DEF SettingsOK, DelOK, ReadUnderLock
  <1>3. FilesOK' /\ CleanOK'
    BY CleanTyped
  <1>4. SettingsLock'
    <2>1. CASE CleanBegins
      BY <1>1, <2>1 DEF CleanBegins, SettingsLock, PolicyFree
    <2>2. CASE ~CleanBegins
      <3>1. CleanHolds \/ clean.pc = "lost"
        BY <2>2 DEF CleanStep, CleanSpares, CleanGoesOn, CleanFails, LostEnds, CleanSelects,
                    CleanRequests, CleanDeletes, CleanHolds
      <3>2. clean.pc = "lost" => ~CleanHolds'
        BY <2>2 DEF CleanStep, CleanSpares, CleanGoesOn, CleanFails, LostEnds, CleanSelects,
                    CleanRequests, CleanDeletes, CleanHolds, IdleClean
      <3> QED BY <1>1, <3>1, <3>2 DEF SettingsLock
    <2> QED BY <2>1, <2>2
  <1>5. RowLock' /\ BatchHasRows'
    <2>1. CASE \E c \in Categories : CleanSelects(c)
      BY <1>1, <2>1 DEF CleanSelects, CleanOK, CleanType, RowLock, BatchHasRows, RowFree, DelHolds
    <2>2. CASE CleanGoesOn
      BY <1>1, <2>2 DEF CleanGoesOn, IdleClean, CleanOK, CleanType, RowLock, BatchHasRows
    <2>3. CASE ~CleanGoesOn /\ ~(\E c \in Categories : CleanSelects(c))
      <3>1. clean'.batch \cup clean'.dropped \subseteq clean.batch \cup clean.dropped
        <4>1. CASE \E f \in Files : CleanDeletes(f)
          BY <4>1 DEF CleanDeletes, CleanOK, CleanType, AwaitsBatch
        <4>2. CASE CleanSpares
          BY <4>2 DEF CleanSpares, Spared, CleanOK, CleanType, AwaitsBatch
        <4>3. CASE \E f \in Files : CleanRequests(f)
          BY <4>3 DEF CleanRequests, CleanOK, CleanType
        <4>4. CASE CleanBegins
          BY <4>4 DEF CleanBegins, IdleClean
        <4>6. CASE LostEnds
          BY <4>6 DEF LostEnds, IdleClean
        <4>5. CASE CleanFails
          BY <4>5 DEF CleanFails, IdleClean
        <4> QED BY <2>3, <4>1, <4>2, <4>3, <4>4, <4>5, <4>6 DEF CleanStep
      <3>2. row' = row
        BY <2>3 DEF CleanStep, CleanBegins, CleanSpares, CleanFails, LostEnds, CleanRequests,
                    CleanDeletes
      <3> QED BY <1>1, <3>1, <3>2 DEF RowLock, BatchHasRows
    <2> QED BY <2>1, <2>2, <2>3
  <1>6. AwaitsBatch'
    <2>1. CASE \E f \in Files : CleanRequests(f)
      BY <2>1 DEF CleanRequests, AwaitsBatch, CleanOK, CleanType
    <2>2. ASSUME ~(\E f \in Files : CleanRequests(f)) PROVE clean'.pc # "delete"
      <3>1. CASE CleanBegins
        BY <3>1 DEF CleanBegins, IdleClean
      <3>6. CASE CleanFails
        BY <3>6 DEF CleanFails, IdleClean
      <3>7. CASE LostEnds
        BY <3>7 DEF LostEnds, IdleClean
      <3>2. CASE CleanGoesOn
        BY <3>2 DEF CleanGoesOn, IdleClean, CleanOK, CleanType
      <3>3. CASE CleanSpares
        BY <3>3 DEF CleanSpares, Spared, CleanOK, CleanType
      <3>4. CASE \E f \in Files : CleanDeletes(f)
        BY <3>4 DEF CleanDeletes, CleanOK, CleanType
      <3>5. CASE \E c \in Categories : CleanSelects(c)
        BY <3>5 DEF CleanSelects, CleanOK, CleanType
      <3> QED BY <2>2, <3>1, <3>2, <3>3, <3>4, <3>5, <3>6, <3>7 DEF CleanStep
    <2> QED BY <2>1, <2>2 DEF AwaitsBatch
  <1> QED BY <1>2, <1>3, <1>4, <1>5, <1>6

LEMMA DelLocks ==
    ASSUME LocksOK, NEW d \in Dels, DelStep(d)
    PROVE  LocksOK'
  <1> USE DEF LocksOK
  <1>1. UNCHANGED <<policy, preview, req, clean>>
    BY DEF DelStep, DelFinds, DelObject, DelRow, DelFails
  <1>2. SettingsOK' /\ CleanOK' /\ ReadUnderLock' /\ SettingsLock' /\ AwaitsBatch'
    BY <1>1 DEF SettingsOK, CleanOK, ReadUnderLock, SettingsLock, AwaitsBatch, CleanHolds
  <1>3. FilesOK' /\ DelOK'
    BY DelTyped
  <1>4. \A e \in Dels \ {d} : del'[e] = del[e]
    BY DEF DelStep, DelFinds, DelObject, DelRow, DelFails, DelOK
  <1>5. RowLock'
    <2>1. CASE \E f \in Files : DelFinds(d, f)
      BY <1>1, <1>4, <2>1 DEF DelFinds, RowLock, RowFree, DelOK
    <2>2. CASE DelObject(d)
      BY <1>1, <1>4, <2>2 DEF DelObject, RowLock, DelOK, DelType
    <2>3. CASE DelRow(d) \/ DelFails(d)
      BY <1>1, <1>4, <2>3 DEF DelRow, DelFails, RowLock, DelOK, IdleDel
    <2> QED BY <2>1, <2>2, <2>3 DEF DelStep
  <1>6. BatchHasRows'
    <2>1. CASE DelRow(d)
      BY <1>1, <2>1 DEF DelRow, BatchHasRows, RowLock
    <2>2. CASE ~DelRow(d)
      BY <1>1, <2>2 DEF DelStep, DelFinds, DelObject, DelFails, BatchHasRows
    <2> QED BY <2>1, <2>2
  <1> QED BY <1>2, <1>3, <1>5, <1>6

LEMMA OtherLocks ==
    ASSUME LocksOK, DeliveryStep \/ Day
    PROVE  LocksOK'
  <1> USE DEF LocksOK
  <1>1. UNCHANGED <<policy, preview, req, del>>
    BY DEF DeliveryStep, Upload, Post, PostFails, Day
  <1>2. row \subseteq row'
    BY DEF DeliveryStep, Upload, Post, PostFails, Day
  <1>3. UNCHANGED <<clean.batch, clean.dropped, clean.pc, clean.file>>
    BY DEF DeliveryStep, Upload, Post, PostFails, Day, CleanOK, CleanType
  <1>4. FilesOK' /\ CleanOK'
    BY DeliveryTyped, DayTyped DEF Day, CleanOK
  <1>5. SettingsOK' /\ DelOK' /\ ReadUnderLock'
    BY <1>1 DEF SettingsOK, DelOK, ReadUnderLock
  <1>6. SettingsLock'
    BY <1>1, <1>3 DEF SettingsLock, CleanHolds
  <1>7. RowLock' /\ BatchHasRows' /\ AwaitsBatch'
    BY <1>1, <1>2, <1>3 DEF RowLock, BatchHasRows, AwaitsBatch
  <1> QED BY <1>4, <1>5, <1>6, <1>7

LEMMA NextLocks == LocksOK /\ [Next]_vars => LocksOK'
  <1> SUFFICES ASSUME LocksOK, [Next]_vars PROVE LocksOK'
    OBVIOUS
  <1>1. CASE UNCHANGED vars
    BY <1>1 DEF vars, LocksOK, SettingsOK, FilesOK, CleanOK, DelOK, BatchHasRows, SettingsLock,
                ReadUnderLock, RowLock, AwaitsBatch, CleanHolds
  <1>2. CASE Next
    BY <1>2, NextCases, RequestLocks, CleanLocks, DelLocks, OtherLocks
  <1> QED BY <1>1, <1>2

(* Type correctness, the locked rows included. *)
THEOREM TypeCorrect == Spec => []TypeOK
  <1>1. LocksOK => TypeOK
    BY TypeParts DEF LocksOK
  <1> QED BY <1>1, InitLocks, NextLocks, PTL DEF Spec

-----------------------------------------------------------------------------
(* A period becomes shorter only from the settings, and to those, that the
   confirmed preview was made for: no other save fits between the check and
   the commit. *)
THEOREM Previewed == Spec => ShorteningPreviewed
  <1>1. ASSUME LocksOK, NEW r \in Reqs, PutCommits(r), Shortened(policy, policy')
        PROVE  req[r].shown = [before |-> policy, after |-> policy']
    <2>1. req[r].before = policy /\ policy' = req[r].new
      BY <1>1 DEF LocksOK, ReadUnderLock, PutCommits
    <2>2. req[r].shown.before = policy /\ req[r].shown.after = policy'
      BY <1>1, <2>1 DEF PutCommits, Confirmed
    <2>3. req[r].shown \in Previews
      BY <1>1 DEF LocksOK, SettingsOK, ReqType
    <2> QED BY <2>2, <2>3 DEF Previews
  <1>2. LocksOK /\ [Next]_vars
          => [\A r \in Reqs : PutCommits(r) /\ Shortened(policy, policy')
                => req[r].shown = [before |-> policy, after |-> policy']]_vars
    BY <1>1
  <1> QED BY <1>2, InitLocks, NextLocks, PTL DEF Spec, ShorteningPreviewed

-----------------------------------------------------------------------------
(* While the clean-up holds its locks, what it has selected stays due: the
   settings cannot change, files grow older, and a file that a delivery makes
   young again is not in its transaction. *)

DueKept ==
    CleanHolds => \A f \in clean.due \cup clean.batch \cup clean.dropped : Due(f)

LEMMA InitDue == Init => DueKept
  <1>1. Init => clean.pc = "idle"
    BY DEF Init, IdleClean
  <1> QED BY <1>1 DEF DueKept, CleanHolds

LEMMA CleanDue ==
    ASSUME LocksOK, DueKept, CleanStep
    PROVE  DueKept'
  <1> USE DEF LocksOK
  <1>1. UNCHANGED <<policy, age>>
    BY DEF CleanStep, CleanBegins, CleanSpares, CleanGoesOn, CleanFails, LostEnds, CleanSelects,
           CleanRequests, CleanDeletes
  <1>2. \A f : Due(f)' <=> Due(f)
    BY <1>1 DEF Due
  <1>3. CASE CleanBegins
    <2>1. clean'.due = {f \in Files : Due(f)} /\ clean'.batch = {} /\ clean'.dropped = {}
      BY <1>3 DEF CleanBegins, IdleClean
    <2> QED BY <1>2, <2>1 DEF DueKept
  <1>4. CASE CleanFails \/ LostEnds
    <2>1. clean'.pc \in {"idle", "lost"}
      <3>1. CASE CleanFails
        BY <3>1 DEF CleanFails, IdleClean
      <3>2. CASE LostEnds
        BY <3>2 DEF LostEnds, IdleClean
      <3> QED BY <1>4, <3>1, <3>2
    <2> QED BY <2>1 DEF DueKept, CleanHolds
  <1>5. ASSUME CleanHolds,
               CleanHolds' => clean'.due \cup clean'.batch \cup clean'.dropped
                                \subseteq clean.due \cup clean.batch \cup clean.dropped
        PROVE  DueKept'
    BY <1>2, <1>5 DEF DueKept
  <1>6. CASE CleanSpares
    BY <1>5, <1>6 DEF CleanSpares, Spared, CleanHolds, CleanOK, CleanType
  <1>7. CASE CleanGoesOn
    BY <1>5, <1>7 DEF CleanGoesOn, IdleClean, CleanHolds, CleanOK, CleanType
  <1>8. CASE \E c \in Categories : CleanSelects(c)
    BY <1>5, <1>8 DEF CleanSelects, CleanHolds, CleanOK, CleanType
  <1>9. CASE \E f \in Files : CleanRequests(f)
    BY <1>5, <1>9 DEF CleanRequests, CleanHolds, CleanOK, CleanType
  <1>10. CASE \E f \in Files : CleanDeletes(f)
    BY <1>5, <1>10 DEF CleanDeletes, CleanHolds, CleanOK, CleanType, AwaitsBatch
  <1> QED BY <1>3, <1>4, <1>6, <1>7, <1>8, <1>9, <1>10 DEF CleanStep

LEMMA NextDue == LocksOK /\ DueKept /\ [Next]_vars => DueKept'
  <1> SUFFICES ASSUME LocksOK, DueKept, [Next]_vars PROVE DueKept'
    OBVIOUS
  <1>1. CASE UNCHANGED <<policy, age, clean>>
    BY <1>1 DEF DueKept, CleanHolds, Due
  <1>2. ASSUME NEW r \in Reqs, RequestStep(r) PROVE DueKept'
    <2>1. UNCHANGED filesVars /\ (policy' = policy \/ req[r].pc = "locked")
      BY <1>2 DEF RequestStep, PreviewReads, PutArrives, PreviewEnds, PutLocks, PutCommits,
                  ReqFails
    <2>2. UNCHANGED <<age, clean>> /\ (policy' = policy \/ ~CleanHolds)
      BY <2>1 DEF filesVars, LocksOK, SettingsLock
    <2> QED BY <1>1, <2>2 DEF DueKept, CleanHolds
  <1>3. ASSUME NEW d \in Dels, DelStep(d) PROVE DueKept'
    BY <1>1, <1>3 DEF DelStep, DelFinds, DelObject, DelRow, DelFails
  <1>4. CASE Post
    <2>1. UNCHANGED <<policy, clean.pc, clean.batch, clean.dropped>>
      BY <1>4 DEF Post, LocksOK, CleanOK, CleanType
    <2>2. CASE dlv \in row
      BY <1>1, <1>4, <2>2 DEF Post
    <2>3. CASE dlv \notin row
      <3>1. clean'.due = clean.due \ {dlv} /\ dlv \notin clean.batch \cup clean.dropped
        BY <1>4, <2>3 DEF Post, RowFree, LocksOK, CleanOK, CleanType
      <3>2. \A f \in Files \ {dlv} : age'[f] = age[f]
        BY <1>4, <2>3 DEF Post, LocksOK, FilesOK
      <3>3. clean.due \cup clean.batch \cup clean.dropped \subseteq Files
        BY DEF LocksOK, CleanOK, CleanType
      <3> QED BY <2>1, <3>1, <3>2, <3>3 DEF DueKept, CleanHolds, Due
    <2> QED BY <2>2, <2>3
  <1>5. CASE Day
    <2>1. UNCHANGED <<policy, clean>> /\ \A f \in Files : age'[f] >= age[f]
      BY <1>5, DayTyped DEF Day, LocksOK
    <2>2. ASSUME NEW f \in Files, Due(f) PROVE Due(f)'
      <3>1. age[f] \in Nat /\ age'[f] \in Nat
        BY <1>5, DayTyped DEF LocksOK, FilesOK
      <3>2. policy[Kind[f]] \in Nat
        BY DEF LocksOK, SettingsOK, Policies, Forever
      <3> QED BY <2>1, <2>2, <3>1, <3>2 DEF Due
    <2>3. clean.due \cup clean.batch \cup clean.dropped \subseteq Files
      BY DEF LocksOK, CleanOK, CleanType
    <2> QED BY <2>1, <2>2, <2>3 DEF DueKept, CleanHolds
  <1>6. CASE (\E f \in Files : Upload(f)) \/ PostFails
    BY <1>1, <1>6 DEF Upload, PostFails
  <1>7. CASE UNCHANGED vars
    BY <1>1, <1>7 DEF vars
  <1> QED BY <1>2, <1>3, <1>4, <1>5, <1>6, <1>7, NextCases, CleanDue DEF DeliveryStep

(* While it holds its connection, the clean-up deletes no file, object or row,
   that the settings in force keep. *)
THEOREM RespectsPolicy == Spec => RetentionRespectsPolicy
  <1>1. ASSUME LocksOK, DueKept, NEW f \in Files, CleanDeletes(f)
        PROVE  Due(f)
    BY <1>1 DEF LocksOK, AwaitsBatch, CleanDeletes, DueKept, CleanHolds
  <1>2. ASSUME LocksOK, DueKept, CleanGoesOn, NEW f \in row \ row'
        PROVE  Due(f)
    BY <1>2 DEF CleanGoesOn, DueKept, CleanHolds
  <1>3. LocksOK /\ DueKept /\ [Next]_vars
          => [/\ \A f \in Files : CleanDeletes(f) => Due(f)
              /\ CleanGoesOn => \A f \in row \ row' : Due(f)]_vars
    BY <1>1, <1>2
  <1> QED BY <1>3, InitLocks, NextLocks, InitDue, NextDue, PTL DEF Spec, RetentionRespectsPolicy

-----------------------------------------------------------------------------
(* What makes NoOrphans inductive: whoever is about to delete a row has
   deleted the object, or a delivery has brought it back. *)

Gone(f) == f \notin obj \/ f \in stray \cup {dlv}

GoneOK ==
    /\ \A f \in clean.dropped : Gone(f)
    /\ \A d \in Dels : del[d].pc = "removed" => Gone(del[d].file)
    /\ dlv \notin Exports

LEMMA InitGone == Init => GoneOK /\ NoOrphans
  BY DEF Init, GoneOK, NoOrphans, IdleClean, IdleDel

LEMMA GoneKept ==
    ASSUME LocksOK, [Next]_vars, ~Post, NEW f, Gone(f)
    PROVE  f \notin obj' \/ f \in stray' \cup {dlv'}
  <1>1. CASE UNCHANGED <<stray, dlv>> /\ obj' \subseteq obj
    BY <1>1 DEF Gone
  <1>2. ASSUME NEW r \in Reqs, RequestStep(r) PROVE UNCHANGED <<stray, dlv, obj>>
    BY <1>2 DEF RequestStep, PreviewReads, PutArrives, PreviewEnds, PutLocks, PutCommits,
                ReqFails, filesVars
  <1>3. ASSUME CleanStep PROVE UNCHANGED <<stray, dlv>> /\ obj' \subseteq obj
    BY <1>3 DEF CleanStep, CleanBegins, CleanSpares, CleanGoesOn, CleanFails, LostEnds,
                CleanSelects, CleanRequests, CleanDeletes
  <1>4. ASSUME NEW d \in Dels, DelStep(d) PROVE UNCHANGED <<stray, dlv>> /\ obj' \subseteq obj
    BY <1>4 DEF DelStep, DelFinds, DelObject, DelRow, DelFails
  <1>5. CASE (\E g \in Files : Upload(g)) \/ PostFails
    BY <1>5 DEF Upload, PostFails, Gone, LocksOK, FilesOK
  <1>6. CASE Day
    BY <1>1, <1>6 DEF Day
  <1>7. CASE UNCHANGED vars
    BY <1>1, <1>7 DEF vars
  <1> QED BY <1>1, <1>2, <1>3, <1>4, <1>5, <1>6, <1>7, NextCases DEF DeliveryStep

LEMMA PostGone ==
    ASSUME LocksOK, GoneOK, NoOrphans, Post
    PROVE  GoneOK' /\ NoOrphans'
  <1>1. ASSUME NEW f, Gone(f), f # dlv PROVE Gone(f)'
    BY <1>1 DEF Post, Gone
  <1>2. \A f \in clean.dropped : f # dlv
    BY DEF Post, RowFree
  <1>3. \A d \in Dels : del[d].pc = "removed" => del[d].file # dlv
    BY DEF Post, RowFree, DelHolds, GoneOK
  <1>4. clean'.dropped = clean.dropped /\ del' = del /\ dlv' = NoFile
    BY DEF Post, LocksOK, CleanOK, CleanType
  <1>5. GoneOK'
    BY <1>1, <1>2, <1>3, <1>4 DEF GoneOK
  <1>6. NoOrphans'
    BY DEF Post, NoOrphans
  <1> QED BY <1>5, <1>6

LEMMA NextGone == LocksOK /\ GoneOK /\ NoOrphans /\ [Next]_vars => GoneOK' /\ NoOrphans'
  <1> SUFFICES ASSUME LocksOK, GoneOK, NoOrphans, [Next]_vars, ~Post
               PROVE  GoneOK' /\ NoOrphans'
    BY PostGone
  <1>1. ASSUME NEW f, Gone(f) PROVE Gone(f)'
    BY <1>1, GoneKept DEF Gone
  <1>2. CASE UNCHANGED <<row, obj, clean, del, dlv, stray>>
    BY <1>2 DEF GoneOK, NoOrphans, Gone
  <1>3. ASSUME NEW r \in Reqs, RequestStep(r)
        PROVE  UNCHANGED <<row, obj, clean, del, dlv, stray>>
    BY <1>3 DEF RequestStep, PreviewReads, PutArrives, PreviewEnds, PutLocks, PutCommits,
                ReqFails, filesVars
  <1>4. ASSUME CleanStep PROVE GoneOK' /\ NoOrphans'
    <2>1. UNCHANGED <<del, dlv, stray>> /\ obj' \subseteq obj
      BY <1>4 DEF CleanStep, CleanBegins, CleanSpares, CleanGoesOn, CleanFails, LostEnds,
                  CleanSelects, CleanRequests, CleanDeletes
    <2>2. \A f \in clean'.dropped : f \in clean.dropped \/ f \notin obj'
      <3>1. CASE \E f \in Files : CleanDeletes(f)
        BY <3>1 DEF CleanDeletes, LocksOK, CleanOK, CleanType
      <3>2. CASE CleanBegins
        BY <3>2 DEF CleanBegins, IdleClean
      <3>3. CASE CleanFails
        BY <3>3 DEF CleanFails, IdleClean
      <3>4. CASE LostEnds
        BY <3>4 DEF LostEnds, IdleClean
      <3>5. CASE CleanGoesOn
        BY <3>5 DEF CleanGoesOn, IdleClean, LocksOK, CleanOK, CleanType
      <3>6. CASE CleanSpares
        BY <3>6 DEF CleanSpares, Spared, LocksOK, CleanOK, CleanType
      <3>7. CASE (\E f \in Files : CleanRequests(f)) \/ (\E c \in Categories : CleanSelects(c))
        BY <3>7 DEF CleanRequests, CleanSelects, LocksOK, CleanOK, CleanType
      <3> QED BY <1>4, <3>1, <3>2, <3>3, <3>4, <3>5, <3>6, <3>7 DEF CleanStep
    <2>3. GoneOK'
      BY <1>1, <2>1, <2>2 DEF GoneOK, Gone
    <2>4. row \ row' \subseteq clean.dropped
      BY <1>4 DEF CleanStep, CleanBegins, CleanSpares, CleanGoesOn, CleanFails, LostEnds,
                  CleanSelects, CleanRequests, CleanDeletes
    <2>5. NoOrphans'
      BY <2>1, <2>4 DEF NoOrphans, GoneOK, Gone
    <2> QED BY <2>3, <2>5
  <1>5. ASSUME NEW d \in Dels, DelStep(d) PROVE GoneOK' /\ NoOrphans'
    <2>1. UNCHANGED <<clean, dlv, stray>> /\ obj' \subseteq obj
      BY <1>5 DEF DelStep, DelFinds, DelObject, DelRow, DelFails
    <2>2. \A e \in Dels \ {d} : del'[e] = del[e]
      BY <1>5 DEF DelStep, DelFinds, DelObject, DelRow, DelFails, LocksOK, DelOK
    <2>3. del'[d].pc = "removed" => del'[d].file \notin obj'
      <3>1. CASE DelObject(d)
        BY <3>1 DEF DelObject, LocksOK, DelOK, DelType
      <3>2. CASE \E f \in Files : DelFinds(d, f)
        BY <3>2 DEF DelFinds, LocksOK, DelOK
      <3>3. CASE DelRow(d) \/ DelFails(d)
        BY <3>3 DEF DelRow, DelFails, IdleDel, LocksOK, DelOK
      <3> QED BY <1>5, <3>1, <3>2, <3>3 DEF DelStep
    <2>4. GoneOK'
      BY <1>1, <2>1, <2>2, <2>3 DEF GoneOK, Gone
    <2>5. row' = row \/ (row' = row \ {del[d].file} /\ Gone(del[d].file))
      BY <1>5 DEF DelStep, DelFinds, DelObject, DelRow, DelFails, GoneOK
    <2>6. NoOrphans'
      BY <2>1, <2>5 DEF NoOrphans, Gone
    <2> QED BY <2>4, <2>6
  <1>6. CASE (\E f \in Files : Upload(f)) \/ PostFails
    <2>1. UNCHANGED <<row, clean, del>> /\ dlv' \notin Exports
      BY <1>6 DEF Upload, PostFails, GoneOK
    <2>2. NoOrphans'
      BY <1>6 DEF Upload, PostFails, NoOrphans, LocksOK, FilesOK
    <2> QED BY <1>1, <2>1, <2>2 DEF GoneOK
  <1>7. CASE Day
    BY <1>2, <1>7 DEF Day
  <1>8. CASE UNCHANGED vars
    BY <1>2, <1>8 DEF vars
  <1> QED BY <1>2, <1>3, <1>4, <1>5, <1>6, <1>7, <1>8, NextCases DEF DeliveryStep

(* Every object in S3 has a row that leads to it, except what a delivery under
   way or a failed one has uploaded. *)
THEOREM NothingOrphaned == Spec => []NoOrphans
  BY InitLocks, NextLocks, InitGone, NextGone, PTL DEF Spec
=============================================================================
