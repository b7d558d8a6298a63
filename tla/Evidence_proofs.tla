--------------------------- MODULE Evidence_proofs --------------------------
(***************************************************************************)
(* That the history of a piece of evidence is complete, that its files     *)
(* are kept and that holds protect it, and that the rules which collect    *)
(* evidence stay scheduled and collect once a period: for every number of  *)
(* requests, cleanups, versions, files, rules and failures.                *)
(***************************************************************************)
EXTENDS EvidenceRecords, EvidenceCollection, TLAPS

-----------------------------------------------------------------------------
(*****************************************************************************)
(* EvidenceRecords: history, files and holds                               *)
(***************************************************************************)

RecordRow == [exists : BOOLEAN, version : Nat \ {0}, file : Nat \ {0}]
EditRow == [phase : {"idle", "snapshot", "update"}, file : Nat, version : Nat, old : Nat]
RemovalRow == [phase : {"idle", "check", "delete", "unlink"}, file : Nat]

EvidenceTypes ==
  /\ record \in RecordRow
  /\ DOMAIN versions \subseteq Nat \ {0}
  /\ \A n \in DOMAIN versions : versions[n] \in Nat \ {0}
  /\ written \in Nat /\ disk \subseteq 1..written
  /\ held \in BOOLEAN /\ expired \in BOOLEAN /\ raced \in BOOLEAN
  /\ policy \in {"none", "younger", "older"}
  /\ editing \in [Editor -> EditRow]
  /\ \A e \in Editor : editing[e].file <= written
  /\ rowLock \in Editor \cup {NoEditor}
  /\ removal \in [Remover -> RemovalRow]
  /\ evidenceFaults \in Nat

\* The lock's holder has filed the row as it is.
LockSound ==
  /\ \A e \in Editor : editing[e].phase = "update" <=> rowLock = e
  /\ rowLock # NoEditor =>
       /\ record.exists
       /\ editing[rowLock].version = record.version
       /\ editing[rowLock].old = record.file

\* The files of the requests in flight are on disk, and those that are unlinked are
\* a removed record's.
UploadsKept ==
  record.exists => \A e \in Editor : editing[e].file # 0 => editing[e].file \in disk
UnlinkedLast == \A r \in Remover : removal[r].phase = "unlink" => ~record.exists
FilesHere ==
  record.exists => record.file \in disk /\ \A n \in DOMAIN versions : versions[n] \in disk

\* The decisions of the removals in progress are still right unless one was raced.
DecisionsHold ==
  ~raced =>
    /\ \A r \in Remover : removal[r].phase = "delete" => ~held
    /\ \A r \in Sweeper : removal[r].phase \in {"check", "delete"} =>
         Due /\ (record.exists => removal[r].file = record.file)

\* A removed record's file is gone, or one of the removals is about to unlink it.
LastFileGoes ==
  /\ record.file <= written
  /\ ~record.exists /\ ~raced /\ evidenceFaults = 0 =>
       record.file \notin disk
         \/ \E r \in Remover : removal[r].phase = "unlink" /\ removal[r].file = record.file

\* The invariant that every step keeps.
EvidenceIInv ==
  /\ EvidenceTypes /\ LockSound /\ HistoryComplete
  /\ UploadsKept /\ UnlinkedLast /\ FilesHere
  /\ DecisionsHold /\ LastFileGoes

\* Before anything happens it holds.
LEMMA EvidenceInitially == EvidenceInit => EvidenceIInv
<1> SUFFICES ASSUME EvidenceInit PROVE EvidenceIInv
  OBVIOUS
<1>1. DOMAIN versions = {}
  BY DEF EvidenceInit
<1>2. EvidenceTypes
  <2>1. NotEditing \in EditRow /\ NotEditing.file = 0 /\ NotRemoving \in RemovalRow
    BY DEF EditRow, RemovalRow, NotEditing, NotRemoving
  <2>2. /\ editing \in [Editor -> EditRow] /\ removal \in [Remover -> RemovalRow]
        /\ \A e \in Editor : editing[e].file <= written
    BY <2>1 DEF EvidenceInit
  <2>3. record \in RecordRow /\ disk \subseteq 1..written
    BY DEF EvidenceInit, RecordRow
  <2>4. QED
    BY <1>1, <2>2, <2>3 DEF EvidenceInit, EvidenceTypes
<1>3. LockSound
  BY EvidenceParameters DEF EvidenceInit, LockSound, NotEditing
<1>4. HistoryComplete
  BY <1>1 DEF EvidenceInit, HistoryComplete
<1>5. UploadsKept /\ UnlinkedLast /\ FilesHere /\ DecisionsHold /\ LastFileGoes
  <2>1. UploadsKept
    BY DEF EvidenceInit, UploadsKept, NotEditing
  <2>2. \A r \in Remover : removal[r].phase = "idle"
    BY DEF EvidenceInit, NotRemoving
  <2>3. UnlinkedLast /\ DecisionsHold
    BY <2>2 DEF UnlinkedLast, DecisionsHold, Remover
  <2>4. FilesHere /\ LastFileGoes
    BY <1>1 DEF EvidenceInit, FilesHere, LastFileGoes
  <2>5. QED
    BY <2>1, <2>3, <2>4
<1>6. QED
  BY <1>2, <1>3, <1>4, <1>5 DEF EvidenceIInv
-----------------------------------------------------------------------------
\* What an edit does to the requests in flight.
LEMMA EditingTyped ==
  ASSUME EvidenceIInv, NEW e \in Editor, NEW w \in EditRow,
         editing' = [editing EXCEPT ![e] = w]
  PROVE  /\ editing' \in [Editor -> EditRow]
         /\ \A d \in Editor : editing'[d] = IF d = e THEN w ELSE editing[d]
<1>1. QED
  BY DEF EvidenceIInv, EvidenceTypes

\* An edit begins, with or without a file.
LEMMA BeginEditKeeps ==
  ASSUME EvidenceIInv, NEW e \in Editor, NEW file \in Nat, NEW w \in EditRow,
         editing[e].phase = "idle", w.phase = "snapshot", w.file = file,
         editing' = [editing EXCEPT ![e] = w],
         \/ file = 0 /\ written' = written /\ disk' = disk
         \/ file = written + 1 /\ written' = written + 1 /\ disk' = disk \cup {written + 1},
         UNCHANGED <<record, versions, held, expired, policy, rowLock, removal, evidenceFaults, raced>>
  PROVE  EvidenceIInv'
<1>1. /\ UNCHANGED <<record, versions, held, expired, policy, rowLock, removal, evidenceFaults, raced>>
      /\ editing[e].phase = "idle"
  OBVIOUS
<1>2. written \in Nat /\ disk \subseteq 1..written
  BY DEF EvidenceIInv, EvidenceTypes
<1>3. w \in EditRow /\ w.phase = "snapshot" /\ w.file = file
  OBVIOUS
<1>4. editing' = [editing EXCEPT ![e] = w]
  OBVIOUS
<1>5. \/ file = 0 /\ written' = written /\ disk' = disk
      \/ file = written + 1 /\ written' = written + 1 /\ disk' = disk \cup {written + 1}
  OBVIOUS
<1>6. /\ editing' \in [Editor -> EditRow]
      /\ \A d \in Editor : editing'[d] = IF d = e THEN w ELSE editing[d]
  BY <1>3, <1>4, EditingTyped
<1>7. /\ written' \in Nat /\ written <= written'
      /\ disk \subseteq disk' /\ disk' \subseteq 1..written' /\ disk' \subseteq disk \cup {written + 1}
      /\ file <= written' /\ (file # 0 => file \in disk')
  <2>1. CASE file = 0 /\ written' = written /\ disk' = disk
    BY <1>2, <2>1
  <2>2. CASE file = written + 1 /\ written' = written + 1 /\ disk' = disk \cup {written + 1}
    BY <1>2, <2>2
  <2>3. QED
    BY <1>5, <2>1, <2>2
<1>8. EvidenceTypes'
  BY <1>1, <1>2, <1>3, <1>6, <1>7 DEF EvidenceIInv, EvidenceTypes, EditRow
<1>9. LockSound' /\ HistoryComplete'
  <2>1. \A d \in Editor : editing'[d].phase = "update" <=> editing[d].phase = "update"
    BY <1>1, <1>3, <1>6
  <2>2. rowLock # NoEditor => rowLock \in Editor /\ rowLock # e
    BY <1>1 DEF EvidenceIInv, EvidenceTypes, LockSound
  <2>3. QED
    BY <1>1, <1>6, <2>1, <2>2 DEF EvidenceIInv, LockSound, HistoryComplete
<1>10. UploadsKept' /\ UnlinkedLast' /\ FilesHere' /\ DecisionsHold'
  BY <1>1, <1>3, <1>6, <1>7 DEF EvidenceIInv, UploadsKept, UnlinkedLast, FilesHere,
                               DecisionsHold, Due
<1>11. LastFileGoes'
  <2>1. record.file \in Nat
    BY DEF EvidenceIInv, EvidenceTypes, RecordRow
  <2>2. record.file <= written' /\ (record.file \notin disk => record.file \notin disk')
    BY <1>2, <1>7, <2>1 DEF EvidenceIInv, LastFileGoes
  <2>3. QED
    BY <1>1, <2>2 DEF EvidenceIInv, LastFileGoes
<1>12. QED
  BY <1>8, <1>9, <1>10, <1>11 DEF EvidenceIInv

\* The row is filed under its lock.
LEMMA SnapshotKeeps ==
  ASSUME EvidenceIInv, NEW e \in Editor, Snapshot(e)
  PROVE  EvidenceIInv'
<1> DEFINE w == [editing[e] EXCEPT !.phase = "update", !.version = record.version,
                                   !.old = record.file]
<1>1. /\ record.exists /\ rowLock = NoEditor /\ rowLock' = e /\ editing[e].phase = "snapshot"
      /\ UNCHANGED <<record, versions, disk, written, held, expired, policy, removal,
                     evidenceFaults, raced>>
  BY DEF Snapshot
<1>2. editing[e] \in EditRow /\ record \in RecordRow
  BY DEF EvidenceIInv, EvidenceTypes
<1>3. /\ w \in EditRow /\ w.phase = "update" /\ w.version = record.version
      /\ w.old = record.file /\ w.file = editing[e].file
  BY <1>2 DEF EditRow, RecordRow
<1>4. editing' = [editing EXCEPT ![e] = w]
  BY DEF Snapshot
<1> HIDE DEF w
<1>5. /\ editing' \in [Editor -> EditRow]
      /\ \A d \in Editor : editing'[d] = IF d = e THEN w ELSE editing[d]
  BY <1>3, <1>4, EditingTyped
<1>6. EvidenceTypes'
  BY <1>1, <1>3, <1>5 DEF EvidenceIInv, EvidenceTypes
<1>7. LockSound'
  BY <1>1, <1>3, <1>5, EvidenceParameters DEF EvidenceIInv, LockSound
<1>8. HistoryComplete' /\ UploadsKept' /\ UnlinkedLast' /\ FilesHere' /\ DecisionsHold'
      /\ LastFileGoes'
  BY <1>1, <1>3, <1>5 DEF EvidenceIInv, HistoryComplete, UploadsKept, UnlinkedLast,
     FilesHere, DecisionsHold, Due, LastFileGoes
<1>9. QED
  BY <1>6, <1>7, <1>8 DEF EvidenceIInv

\* A request ends without an edit.
LEMMA NoEditKeeps ==
  ASSUME EvidenceIInv, NEW e \in Editor, EvidenceNotFound(e) \/ EditFails(e)
  PROVE  EvidenceIInv'
<1>1. /\ UNCHANGED <<record, versions, disk, written, held, expired, policy, removal, raced>>
      /\ editing' = [editing EXCEPT ![e] = NotEditing]
      /\ evidenceFaults' \in {evidenceFaults, evidenceFaults + 1}
  BY DEF EvidenceNotFound, EditFails, EndEdit
<1>2. rowLock' = IF rowLock = e THEN NoEditor ELSE rowLock
  BY DEF EvidenceNotFound, EditFails, EvidenceIInv, LockSound
<1>3. NotEditing \in EditRow /\ NotEditing.phase = "idle" /\ NotEditing.file = 0
  BY DEF NotEditing, EditRow
<1>4. /\ editing' \in [Editor -> EditRow]
      /\ \A d \in Editor : editing'[d] = IF d = e THEN NotEditing ELSE editing[d]
  BY <1>1, <1>3, EditingTyped
<1>5. evidenceFaults \in Nat /\ written \in Nat
  BY DEF EvidenceIInv, EvidenceTypes
<1>6. EvidenceTypes'
  BY <1>1, <1>2, <1>3, <1>4, <1>5 DEF EvidenceIInv, EvidenceTypes
<1>7. LockSound'
  <2>1. NoEditor # e
    BY EvidenceParameters
  <2>2. ASSUME NEW d \in Editor PROVE editing'[d].phase = "update" <=> rowLock' = d
    BY <1>2, <1>3, <1>4, <2>2, EvidenceParameters DEF EvidenceIInv, LockSound
  <2>3. ASSUME rowLock' # NoEditor PROVE rowLock' = rowLock /\ rowLock \in Editor /\ rowLock # e
    BY <1>2, <2>3 DEF EvidenceIInv, EvidenceTypes
  <2>4. QED
    BY <1>1, <1>4, <2>2, <2>3 DEF EvidenceIInv, LockSound
<1>8. UploadsKept'
  BY <1>1, <1>3, <1>4 DEF EvidenceIInv, UploadsKept
<1>9. HistoryComplete' /\ UnlinkedLast' /\ FilesHere' /\ DecisionsHold'
  BY <1>1 DEF EvidenceIInv, HistoryComplete, UnlinkedLast, FilesHere, DecisionsHold, Due
<1>10. LastFileGoes'
  BY <1>1, <1>5 DEF EvidenceIInv, LastFileGoes
<1>11. QED
  BY <1>6, <1>7, <1>8, <1>9, <1>10 DEF EvidenceIInv

\* Both ways for an edit to begin.
LEMMA BeginKeeps ==
  ASSUME EvidenceIInv, NEW e \in Editor, BeginVersion(e) \/ BeginEdit(e)
  PROVE  EvidenceIInv'
<1>1. CASE BeginVersion(e)
  <2> DEFINE w == [NotEditing EXCEPT !.phase = "snapshot", !.file = written + 1]
  <2>1. written + 1 \in Nat
    BY DEF EvidenceIInv, EvidenceTypes
  <2>2. w \in EditRow /\ w.phase = "snapshot" /\ w.file = written + 1
    BY <2>1 DEF EditRow, NotEditing
  <2>3. editing' = [editing EXCEPT ![e] = w]
    BY <1>1 DEF BeginVersion
  <2> HIDE DEF w
  <2>4. QED
    BY <1>1, <2>1, <2>2, <2>3, BeginEditKeeps DEF BeginVersion
<1>2. CASE BeginEdit(e)
  <2> DEFINE w == [NotEditing EXCEPT !.phase = "snapshot"]
  <2>1. w \in EditRow /\ w.phase = "snapshot" /\ w.file = 0
    BY DEF EditRow, NotEditing
  <2>2. editing' = [editing EXCEPT ![e] = w]
    BY <1>2 DEF BeginEdit
  <2> HIDE DEF w
  <2> DEFINE file == 0
  <2>3. /\ file \in Nat /\ w.file = file
        /\ \/ file = 0 /\ written' = written /\ disk' = disk
           \/ file = written + 1 /\ written' = written + 1 /\ disk' = disk \cup {written + 1}
    BY <1>2, <2>1 DEF BeginEdit
  <2> HIDE DEF file
  <2>4. QED
    BY <1>2, <2>1, <2>2, <2>3, BeginEditKeeps DEF BeginEdit
<1>3. QED
  BY <1>1, <1>2

\* The UPDATE and the COMMIT of an edit.
LEMMA CommitKeeps ==
  ASSUME EvidenceIInv, NEW e \in Editor, CommitEdit(e)
  PROVE  EvidenceIInv'
<1> DEFINE file == editing[e].file
<1>1. /\ editing[e].phase = "update" /\ rowLock = e /\ record.exists
      /\ editing[e].version = record.version /\ editing[e].old = record.file
      /\ record \in RecordRow /\ editing[e] \in EditRow /\ file \in Nat /\ file <= written
  BY EvidenceParameters DEF CommitEdit, EvidenceIInv, LockSound, EvidenceTypes, EditRow
<1>2. /\ record' = [record EXCEPT !.version = @ + 1, !.file = IF file = 0 THEN @ ELSE file]
      /\ rowLock' = NoEditor /\ editing' = [editing EXCEPT ![e] = NotEditing]
      /\ expired' \in {expired, FALSE} /\ (file # 0 => expired' = expired)
      /\ raced' = (raced \/ /\ (Due /\ ~Due') \/ file # 0
                            /\ Removing(Sweeper, {"check", "delete"}))
      /\ UNCHANGED <<disk, written, held, policy, removal, evidenceFaults>>
  BY DEF CommitEdit, EndEdit
<1> HIDE DEF file
<1>3. /\ record' \in RecordRow /\ record'.exists /\ record'.version = record.version + 1
      /\ record'.file = IF file = 0 THEN record.file ELSE file
  <2>1. record' = [record EXCEPT !.version = record.version + 1,
                                 !.file = IF file = 0 THEN record.file ELSE file]
    BY <1>2
  <2>2. record.version + 1 \in Nat \ {0}
    BY <1>1 DEF RecordRow
  <2>3. (IF file = 0 THEN record.file ELSE file) \in Nat \ {0}
    BY <1>1 DEF RecordRow
  <2>4. QED
    BY <1>1, <2>1, <2>2, <2>3 DEF RecordRow
<1>4. DOMAIN versions = 1 .. (record.version - 1) /\ record.version \in Nat \ {0}
  BY <1>1 DEF EvidenceIInv, HistoryComplete, RecordRow
<1>5. /\ DOMAIN versions' = DOMAIN versions \cup {record.version}
      /\ \A n \in DOMAIN versions' :
           versions'[n] = IF n = record.version THEN record.file ELSE versions[n]
  BY <1>1, <1>4 DEF CommitEdit, file
<1>6. NotEditing \in EditRow /\ NotEditing.phase = "idle" /\ NotEditing.file = 0
  BY DEF NotEditing, EditRow
<1>7. /\ editing' \in [Editor -> EditRow]
      /\ \A d \in Editor : editing'[d] = IF d = e THEN NotEditing ELSE editing[d]
  BY <1>2, <1>6, EditingTyped
<1>8. file # 0 => file \in disk
  BY <1>1 DEF EvidenceIInv, UploadsKept, file
<1>9. raced' \in BOOLEAN /\ expired' \in BOOLEAN
  BY <1>2 DEF EvidenceIInv, EvidenceTypes
<1>10. EvidenceTypes'
  <2>1. /\ DOMAIN versions' \subseteq Nat \ {0}
        /\ \A n \in DOMAIN versions' : versions'[n] \in Nat \ {0}
    BY <1>1, <1>4, <1>5 DEF EvidenceIInv, EvidenceTypes, RecordRow
  <2>2. \A d \in Editor : editing'[d].file <= written'
    BY <1>2, <1>6, <1>7 DEF EvidenceIInv, EvidenceTypes
  <2>3. QED
    BY <1>2, <1>3, <1>7, <1>9, <2>1, <2>2 DEF EvidenceIInv, EvidenceTypes
<1>11. LockSound'
  BY <1>1, <1>2, <1>6, <1>7, EvidenceParameters DEF EvidenceIInv, LockSound
<1>12. HistoryComplete'
  BY <1>3, <1>4, <1>5 DEF HistoryComplete
<1>13. UploadsKept' /\ UnlinkedLast' /\ FilesHere'
  <2>1. UploadsKept' /\ UnlinkedLast'
    BY <1>1, <1>2, <1>6, <1>7 DEF EvidenceIInv, UploadsKept, UnlinkedLast
  <2>2. record.file \in disk /\ \A n \in DOMAIN versions : versions[n] \in disk
    BY <1>1 DEF EvidenceIInv, FilesHere
  <2>3. disk' = disk
    BY <1>2
  <2>4. record'.file \in disk'
    BY <1>3, <1>8, <2>2, <2>3
  <2>5. ASSUME NEW n \in DOMAIN versions' PROVE versions'[n] \in disk'
    BY <1>5, <2>2, <2>3
  <2>6. QED
    BY <2>1, <2>4, <2>5 DEF FilesHere
<1>14. DecisionsHold'
  <2> SUFFICES ASSUME ~raced' PROVE DecisionsHold'
    BY DEF DecisionsHold
  <2>1. /\ ~raced
        /\ ((Due /\ ~Due') \/ file # 0) => ~Removing(Sweeper, {"check", "delete"})
    BY <1>2
  <2>2. CASE Removing(Sweeper, {"check", "delete"})
    <3>1. (Due => Due') /\ record'.file = record.file
      BY <1>3, <2>1, <2>2
    <3>2. QED
      BY <1>1, <1>2, <2>1, <3>1 DEF EvidenceIInv, DecisionsHold
  <2>3. CASE ~Removing(Sweeper, {"check", "delete"})
    BY <1>2, <2>1, <2>3 DEF EvidenceIInv, DecisionsHold, Removing
  <2>4. QED
    BY <2>2, <2>3
<1>15. LastFileGoes'
  BY <1>1, <1>2, <1>3 DEF EvidenceIInv, LastFileGoes
<1>16. QED
  BY <1>10, <1>11, <1>12, <1>13, <1>14, <1>15 DEF EvidenceIInv

\* Holds and policies come and go, and retention ends.
LEMMA ProtectionKeeps ==
  ASSUME EvidenceIInv, PlaceHold \/ ReleaseHold \/ RetentionEnds \/ PolicyChanges
  PROVE  EvidenceIInv'
<1>1. UNCHANGED <<record, versions, disk, written, editing, rowLock, removal, evidenceFaults>>
  BY DEF PlaceHold, ReleaseHold, RetentionEnds, PolicyChanges
<1>2. /\ held' \in BOOLEAN /\ expired' \in BOOLEAN /\ raced' \in BOOLEAN /\ (raced => raced')
      /\ policy' \in {"none", "younger", "older"}
  BY DEF PlaceHold, ReleaseHold, RetentionEnds, PolicyChanges, EvidenceIInv, EvidenceTypes
<1>3. EvidenceTypes'
  BY <1>1, <1>2 DEF EvidenceIInv, EvidenceTypes
<1>4. LockSound' /\ HistoryComplete' /\ UploadsKept' /\ UnlinkedLast' /\ FilesHere'
  BY <1>1 DEF EvidenceIInv, LockSound, HistoryComplete, UploadsKept, UnlinkedLast, FilesHere
<1>5. DecisionsHold'
  <2>1. /\ Due => Due' \/ raced' = (raced \/ Removing(Sweeper, {"check", "delete"}))
        /\ held' = held \/ ~held'
           \/ raced' = (raced \/ Removing(Remover, {"delete"}))
    <3>1. CASE PlaceHold \/ ReleaseHold \/ RetentionEnds
      BY <3>1 DEF PlaceHold, ReleaseHold, RetentionEnds, Due, EvidenceIInv, EvidenceTypes
    <3>2. CASE PolicyChanges
      BY <3>2 DEF PolicyChanges
    <3>3. QED
      BY <3>1, <3>2
  <2> SUFFICES ASSUME ~raced' PROVE DecisionsHold'
    BY DEF DecisionsHold
  <2>2. ASSUME NEW r \in Remover, removal[r].phase = "delete" PROVE ~held'
    BY <1>2, <2>1, <2>2 DEF EvidenceIInv, DecisionsHold, Removing
  <2>3. ASSUME NEW r \in Sweeper, removal[r].phase \in {"check", "delete"}
        PROVE  Due' /\ (record.exists => removal[r].file = record.file)
    BY <1>2, <2>1, <2>3 DEF EvidenceIInv, DecisionsHold, Removing
  <2>4. QED
    BY <1>1, <2>2, <2>3 DEF DecisionsHold
<1>6. LastFileGoes'
  BY <1>1, <1>2 DEF EvidenceIInv, LastFileGoes
<1>7. QED
  BY <1>3, <1>4, <1>5, <1>6 DEF EvidenceIInv
-----------------------------------------------------------------------------
\* A removal moves without touching the evidence.
LEMMA RemovalMoves ==
  ASSUME EvidenceIInv, NEW r \in Remover, NEW w \in RemovalRow,
         removal' = [removal EXCEPT ![r] = w],
         evidenceFaults' \in Nat, evidenceFaults' = 0 => evidenceFaults = 0,
         UNCHANGED <<record, versions, disk, written, held, expired, policy, editing, rowLock, raced>>,
         removal[r].phase = "unlink" => evidenceFaults' # 0,
         w.phase # "unlink",
         ~raced =>
           /\ w.phase = "delete" => ~held
           /\ r \in Sweeper /\ w.phase \in {"check", "delete"} =>
                Due /\ (record.exists => w.file = record.file)
  PROVE  EvidenceIInv'
<1>1. /\ removal' \in [Remover -> RemovalRow]
      /\ \A q \in Remover : removal'[q] = IF q = r THEN w ELSE removal[q]
  BY DEF EvidenceIInv, EvidenceTypes
<1>2. EvidenceTypes'
  BY <1>1 DEF EvidenceIInv, EvidenceTypes
<1>3. LockSound' /\ HistoryComplete' /\ UploadsKept' /\ FilesHere'
  BY DEF EvidenceIInv, LockSound, HistoryComplete, UploadsKept, FilesHere
<1>4. UnlinkedLast' /\ DecisionsHold'
  BY <1>1 DEF EvidenceIInv, UnlinkedLast, DecisionsHold, Due, Remover
<1>5. LastFileGoes'
  BY <1>1 DEF EvidenceIInv, LastFileGoes
<1>6. QED
  BY <1>2, <1>3, <1>4, <1>5 DEF EvidenceIInv

\* A removal begins, looks for holds, or dies.
LEMMA BeforeRemoval ==
  ASSUME EvidenceIInv, NEW r \in Remover,
         BeginRemoval(r) \/ CheckHold(r) \/ RemovalDies(r)
  PROVE  EvidenceIInv'
<1>1. /\ removal[r] \in RemovalRow /\ record \in RecordRow /\ evidenceFaults \in Nat
      /\ NotRemoving \in RemovalRow /\ NotRemoving.phase = "idle"
  BY DEF EvidenceIInv, EvidenceTypes, NotRemoving, RemovalRow
<1>2. CASE BeginRemoval(r)
  <2> DEFINE w == [phase |-> "check", file |-> IF r \in Sweeper THEN record.file ELSE 0]
  <2>1. /\ w \in RemovalRow /\ w.phase = "check" /\ (r \in Sweeper => w.file = record.file)
        /\ removal' = [removal EXCEPT ![r] = w]
        /\ r \in Sweeper => Due
        /\ removal[r].phase = "idle"
    BY <1>1, <1>2 DEF BeginRemoval, RemovalRow, RecordRow
  <2> HIDE DEF w
  <2>2. QED
    BY <1>1, <1>2, <2>1, RemovalMoves DEF BeginRemoval
<1>3. CASE CheckHold(r) /\ held
  <2>1. removal' = [removal EXCEPT ![r] = NotRemoving] /\ removal[r].phase = "check"
    BY <1>3 DEF CheckHold, EndRemoval
  <2>2. QED
    BY <1>1, <1>3, <2>1, RemovalMoves DEF CheckHold
<1>4. CASE CheckHold(r) /\ ~held
  <2> DEFINE w == [removal[r] EXCEPT !.phase = "delete"]
  <2>1. /\ w \in RemovalRow /\ w.phase = "delete" /\ w.file = removal[r].file
        /\ removal' = [removal EXCEPT ![r] = w]
        /\ removal[r].phase = "check"
    BY <1>1, <1>4 DEF CheckHold, RemovalRow
  <2>2. ~raced /\ r \in Sweeper => Due /\ (record.exists => w.file = record.file)
    BY <2>1 DEF EvidenceIInv, DecisionsHold
  <2> HIDE DEF w
  <2>3. QED
    BY <1>1, <1>4, <2>1, <2>2, RemovalMoves DEF CheckHold
<1>5. CASE RemovalDies(r)
  <2>1. /\ removal' = [removal EXCEPT ![r] = NotRemoving]
        /\ evidenceFaults' \in Nat /\ evidenceFaults' # 0
    BY <1>1, <1>5 DEF RemovalDies, EndRemoval
  <2>2. QED
    BY <1>1, <1>5, <2>1, RemovalMoves DEF RemovalDies
<1>6. QED
  BY <1>2, <1>3, <1>4, <1>5

\* The row is deleted.
LEMMA DeleteKeeps ==
  ASSUME EvidenceIInv, NEW r \in Remover, DeleteRow(r)
  PROVE  EvidenceIInv'
<1> DEFINE w == IF r \in Sweeper THEN [removal[r] EXCEPT !.phase = "unlink"]
                ELSE IF record.exists THEN [phase |-> "unlink", file |-> record.file]
                ELSE NotRemoving
<1>1. /\ removal[r] \in RemovalRow /\ record \in RecordRow
      /\ NotRemoving \in RemovalRow /\ NotRemoving.phase = "idle"
  BY DEF EvidenceIInv, EvidenceTypes, NotRemoving, RemovalRow
<1>2. /\ w \in RemovalRow /\ w.phase \in {"unlink", "idle"}
      /\ r \in Sweeper => w.phase = "unlink" /\ w.file = removal[r].file
      /\ r \notin Sweeper /\ record.exists => w.phase = "unlink" /\ w.file = record.file
  BY <1>1 DEF RemovalRow, RecordRow
<1>3. removal' = [removal EXCEPT ![r] = w] /\ removal[r].phase = "delete"
  BY DEF DeleteRow, EndRemoval
<1> HIDE DEF w
<1>4. /\ record' = [record EXCEPT !.exists = FALSE] /\ rowLock = NoEditor /\ versions' = <<>>
      /\ UNCHANGED <<disk, written, held, expired, policy, editing, rowLock, evidenceFaults, raced>>
  BY DEF DeleteRow
<1>5. /\ record' \in RecordRow /\ ~record'.exists /\ record'.file = record.file
      /\ DOMAIN versions' = {}
  <2>1. DOMAIN versions' = {}
    BY <1>4
  <2>2. record' = [record EXCEPT !.exists = FALSE]
    BY <1>4
  <2>3. QED
    BY <1>1, <2>1, <2>2 DEF RecordRow
<1>6. /\ removal' \in [Remover -> RemovalRow]
      /\ \A q \in Remover : removal'[q] = IF q = r THEN w ELSE removal[q]
  BY <1>2, <1>3 DEF EvidenceIInv, EvidenceTypes
<1>7. EvidenceTypes'
  BY <1>4, <1>5, <1>6 DEF EvidenceIInv, EvidenceTypes
<1>8. LockSound' /\ HistoryComplete' /\ UploadsKept' /\ UnlinkedLast' /\ FilesHere'
  BY <1>4, <1>5 DEF EvidenceIInv, LockSound, HistoryComplete, UploadsKept, UnlinkedLast,
                    FilesHere
<1>9. DecisionsHold'
  BY <1>2, <1>4, <1>5, <1>6 DEF EvidenceIInv, DecisionsHold, Due, Remover
<1>10. LastFileGoes'
  <2> SUFFICES ASSUME ~raced, evidenceFaults = 0, record.file \in disk
               PROVE  \E q \in Remover :
                        removal'[q].phase = "unlink" /\ removal'[q].file = record.file
    BY <1>4, <1>5 DEF EvidenceIInv, LastFileGoes
  <2>1. CASE record.exists
    BY <1>2, <1>3, <1>6, <2>1 DEF EvidenceIInv, DecisionsHold
  <2>2. CASE ~record.exists
    BY <1>3, <1>6, <2>2 DEF EvidenceIInv, LastFileGoes
  <2>3. QED
    BY <1>1, <2>1, <2>2 DEF RecordRow
<1>11. QED
  BY <1>7, <1>8, <1>9, <1>10 DEF EvidenceIInv

\* A removed record's file is unlinked.
LEMMA UnlinkKeeps ==
  ASSUME EvidenceIInv, NEW r \in Remover, UnlinkFile(r)
  PROVE  EvidenceIInv'
<1>1. /\ removal[r].phase = "unlink" /\ ~record.exists
      /\ disk' = disk \ {removal[r].file}
      /\ removal' = [removal EXCEPT ![r] = NotRemoving]
      /\ UNCHANGED <<record, versions, written, held, expired, policy, editing, rowLock,
                     evidenceFaults, raced>>
  BY DEF UnlinkFile, EndRemoval, EvidenceIInv, UnlinkedLast
<1>2. NotRemoving \in RemovalRow /\ NotRemoving.phase = "idle"
  BY DEF NotRemoving, RemovalRow
<1>3. /\ removal' \in [Remover -> RemovalRow]
      /\ \A q \in Remover : removal'[q] = IF q = r THEN NotRemoving ELSE removal[q]
  BY <1>1, <1>2 DEF EvidenceIInv, EvidenceTypes
<1>4. EvidenceTypes'
  BY <1>1, <1>3 DEF EvidenceIInv, EvidenceTypes
<1>5. LockSound' /\ HistoryComplete' /\ UploadsKept' /\ UnlinkedLast' /\ FilesHere'
  BY <1>1 DEF EvidenceIInv, LockSound, HistoryComplete, UploadsKept, UnlinkedLast, FilesHere
<1>6. DecisionsHold'
  BY <1>1, <1>2, <1>3 DEF EvidenceIInv, DecisionsHold, Due, Remover
<1>7. LastFileGoes'
  BY <1>1, <1>3 DEF EvidenceIInv, LastFileGoes
<1>8. QED
  BY <1>4, <1>5, <1>6, <1>7 DEF EvidenceIInv

-----------------------------------------------------------------------------
\* Every step keeps the invariant.
LEMMA EvidenceStep == EvidenceIInv /\ [EvidenceNext]_evidenceVars => EvidenceIInv'
<1> SUFFICES ASSUME EvidenceIInv, [EvidenceNext]_evidenceVars PROVE EvidenceIInv'
  OBVIOUS
<1>1. ASSUME NEW e \in Editor,
             BeginVersion(e) \/ BeginEdit(e) \/ Snapshot(e)
               \/ EvidenceNotFound(e) \/ CommitEdit(e) \/ EditFails(e)
      PROVE  EvidenceIInv'
  BY <1>1, BeginKeeps, SnapshotKeeps, NoEditKeeps, CommitKeeps
<1>2. ASSUME NEW r \in Remover,
             BeginRemoval(r) \/ CheckHold(r) \/ DeleteRow(r)
               \/ UnlinkFile(r) \/ RemovalDies(r)
      PROVE  EvidenceIInv'
  BY <1>2, BeforeRemoval, DeleteKeeps, UnlinkKeeps
<1>3. CASE PlaceHold \/ ReleaseHold \/ RetentionEnds \/ PolicyChanges
  BY <1>3, ProtectionKeeps
<1>4. CASE UNCHANGED evidenceVars
  BY <1>4 DEF evidenceVars, EvidenceIInv, EvidenceTypes, LockSound, HistoryComplete, UploadsKept,
     UnlinkedLast, FilesHere, DecisionsHold, Due, LastFileGoes
<1>5. QED
  BY <1>1, <1>2, <1>3, <1>4 DEF EvidenceNext

\* The invariant holds of every state.
LEMMA EvidenceInvariance == EvidenceSpec => []EvidenceIInv
<1>1. QED
  BY EvidenceInitially, EvidenceStep, PTL DEF EvidenceSpec

\* The model's states have their types: no request has a file in hand that was not
\* uploaded, and the row is locked by who is about to update it.
THEOREM EvidenceTyped == EvidenceSpec => []EvidenceTypeOK
<1>1. ASSUME EvidenceIInv PROVE EvidenceTypeOK
  <2>1. EvidenceTypes /\ LockSound
    BY <1>1 DEF EvidenceIInv
  <2>2. editing \in [Editor -> [phase : {"idle", "snapshot", "update"},
                                file : 0..written, version : Nat, old : Nat]]
    <3>1. ASSUME NEW e \in Editor
          PROVE  editing[e] \in [phase : {"idle", "snapshot", "update"},
                                 file : 0..written, version : Nat, old : Nat]
      <4>1. editing[e] \in EditRow /\ editing[e].file <= written /\ written \in Nat
        BY <2>1 DEF EvidenceTypes
      <4>2. editing[e].file \in 0..written
        BY <4>1 DEF EditRow
      <4>3. QED
        BY <4>1, <4>2 DEF EditRow
    <3>2. DOMAIN editing = Editor /\ editing = [e \in Editor |-> editing[e]]
      BY <2>1 DEF EvidenceTypes
    <3>3. QED
      BY <3>1, <3>2
  <2>3. Range(versions) \subseteq Nat \ {0}
    BY <2>1 DEF EvidenceTypes, Range
  <2>4. QED
    BY <2>1, <2>2, <2>3 DEF EvidenceTypes, LockSound, EvidenceTypeOK, RecordRow, RemovalRow
<1>2. QED
  BY <1>1, EvidenceInvariance, PTL

\* The history of an existing record is complete, for every number of edits, removals
\* and failures.
THEOREM HistoriesComplete == EvidenceSpec => []HistoryComplete
<1>1. EvidenceIInv => HistoryComplete
  BY DEF EvidenceIInv
<1>2. QED
  BY <1>1, EvidenceInvariance, PTL

\* An existing record's files are on disk, for every number of edits, removals and
\* failures.
THEOREM FilesStay == EvidenceSpec => []FilesKept
<1>1. EvidenceIInv => FilesKept
  <2> SUFFICES ASSUME EvidenceIInv, record.exists
               PROVE  {record.file} \cup Range(versions) \subseteq disk
    BY DEF FilesKept
  <2>1. record.file \in disk /\ \A n \in DOMAIN versions : versions[n] \in disk
    BY DEF EvidenceIInv, FilesHere
  <2>2. QED
    BY <2>1 DEF Range
<1>2. QED
  BY <1>1, EvidenceInvariance, PTL

\* The file of a removed record goes with it, for every number of removals.
THEOREM RemovedFilesGo == EvidenceSpec => []RemovedFileIsGone
<1>1. EvidenceIInv => RemovedFileIsGone
  BY DEF EvidenceIInv, LastFileGoes, RemovedFileIsGone
<1>2. QED
  BY <1>1, EvidenceInvariance, PTL

\* A hold protects a record from every removal, and from the cleanup a retention that
\* runs, its own and the policy's, as long as they begin before the removal has looked:
\* for every number of removals and every change of the policy.
THEOREM ProtectionHolds == EvidenceSpec => KeptWhileProtected
<1> DEFINE Protected ==
      ~raced /\ record.exists /\ ~record'.exists =>
        /\ ~held
        /\ (\E r \in Sweeper : removal[r].phase = "delete" /\ removal'[r].phase = "unlink")
             => Due
<1>1. EvidenceIInv /\ [EvidenceNext]_evidenceVars => [Protected]_evidenceVars
  <2> SUFFICES ASSUME EvidenceIInv, EvidenceNext, ~raced, record.exists, ~record'.exists
               PROVE  /\ ~held
                      /\ (\E r \in Sweeper :
                            removal[r].phase = "delete" /\ removal'[r].phase = "unlink")
                           => Due
    OBVIOUS
  <2>1. ASSUME NEW e \in Editor, CommitEdit(e) PROVE FALSE
    BY <2>1 DEF CommitEdit, EvidenceIInv, EvidenceTypes, RecordRow
  <2>2. \E r \in Remover : DeleteRow(r)
    BY <2>1 DEF EvidenceNext, BeginVersion, BeginEdit, Snapshot, EvidenceNotFound, EditFails,
       BeginRemoval, CheckHold, UnlinkFile, RemovalDies, PlaceHold, ReleaseHold, RetentionEnds,
       PolicyChanges
  <2>3. ~held
    BY <2>2 DEF DeleteRow, EvidenceIInv, DecisionsHold
  <2>4. ASSUME NEW r \in Sweeper, removal[r].phase = "delete" PROVE Due
    BY <2>4 DEF EvidenceIInv, DecisionsHold
  <2>5. QED
    BY <2>3, <2>4
<1>2. QED
  BY <1>1, EvidenceInvariance, PTL DEF EvidenceSpec, KeptWhileProtected

-----------------------------------------------------------------------------
(***************************************************************************)
(* EvidenceCollection: rules that stay scheduled and run once              *)
(***************************************************************************)

CollectRow ==
  [kind : {"none", "patch", "now", "scheduled"},
   phase : {"idle", "write", "collect", "success", "error"}, rows : SUBSET Rule,
   current : Rule \cup {NoRule}, seen : RuleRow, patch : Patch]

CollectTyped ==
  /\ rules \in [Rule -> RuleRow]
  /\ collecting \in [Collector -> CollectRow]
  /\ stored \in [Rule -> Nat] /\ collectFailures \in Nat /\ collectOverlap \in BOOLEAN

\* What a request has in hand, by its kind.
InHandSound(w) ==
  /\ w.phase = "idle" <=> w.rows = {}
  /\ w.phase = "write" => w.kind = "patch"
  /\ w.phase \in {"collect", "success", "error"} => w.kind \in {"now", "scheduled"}
  /\ w.phase \in {"success", "error"} => w.current \in w.rows
  /\ w.kind = "scheduled" => w.seen.schedule = "timed"
  /\ w.kind # "scheduled" => \A q, r \in w.rows : q = r

\* What it has read is what is there; what it has claimed is due.
UpToDate(w) ==
  \A r \in w.rows :
    IF w.kind = "scheduled" THEN rules[r].next = "due" ELSE w.seen = rules[r]

\* A run of the rule has ended, and is about to be written down.
JustRun(r) ==
  \E c \in Collector : /\ collecting[c].kind = "scheduled" /\ collecting[c].current = r
                       /\ collecting[c].phase \in {"success", "error"}

\* As long as requests do not overlap: there is one, it is up to date, and what is
\* due and not about to be moved on has not been run but by those that died.
InOrder ==
  /\ \A c, d \in Collector :
       collecting[c].phase # "idle" /\ collecting[d].phase # "idle" => c = d
  /\ \A c \in Collector : UpToDate(collecting[c])
  /\ \A r \in Rule :
       /\ rules[r].schedule = "timed" => rules[r].next # "none"
       /\ stored[r] <= 1 + collectFailures
       /\ rules[r].next = "due" /\ ~JustRun(r) => stored[r] <= collectFailures

CollectIInv ==
  /\ CollectTyped
  /\ \A c \in Collector : InHandSound(collecting[c])
  /\ ~collectOverlap => InOrder

\* The request that is none.
LEMMA IdleCollector ==
  /\ NotCollecting \in CollectRow /\ InHandSound(NotCollecting)
  /\ NotCollecting.phase = "idle" /\ NotCollecting.rows = {} /\ UpToDate(NotCollecting)
  /\ NotCollecting.seen = Timed /\ Timed \in RuleRow /\ Timed.schedule = "timed"
BY DEF NotCollecting, CollectRow, InHandSound, UpToDate, Timed, RuleRow, Patch, Unpatched

\* Rules start with a time or without a schedule, and nothing has been collected.
LEMMA CollectInitially == CollectInit => CollectIInv
<1> SUFFICES ASSUME CollectInit PROVE CollectIInv
  OBVIOUS
<1> DEFINE manual == [Timed EXCEPT !.schedule = "manual", !.next = "none"]
<1>1. /\ Timed \in RuleRow /\ Timed.next = "later"
      /\ manual \in RuleRow /\ manual.schedule = "manual" /\ manual.next = "none"
  BY DEF Timed, RuleRow
<1>2. /\ rules \in [Rule -> {Timed, manual}] /\ collecting = [c \in Collector |-> NotCollecting]
      /\ stored = [r \in Rule |-> 0] /\ collectFailures = 0 /\ collectOverlap = FALSE
  BY DEF CollectInit
<1> HIDE DEF manual
<1>3. CollectTyped
  BY <1>1, <1>2, IdleCollector DEF CollectTyped
<1>4. InOrder
  BY <1>1, <1>2, IdleCollector DEF InOrder
<1>5. QED
  BY <1>2, <1>3, <1>4, IdleCollector DEF CollectIInv

\* A request begins with what it has read or claimed.
LEMMA CollectorStarts ==
  ASSUME CollectIInv, NEW c \in Collector, NEW w \in CollectRow, StartCollecting(c, w),
         InHandSound(w), w.phase \in {"write", "collect"}, UpToDate(w)
  PROVE  CollectIInv'
<1>1. /\ UNCHANGED <<rules, stored, collectFailures>> /\ collecting[c].phase = "idle"
      /\ collecting' = [collecting EXCEPT ![c] = w]
      /\ collectOverlap' \in BOOLEAN
      /\ ~collectOverlap' => ~collectOverlap /\ \A d \in Collector : collecting[d].phase = "idle"
  BY DEF StartCollecting
<1>2. \A d \in Collector : collecting'[d] = IF d = c THEN w ELSE collecting[d]
  BY <1>1 DEF CollectIInv, CollectTyped
<1>3. CollectTyped'
  BY <1>1 DEF CollectIInv, CollectTyped
<1>4. \A d \in Collector : InHandSound(collecting'[d])
  BY <1>2 DEF CollectIInv
<1>5. ASSUME ~collectOverlap' PROVE InOrder'
  <2>1. InOrder /\ \A d \in Collector : collecting[d].phase = "idle"
    BY <1>1, <1>5 DEF CollectIInv
  <2>2. \A d \in Collector : UpToDate(collecting'[d])
    BY <1>2, <2>1 DEF InOrder
  <2>3. \A d \in Collector : UpToDate(collecting[d])'
    BY <1>1, <2>2 DEF UpToDate
  <2>4. \A r \in Rule : ~JustRun(r)
    BY <2>1 DEF JustRun
  <2>5. QED
    BY <1>1, <1>2, <2>1, <2>3, <2>4 DEF InOrder
<1>6. QED
  BY <1>3, <1>4, <1>5 DEF CollectIInv, InHandSound

\* PATCH and POST run read one rule; a scheduled run claims those that are due.
LEMMA BeginStep ==
  ASSUME CollectIInv, NEW c \in Collector,
         \/ \E r \in Rule : RunNow(c, r) \/ \E patch \in Patch : PatchRead(c, r, patch)
         \/ ClaimRules(c)
  PROVE  CollectIInv'
<1>1. rules \in [Rule -> RuleRow]
  BY DEF CollectIInv, CollectTyped
<1>2. ASSUME NEW r \in Rule, RunNow(c, r) PROVE CollectIInv'
  <2> DEFINE w == [NotCollecting EXCEPT !.kind = "now", !.phase = "collect",
                     !.rows = {r}, !.seen = rules[r]]
  <2>1. /\ w \in CollectRow /\ w.kind = "now" /\ w.phase = "collect" /\ w.rows = {r}
        /\ w.seen = rules[r]
    BY <1>1, IdleCollector DEF CollectRow
  <2>2. StartCollecting(c, w)
    BY <1>2 DEF RunNow
  <2> HIDE DEF w
  <2>3. InHandSound(w) /\ UpToDate(w)
    BY <2>1 DEF InHandSound, UpToDate
  <2>4. QED
    BY <2>1, <2>2, <2>3, CollectorStarts
<1>3. ASSUME NEW r \in Rule, NEW patch \in Patch, PatchRead(c, r, patch) PROVE CollectIInv'
  <2> DEFINE w == [NotCollecting EXCEPT !.kind = "patch", !.phase = "write",
                     !.rows = {r}, !.seen = rules[r], !.patch = patch]
  <2>1. /\ w \in CollectRow /\ w.kind = "patch" /\ w.phase = "write" /\ w.rows = {r}
        /\ w.seen = rules[r]
    BY <1>1, IdleCollector DEF CollectRow
  <2>2. StartCollecting(c, w)
    BY <1>3 DEF PatchRead
  <2> HIDE DEF w
  <2>3. InHandSound(w) /\ UpToDate(w)
    BY <2>1 DEF InHandSound, UpToDate
  <2>4. QED
    BY <2>1, <2>2, <2>3, CollectorStarts
<1>4. CASE ClaimRules(c)
  <2> DEFINE w == [NotCollecting EXCEPT !.kind = "scheduled", !.phase = "collect",
                     !.rows = DueRules]
  <2>1. DueRules \subseteq Rule /\ \A r \in DueRules : rules[r].next = "due"
    BY DEF DueRules
  <2>2. /\ w \in CollectRow /\ w.kind = "scheduled" /\ w.phase = "collect"
        /\ w.rows = DueRules /\ w.seen = Timed
    BY <2>1, IdleCollector DEF CollectRow
  <2>3. StartCollecting(c, w) /\ DueRules # {}
    BY <1>4 DEF ClaimRules
  <2> HIDE DEF w
  <2>4. InHandSound(w) /\ UpToDate(w)
    BY <2>1, <2>2, <2>3, IdleCollector DEF InHandSound, UpToDate
  <2>5. QED
    BY <2>2, <2>3, <2>4, CollectorStarts
<1>5. QED
  BY <1>2, <1>3, <1>4

\* A PATCH leaves a rule with a schedule a time, and moves none back to what is due.
LEMMA PatchedNextIsSound ==
  ASSUME NEW seen \in RuleRow, NEW patch \in Patch,
         seen.schedule = "timed" => seen.next # "none"
  PROVE  LET schedule == IF patch.schedule = "same" THEN seen.schedule ELSE patch.schedule
             next == PatchedNext(seen, patch)
         IN  /\ next \in {"none", "due", "later"} /\ schedule \in {"manual", "timed"}
             /\ schedule = "timed" => next # "none"
             /\ next = "due" => seen.next = "due"
BY DEF PatchedNext, NextRunAt, RuleRow, Patch

\* PATCH writes the rule as it read it, with what the client named.
LEMMA PatchWriteStep ==
  ASSUME CollectIInv, NEW c \in Collector, PatchWrite(c)
  PROVE  CollectIInv'
<1> DEFINE w == collecting[c]
<1>1. /\ w.phase = "write" /\ w \in CollectRow /\ InHandSound(w)
      /\ collecting' = [collecting EXCEPT ![c] = NotCollecting]
      /\ UNCHANGED <<stored, collectFailures, collectOverlap>>
  BY DEF PatchWrite, StopCollecting, CollectIInv, CollectTyped
<1>2. PICK r \in w.rows :
        rules' = [rules EXCEPT
          ![r] = [schedule |-> IF w.patch.schedule = "same" THEN @.schedule ELSE w.patch.schedule,
                  enabled |-> IF w.patch.enabled = "same" THEN @.enabled ELSE w.patch.enabled = "on",
                  next |-> PatchedNext(w.seen, w.patch)]]
  BY DEF PatchWrite
<1> DEFINE schedule == IF w.patch.schedule = "same" THEN rules[r].schedule ELSE w.patch.schedule
           enabled == IF w.patch.enabled = "same" THEN rules[r].enabled
                      ELSE w.patch.enabled = "on"
           next == PatchedNext(w.seen, w.patch)
<1>3. /\ r \in Rule /\ rules \in [Rule -> RuleRow] /\ w.patch \in Patch /\ w.seen \in RuleRow
      /\ rules[r] \in RuleRow
  BY <1>1, <1>2 DEF CollectIInv, CollectTyped, CollectRow
<1>4. schedule \in {"manual", "timed"} /\ enabled \in BOOLEAN /\ next \in {"none", "due", "later"}
  BY <1>3 DEF Patch, RuleRow, PatchedNext, NextRunAt
<1>5. /\ rules' \in [Rule -> RuleRow] /\ rules'[r].schedule = schedule /\ rules'[r].next = next
      /\ \A q \in Rule \ {r} : rules'[q] = rules[q]
  <2> DEFINE row == [schedule |-> schedule, enabled |-> enabled, next |-> next]
  <2>1. rules' = [rules EXCEPT ![r] = row]
    BY <1>2, <1>3 DEF RuleRow
  <2>2. row \in RuleRow /\ row.schedule = schedule /\ row.next = next
    BY <1>4 DEF RuleRow
  <2> HIDE DEF row
  <2>3. QED
    BY <1>3, <2>1, <2>2
<1> HIDE DEF schedule, enabled, next
<1>6. \A d \in Collector : collecting'[d] = IF d = c THEN NotCollecting ELSE collecting[d]
  BY <1>1 DEF CollectIInv, CollectTyped
<1>7. CollectTyped'
  BY <1>1, <1>5, IdleCollector DEF CollectIInv, CollectTyped
<1>8. \A d \in Collector : InHandSound(collecting'[d])
  BY <1>6, IdleCollector DEF CollectIInv
<1>9. ASSUME ~collectOverlap' PROVE InOrder'
  <2>1. InOrder
    BY <1>1, <1>9 DEF CollectIInv
  <2>2. w.seen = rules[r]
    BY <1>1, <1>2, <2>1 DEF InOrder, UpToDate, InHandSound
  <2>3. /\ schedule = "timed" => next # "none"
        /\ next = "due" => rules[r].next = "due"
    BY <1>3, <2>1, <2>2, PatchedNextIsSound DEF InOrder, schedule, next
  <2>4. \A d \in Collector \ {c} : collecting[d].phase = "idle" /\ collecting[d].rows = {}
    BY <1>1, <2>1 DEF InOrder, CollectIInv, InHandSound
  <2>5. \A d \in Collector : UpToDate(collecting[d])'
    BY <1>6, <2>4, IdleCollector DEF UpToDate
  <2>6. \A q \in Rule : ~JustRun(q)
    BY <1>1, <2>4 DEF JustRun
  <2>7. \A d \in Collector : collecting'[d].phase = "idle"
    BY <1>6, <2>4, IdleCollector
  <2>8. ASSUME NEW q \in Rule
        PROVE  /\ rules'[q].schedule = "timed" => rules'[q].next # "none"
               /\ stored'[q] <= 1 + collectFailures'
               /\ rules'[q].next = "due" /\ ~JustRun(q)' => stored'[q] <= collectFailures'
    BY <1>1, <1>5, <2>1, <2>3, <2>6 DEF InOrder
  <2>9. QED
    BY <2>5, <2>7, <2>8 DEF InOrder
<1>10. QED
  BY <1>7, <1>8, <1>9 DEF CollectIInv, InHandSound

\* A source is collected, or it fails: a rule that is due has been collected only by
\* runs that died.
LEMMA CollectRuleStep ==
  ASSUME CollectIInv, NEW c \in Collector, CollectRule(c)
  PROVE  CollectIInv'
<1>1. PICK r \in collecting[c].rows, ok \in {TRUE, ~CollectFaults} :
        /\ collecting' = [collecting EXCEPT ![c].phase = IF ok THEN "success" ELSE "error",
                                            ![c].current = r]
        /\ stored' = [stored EXCEPT ![r] =
             IF ok /\ collecting[c].kind = "scheduled" THEN Capped(@ + 1) ELSE @]
  BY DEF CollectRule
<1> DEFINE p == IF ok THEN "success" ELSE "error"
           w == [collecting[c] EXCEPT !.phase = p, !.current = r]
           n == IF ok /\ collecting[c].kind = "scheduled" THEN Capped(stored[r] + 1)
                ELSE stored[r]
<1>2. /\ UNCHANGED <<rules, collectFailures, collectOverlap>> /\ collecting[c].phase = "collect"
      /\ collecting[c] \in CollectRow /\ InHandSound(collecting[c]) /\ r \in Rule
      /\ stored \in [Rule -> Nat] /\ collectFailures \in Nat
  BY DEF CollectRule, CollectIInv, CollectTyped, CollectRow
<1>3. p \in {"success", "error"}
  OBVIOUS
<1>4. collecting' = [collecting EXCEPT ![c] = w]
  BY <1>1, <1>2 DEF CollectRow
<1> HIDE DEF p
<1>5. /\ w \in CollectRow /\ w.phase = p /\ w.current = r /\ w.rows = collecting[c].rows
      /\ w.kind = collecting[c].kind /\ w.seen = collecting[c].seen
  BY <1>2, <1>3 DEF CollectRow
<1> HIDE DEF w
<1>6. n \in Nat /\ n <= stored[r] + 1 /\ (collecting[c].kind # "scheduled" => n = stored[r])
  BY <1>2, CollectParameters DEF Capped
<1>7. stored' = [stored EXCEPT ![r] = n]
  BY <1>1
<1> HIDE DEF n
<1>8. \A d \in Collector : collecting'[d] = IF d = c THEN w ELSE collecting[d]
  BY <1>4 DEF CollectIInv, CollectTyped
<1>9. CollectTyped'
  BY <1>2, <1>4, <1>5, <1>6, <1>7 DEF CollectIInv, CollectTyped
<1>10. InHandSound(w)
  BY <1>2, <1>3, <1>5 DEF InHandSound
<1>11. \A d \in Collector : InHandSound(collecting'[d])
  BY <1>8, <1>10 DEF CollectIInv
<1>12. ASSUME ~collectOverlap' PROVE InOrder'
  <2>1. InOrder
    BY <1>2, <1>12 DEF CollectIInv
  <2>2. \A d \in Collector \ {c} : collecting[d].phase = "idle"
    BY <1>2, <2>1 DEF InOrder
  <2>3. \A q \in Rule : ~JustRun(q)
    BY <1>2, <2>2 DEF JustRun
  <2>4. \A d \in Collector : UpToDate(collecting'[d])
    BY <1>5, <1>8, <2>1 DEF InOrder, UpToDate
  <2>5. \A d \in Collector : UpToDate(collecting[d])'
    BY <1>2, <2>4 DEF UpToDate
  <2>6. collecting[c].kind = "scheduled" => stored[r] <= collectFailures /\ JustRun(r)'
    BY <1>2, <1>3, <1>5, <1>8, <2>1, <2>3 DEF InOrder, UpToDate, JustRun
  <2>7. ASSUME NEW q \in Rule
        PROVE  /\ rules'[q].schedule = "timed" => rules'[q].next # "none"
               /\ stored'[q] <= 1 + collectFailures'
               /\ rules'[q].next = "due" /\ ~JustRun(q)' => stored'[q] <= collectFailures'
    <3>1. CASE q # r
      BY <1>2, <1>7, <2>1, <2>3, <3>1 DEF InOrder
    <3>2. CASE q = r /\ collecting[c].kind # "scheduled"
      BY <1>2, <1>6, <1>7, <2>1, <2>3, <3>2 DEF InOrder
    <3>3. CASE q = r /\ collecting[c].kind = "scheduled"
      BY <1>2, <1>6, <1>7, <2>1, <2>6, <3>3 DEF InOrder
    <3>4. QED
      BY <3>1, <3>2, <3>3
  <2>8. QED
    BY <1>8, <2>2, <2>5, <2>7 DEF InOrder
<1>13. QED
  BY <1>9, <1>11, <1>12 DEF CollectIInv, InHandSound

\* The run is written down: the rule is no longer due.
LEMMA FinishRuleStep ==
  ASSUME CollectIInv, NEW c \in Collector, FinishRule(c)
  PROVE  CollectIInv'
<1> DEFINE w == collecting[c]
           r == w.current
           rest == w.rows \ {r}
           more == [w EXCEPT !.phase = "collect", !.rows = rest, !.current = NoRule]
           x == IF rest = {} THEN NotCollecting ELSE more
           next == AfterRun(w)
<1>1. /\ w.phase \in {"success", "error"} /\ w \in CollectRow /\ InHandSound(w)
      /\ rules' = [rules EXCEPT ![r].next = next]
      /\ collecting' = [collecting EXCEPT ![c] = x]
      /\ UNCHANGED <<stored, collectFailures, collectOverlap>>
  BY DEF FinishRule, CollectIInv, CollectTyped
<1>2. /\ r \in w.rows /\ r \in Rule /\ w.kind \in {"now", "scheduled"} /\ w.seen \in RuleRow
      /\ rules \in [Rule -> RuleRow]
  BY <1>1 DEF InHandSound, CollectRow, CollectIInv, CollectTyped
<1>3. /\ next \in {"none", "due", "later"}
      /\ w.kind = "scheduled" => next = "later"
      /\ w.seen.schedule = "timed" => next = "later"
      /\ next = "due" => w.seen.next = "due"
  BY <1>1, <1>2 DEF AfterRun, NextRunAt, RuleRow, InHandSound
<1>4. /\ more \in CollectRow /\ more.phase = "collect" /\ more.rows = rest
      /\ more.kind = w.kind /\ more.seen = w.seen
  BY <1>1, <1>2 DEF CollectRow
<1>5. /\ x \in CollectRow /\ InHandSound(x) /\ x.rows \subseteq w.rows /\ r \notin x.rows
      /\ x.phase \in {"idle", "collect"}
      /\ x.rows # {} => x.kind = w.kind /\ x.seen = w.seen
  <2>1. CASE rest = {}
    BY <2>1, IdleCollector
  <2>2. CASE rest # {}
    <3>1. InHandSound(more)
      BY <1>1, <1>2, <1>4, <2>2 DEF InHandSound
    <3>2. QED
      BY <1>4, <2>2, <3>1
  <2>3. QED
    BY <2>1, <2>2
<1> HIDE DEF x, more, next
<1>12. PICK e : e = x
  OBVIOUS
<1>6. /\ rules' \in [Rule -> RuleRow] /\ rules'[r].schedule = rules[r].schedule
      /\ rules'[r].next = next /\ \A q \in Rule \ {r} : rules'[q] = rules[q]
  BY <1>1, <1>2, <1>3 DEF RuleRow
<1>7. \A d \in Collector : collecting'[d] = IF d = c THEN e ELSE collecting[d]
  BY <1>1, <1>12 DEF CollectIInv, CollectTyped
<1>8. CollectTyped'
  BY <1>1, <1>5, <1>6 DEF CollectIInv, CollectTyped
<1>9. \A d \in Collector : InHandSound(collecting'[d])
  BY <1>5, <1>7, <1>12 DEF CollectIInv
<1>10. ASSUME ~collectOverlap' PROVE InOrder'
  <2>1. InOrder
    BY <1>1, <1>10 DEF CollectIInv
  <2>2. \A d \in Collector \ {c} : collecting[d].phase = "idle" /\ collecting[d].rows = {}
    BY <1>1, <2>1 DEF InOrder, CollectIInv, InHandSound
  <2>3. w.kind # "scheduled" => w.seen = rules[r] /\ rest = {}
    BY <1>1, <1>2, <2>1 DEF InOrder, UpToDate, InHandSound
  <2>4. UpToDate(e)'
    BY <1>1, <1>2, <1>5, <1>12, <1>6, <2>1, <2>3 DEF InOrder, UpToDate
  <2>5. \A d \in Collector : UpToDate(collecting[d])'
    BY <1>7, <2>2, <2>4 DEF UpToDate
  <2>6. \A q \in Rule \ {r} : ~JustRun(q)
    BY <1>1, <2>2 DEF JustRun
  <2>7. ASSUME NEW q \in Rule
        PROVE  /\ rules'[q].schedule = "timed" => rules'[q].next # "none"
               /\ stored'[q] <= 1 + collectFailures'
               /\ rules'[q].next = "due" /\ ~JustRun(q)' => stored'[q] <= collectFailures'
    <3>1. CASE q # r
      BY <1>1, <1>6, <2>1, <2>6, <3>1 DEF InOrder
    <3>2. CASE q = r /\ w.kind = "scheduled"
      BY <1>1, <1>2, <1>3, <1>6, <2>1, <3>2 DEF InOrder
    <3>3. CASE q = r /\ w.kind = "now"
      <4>1. next = "due" => rules[r].next = "due" /\ ~JustRun(r)
        BY <1>3, <2>2, <2>3, <3>3 DEF JustRun
      <4>2. QED
        BY <1>1, <1>2, <1>3, <1>6, <2>1, <2>3, <3>3, <4>1 DEF InOrder
    <3>4. QED
      BY <1>2, <3>1, <3>2, <3>3
  <2>8. QED
    BY <1>7, <2>2, <2>5, <2>7 DEF InOrder
<1>11. QED
  BY <1>8, <1>9, <1>10 DEF CollectIInv, InHandSound

\* A run dies: what it has stored is accounted for.
LEMMA CollectorDiesStep ==
  ASSUME CollectIInv, NEW c \in Collector, CollectorDies(c)
  PROVE  CollectIInv'
<1>1. /\ UNCHANGED <<rules, stored, collectOverlap>> /\ collectFailures' = collectFailures + 1
      /\ collecting' = [collecting EXCEPT ![c] = NotCollecting]
  BY DEF CollectorDies, StopCollecting
<1>2. \A d \in Collector : collecting'[d] = IF d = c THEN NotCollecting ELSE collecting[d]
  BY <1>1 DEF CollectIInv, CollectTyped
<1>3. CollectTyped'
  BY <1>1, IdleCollector DEF CollectIInv, CollectTyped
<1>4. \A d \in Collector : InHandSound(collecting'[d])
  BY <1>2, IdleCollector DEF CollectIInv
<1>5. ASSUME InOrder PROVE InOrder'
  <2>1. \A d \in Collector : UpToDate(collecting'[d])
    BY <1>2, <1>5, IdleCollector DEF InOrder
  <2>2. \A d \in Collector : UpToDate(collecting[d])'
    BY <1>1, <2>1 DEF UpToDate
  <2>3. \A r \in Rule : stored[r] \in Nat /\ collectFailures \in Nat
    BY DEF CollectIInv, CollectTyped
  <2>4. \A r \in Rule : stored'[r] <= collectFailures'
    BY <1>1, <1>5, <2>3 DEF InOrder
  <2>5. \A r \in Rule : stored'[r] <= 1 + collectFailures'
    BY <1>1, <2>3, <2>4
  <2>6. QED
    BY <1>1, <1>2, <1>5, <2>2, <2>4, <2>5, IdleCollector DEF InOrder
<1>6. QED
  BY <1>1, <1>3, <1>4, <1>5 DEF CollectIInv, InHandSound

\* A rule comes due: for those who have read it too.  None has claimed it.
LEMMA ComesDueStep ==
  ASSUME CollectIInv, NEW r \in Rule, RuleComesDue(r)
  PROVE  CollectIInv'
<1> DEFINE Aware(c) == /\ r \in collecting[c].rows /\ collecting[c].seen.next = "later"
                       /\ collecting[c].kind # "scheduled"
<1>1. /\ rules[r].next = "later" /\ rules' = [rules EXCEPT ![r].next = "due"]
      /\ stored' = [stored EXCEPT ![r] = 0] /\ UNCHANGED <<collectFailures, collectOverlap>>
      /\ collecting' = [c \in Collector |->
           IF Aware(c) THEN [collecting[c] EXCEPT !.seen.next = "due"] ELSE collecting[c]]
  BY DEF RuleComesDue
<1>2. rules \in [Rule -> RuleRow] /\ \A c \in Collector : collecting[c] \in CollectRow
  BY DEF CollectIInv, CollectTyped
<1>3. /\ rules' \in [Rule -> RuleRow] /\ rules'[r] = [rules[r] EXCEPT !.next = "due"]
      /\ rules'[r].next = "due" /\ rules'[r].schedule = rules[r].schedule
      /\ \A q \in Rule \ {r} : rules'[q] = rules[q]
  BY <1>1, <1>2 DEF RuleRow
<1>4. ASSUME NEW c \in Collector
      PROVE  /\ collecting'[c] \in CollectRow
             /\ collecting'[c].phase = collecting[c].phase
             /\ collecting'[c].kind = collecting[c].kind
             /\ collecting'[c].rows = collecting[c].rows
             /\ collecting'[c].current = collecting[c].current
             /\ collecting'[c].seen.schedule = collecting[c].seen.schedule
             /\ collecting'[c].seen = IF Aware(c) THEN [collecting[c].seen EXCEPT !.next = "due"]
                                      ELSE collecting[c].seen
  <2> DEFINE s == [collecting[c].seen EXCEPT !.next = "due"]
             w == [collecting[c] EXCEPT !.seen = s]
  <2>1. s \in RuleRow /\ s.schedule = collecting[c].seen.schedule
    BY <1>2 DEF RuleRow, CollectRow
  <2>2. collecting'[c] = IF Aware(c) THEN w ELSE collecting[c]
    BY <1>1
  <2> HIDE DEF s
  <2>3. /\ w \in CollectRow /\ w.phase = collecting[c].phase /\ w.kind = collecting[c].kind
        /\ w.rows = collecting[c].rows /\ w.current = collecting[c].current /\ w.seen = s
    BY <1>2, <2>1 DEF CollectRow
  <2> HIDE DEF w, Aware
  <2>4. QED
    BY <1>2, <2>1, <2>2, <2>3 DEF s
<1> HIDE DEF Aware
<1>5. CollectTyped'
  <2>1. collecting' \in [Collector -> CollectRow]
    BY <1>1, <1>4
  <2>2. QED
    BY <1>1, <1>3, <2>1 DEF CollectIInv, CollectTyped
<1>6. \A c \in Collector : InHandSound(collecting'[c])
  <2> SUFFICES ASSUME NEW c \in Collector PROVE InHandSound(collecting'[c])
    OBVIOUS
  <2>1. InHandSound(collecting[c])
    BY DEF CollectIInv
  <2>2. QED
    BY <1>4, <2>1 DEF InHandSound
<1>7. ASSUME InOrder PROVE InOrder'
  <2>1. ASSUME NEW c \in Collector PROVE UpToDate(collecting[c])'
    <3> SUFFICES ASSUME NEW q \in collecting'[c].rows
                 PROVE  IF collecting'[c].kind = "scheduled" THEN rules'[q].next = "due"
                        ELSE collecting'[c].seen = rules'[q]
      BY DEF UpToDate
    <3>1. /\ q \in collecting[c].rows /\ q \in Rule /\ UpToDate(collecting[c])
          /\ InHandSound(collecting[c])
      BY <1>2, <1>4, <1>7 DEF InOrder, CollectRow, CollectIInv
    <3>2. CASE collecting[c].kind = "scheduled"
      BY <1>1, <1>3, <1>4, <3>1, <3>2 DEF UpToDate
    <3>3. CASE collecting[c].kind # "scheduled"
      <4>1. collecting[c].seen = rules[q] /\ (r \in collecting[c].rows => q = r)
        BY <3>1, <3>3 DEF UpToDate, InHandSound
      <4>2. CASE q = r
        BY <1>1, <1>3, <1>4, <3>1, <3>3, <4>1, <4>2 DEF Aware
      <4>3. CASE q # r
        BY <1>3, <1>4, <3>1, <3>3, <4>1, <4>3 DEF Aware
      <4>4. QED
        BY <4>2, <4>3
    <3>4. QED
      BY <3>2, <3>3
  <2>2. \A q \in Rule : JustRun(q)' <=> JustRun(q)
    BY <1>4 DEF JustRun
  <2>3. \A q \in Rule : stored'[q] = IF q = r THEN 0 ELSE stored[q]
    BY <1>1 DEF CollectIInv, CollectTyped
  <2>4. collectFailures \in Nat
    BY DEF CollectIInv, CollectTyped
  <2>5. ASSUME NEW q \in Rule
        PROVE  /\ rules'[q].schedule = "timed" => rules'[q].next # "none"
               /\ stored'[q] <= 1 + collectFailures'
               /\ rules'[q].next = "due" /\ ~JustRun(q)' => stored'[q] <= collectFailures'
    BY <1>1, <1>3, <1>7, <2>2, <2>3, <2>4 DEF InOrder
  <2>6. QED
    BY <1>4, <1>7, <2>1, <2>5 DEF InOrder
<1>8. QED
  BY <1>1, <1>5, <1>6, <1>7 DEF CollectIInv, InHandSound

\* Every step keeps the invariant.
LEMMA CollectStep == CollectIInv /\ [CollectNext]_collectVars => CollectIInv'
<1> SUFFICES ASSUME CollectIInv, [CollectNext]_collectVars PROVE CollectIInv'
  OBVIOUS
<1>1. CASE UNCHANGED collectVars
  BY <1>1 DEF collectVars, CollectIInv, CollectTyped, InHandSound, InOrder, UpToDate, JustRun
<1>2. QED
  BY <1>1, BeginStep, PatchWriteStep, CollectRuleStep, FinishRuleStep, CollectorDiesStep,
     ComesDueStep DEF CollectNext

\* The invariant holds of every state.
LEMMA CollectInvariance == CollectSpec => []CollectIInv
BY CollectInitially, CollectStep, PTL DEF CollectSpec

\* A rule with a schedule keeps a time to run at, for every number of rules and
\* requests that do not overlap.
THEOREM ScheduleIsKept == CollectSpec => []ScheduledHasNext
<1>1. CollectIInv => ScheduledHasNext
  BY DEF CollectIInv, InOrder, ScheduledHasNext
<1>2. QED
  BY <1>1, CollectInvariance, PTL

\* What is due is collected once, and once more for each run that died.
THEOREM CollectedOnceAPeriod == CollectSpec => []CollectedOnce
<1>1. CollectIInv => CollectedOnce
  BY DEF CollectIInv, InOrder, CollectedOnce
<1>2. QED
  BY <1>1, CollectInvariance, PTL

\* Type correctness of the rules and the requests.
THEOREM CollectTypeCorrect == CollectSpec => []CollectTypeOK
<1>1. CollectIInv => CollectTypeOK
  BY DEF CollectIInv, CollectTyped, CollectTypeOK, InHandSound, CollectRow
<1>2. QED
  BY <1>1, CollectInvariance, PTL
=============================================================================
