-------------------------- MODULE EvidenceRecords --------------------------
(***************************************************************************)
(* A piece of evidence: its row, the history of its versions, its files on *)
(* disk, and what removes it: people (DELETE /evidence/:id) and the        *)
(* retention cleanup, on every server's timer and as a job.  A legal hold  *)
(* suspends both.                                                          *)
(*                                                                         *)
(* An edit takes the row's lock, files the row as it stands in             *)
(* evidence_versions and updates it, in one transaction; the upload of a   *)
(* new version has written its file before.  A removal looks for holds,    *)
(* deletes the row and unlinks the file in separate steps.  There is one   *)
(* piece of evidence; files are numbered in the order they are written,    *)
(* and 0 stands for none.                                                  *)
(***************************************************************************)
EXTENDS Naturals, Functions

CONSTANTS
  Editor,             \* requests that edit, in flight at once
  Sweeper,            \* cleanups in progress at once
  Deleter,            \* DELETE requests in flight at once
  MaxVersions,        \* bound: edits are begun up to this version
  MaxFiles,           \* bound: files ever written
  MaxEvidenceFaults,  \* bound: statements that fail, servers that die
  NoEditor

ASSUME EvidenceParameters ==
  /\ Sweeper \cap Deleter = {} /\ NoEditor \notin Editor
  /\ MaxVersions \in Nat /\ MaxFiles \in Nat /\ MaxEvidenceFaults \in Nat

VARIABLES
  record,         \* the row of evidence, once it is deleted as it was then
  versions,       \* evidence_versions: [version number -> its file]
  disk,           \* the files of the uploads directory
  written,        \* how many files have been written
  held,           \* an active legal hold covers the evidence
  expired,        \* retention_until has passed
  policy,         \* the strictest enforced retention policy: there is none, the evidence
                  \* is younger than its days, or older
  editing,        \* [Editor -> the request in flight]
  rowLock,        \* who holds the row's lock
  removal,        \* [Remover -> the removal in progress]
  evidenceFaults, \* how many steps have failed
  raced           \* history: a hold, a reason to keep it after all or a new version came
                  \* after a removal in progress had looked

evidenceVars == <<record, versions, disk, written, held, expired, policy, editing,
                  rowLock, removal, evidenceFaults, raced>>

Remover == Sweeper \cup Deleter

\* file: the upload's file, or 0 for an edit of the description; version and old: the
\* row as it was filed.
NotEditing == [phase |-> "idle", file |-> 0, version |-> 0, old |-> 0]

\* file: the path to unlink.
NotRemoving == [phase |-> "idle", file |-> 0]

EvidenceInit ==
  /\ record = [exists |-> TRUE, version |-> 1, file |-> 1]
  /\ versions = <<>>
  /\ disk = {1} /\ written = 1
  /\ held \in BOOLEAN /\ expired = FALSE /\ policy = "none"
  /\ editing = [e \in Editor |-> NotEditing]
  /\ rowLock = NoEditor
  /\ removal = [r \in Remover |-> NotRemoving]
  /\ evidenceFaults = 0
  /\ raced = FALSE

\* What makes evidence a candidate of the cleanup: its own retention has ended, or it
\* is older than the policy, whatever its own retention is.
Due == policy # "none" /\ (expired \/ policy = "older")

Removing(R, phases) == \E r \in R : removal[r].phase \in phases

EndEdit(e) == editing' = [editing EXCEPT ![e] = NotEditing]
EndRemoval(r) == removal' = [removal EXCEPT ![r] = NotRemoving]
-----------------------------------------------------------------------------
\* POST /evidence/:id/versions: multer writes the file before anything is read.
BeginVersion(e) ==
  /\ editing[e].phase = "idle"
  /\ record.version < MaxVersions /\ written < MaxFiles
  /\ written' = written + 1
  /\ disk' = disk \cup {written + 1}
  /\ editing' = [editing EXCEPT ![e] =
       [NotEditing EXCEPT !.phase = "snapshot", !.file = written + 1]]
  /\ UNCHANGED <<record, versions, held, expired, policy, rowLock, removal, evidenceFaults, raced>>

\* PUT /evidence/:id.
BeginEdit(e) ==
  /\ editing[e].phase = "idle" /\ record.version < MaxVersions
  /\ editing' = [editing EXCEPT ![e] = [NotEditing EXCEPT !.phase = "snapshot"]]
  /\ UNCHANGED <<record, versions, disk, written, held, expired, policy, rowLock, removal,
                 evidenceFaults, raced>>

\* Mutant of Snapshot: the row is read without FOR UPDATE.
SnapshotUnlocked(e) ==
  /\ editing[e].phase = "snapshot"
  /\ record.exists
  /\ editing' = [editing EXCEPT ![e] =
       [@ EXCEPT !.phase = "update", !.version = record.version, !.old = record.file]]
  /\ UNCHANGED <<record, versions, disk, written, held, expired, policy, rowLock, removal,
                 evidenceFaults, raced>>

\* snapshotCurrentVersion; what it files is seen by others from the commit on.
Snapshot(e) ==
  /\ editing[e].phase = "snapshot"
  /\ record.exists /\ rowLock = NoEditor
  /\ rowLock' = e
  /\ editing' = [editing EXCEPT ![e] =
       [@ EXCEPT !.phase = "update", !.version = record.version, !.old = record.file]]
  /\ UNCHANGED <<record, versions, disk, written, held, expired, policy, removal,
                 evidenceFaults, raced>>

\* 404: the file that was uploaded stays on disk.
EvidenceNotFound(e) ==
  /\ editing[e].phase = "snapshot" /\ ~record.exists
  /\ EndEdit(e)
  /\ UNCHANGED <<record, versions, disk, written, held, expired, policy, rowLock, removal,
                 evidenceFaults, raced>>

\* The UPDATE and the COMMIT: an edit may put retention_until ahead.
CommitEdit(e) ==
  LET file == editing[e].file
      filed == editing[e].version IN
  /\ editing[e].phase = "update"
  /\ record' = [record EXCEPT !.version = @ + 1, !.file = IF file = 0 THEN @ ELSE file]
  /\ versions' = IF filed \in DOMAIN versions THEN versions
                 ELSE [n \in DOMAIN versions \cup {filed} |->
                         IF n = filed THEN editing[e].old ELSE versions[n]]
  /\ expired' \in {expired} \cup (IF file = 0 THEN {FALSE} ELSE {})
  /\ rowLock' = NoEditor
  /\ EndEdit(e)
  /\ UNCHANGED <<disk, written, held, policy, removal, evidenceFaults>>
  /\ raced' = (raced \/ /\ (Due /\ ~Due') \/ file # 0
                        /\ Removing(Sweeper, {"check", "delete"}))

\* A statement fails or the server dies: the transaction is rolled back, and the
\* file stays.
EditFails(e) ==
  /\ editing[e].phase # "idle"
  /\ evidenceFaults < MaxEvidenceFaults /\ evidenceFaults' = evidenceFaults + 1
  /\ rowLock' = IF rowLock = e THEN NoEditor ELSE rowLock
  /\ EndEdit(e)
  /\ UNCHANGED <<record, versions, disk, written, held, expired, policy, removal, raced>>

\* POST /data-governance/legal-holds.
PlaceHold ==
  /\ ~held /\ held' = TRUE
  /\ raced' = (raced \/ Removing(Remover, {"delete"}))
  /\ UNCHANGED <<record, versions, disk, written, expired, policy, editing, rowLock, removal,
                 evidenceFaults>>

ReleaseHold ==
  /\ held /\ held' = FALSE
  /\ UNCHANGED <<record, versions, disk, written, expired, policy, editing, rowLock, removal,
                 evidenceFaults, raced>>

\* retention_until passes.
RetentionEnds ==
  /\ ~expired /\ expired' = TRUE
  /\ UNCHANGED <<record, versions, disk, written, held, policy, editing, rowLock, removal,
                 evidenceFaults, raced>>

\* POST and PATCH /data-governance/policies, and the days that pass.
PolicyChanges ==
  /\ policy' \in {"none", "younger", "older"} \ {policy}
  /\ UNCHANGED <<record, versions, disk, written, held, expired, editing, rowLock, removal,
                 evidenceFaults>>
  /\ raced' = (raced \/ /\ Due /\ ~Due'
                        /\ Removing(Sweeper, {"check", "delete"}))

\* runRetentionCleanup reads the policies and finds the evidence among its candidates,
\* with its file's path (a change between the two SELECTs is one after the look);
\* DELETE /evidence/:id finds nothing out before it looks for holds.
BeginRemoval(r) ==
  /\ removal[r].phase = "idle" /\ record.exists
  /\ r \in Sweeper => Due
  /\ removal' = [removal EXCEPT ![r] =
       [phase |-> "check", file |-> IF r \in Sweeper THEN record.file ELSE 0]]
  /\ UNCHANGED <<record, versions, disk, written, held, expired, policy, editing, rowLock,
                 evidenceFaults, raced>>

\* Mutant of CheckHold: the cleanup does not look for holds.
CheckHoldOfPeople(r) ==
  /\ removal[r].phase = "check"
  /\ IF held /\ r \in Deleter THEN EndRemoval(r)
     ELSE removal' = [removal EXCEPT ![r].phase = "delete"]
  /\ UNCHANGED <<record, versions, disk, written, held, expired, policy, editing, rowLock,
                 evidenceFaults, raced>>

\* Mutant of CheckHold: the cleanup unlinks the file before it deletes the row.
CheckHoldUnlink(r) ==
  /\ removal[r].phase = "check"
  /\ IF held THEN EndRemoval(r) /\ UNCHANGED disk
     ELSE removal' = [removal EXCEPT ![r].phase = "delete"] /\ disk' = disk \ {removal[r].file}
  /\ UNCHANGED <<record, versions, written, held, expired, policy, editing, rowLock,
                 evidenceFaults, raced>>

CheckHold(r) ==
  /\ removal[r].phase = "check"
  /\ IF held THEN EndRemoval(r)
     ELSE removal' = [removal EXCEPT ![r].phase = "delete"]
  /\ UNCHANGED <<record, versions, disk, written, held, expired, policy, editing, rowLock,
                 evidenceFaults, raced>>

\* Mutant of DeleteRow: the file is left alone when the row has been deleted.
DeleteRowOnly(r) ==
  /\ removal[r].phase = "delete" /\ rowLock = NoEditor
  /\ record' = [record EXCEPT !.exists = FALSE]
  /\ versions' = <<>>
  /\ EndRemoval(r)
  /\ UNCHANGED <<disk, written, held, expired, policy, editing, rowLock, evidenceFaults, raced>>

\* By id; the history goes with the row (ON DELETE CASCADE).  A cleanup goes on to
\* unlink although the row was gone, people then get a 404.
DeleteRow(r) ==
  /\ removal[r].phase = "delete" /\ rowLock = NoEditor
  /\ record' = [record EXCEPT !.exists = FALSE]
  /\ versions' = <<>>
  /\ IF r \in Sweeper THEN removal' = [removal EXCEPT ![r].phase = "unlink"]
     ELSE IF record.exists
     THEN removal' = [removal EXCEPT ![r] = [phase |-> "unlink", file |-> record.file]]
     ELSE EndRemoval(r)
  /\ UNCHANGED <<disk, written, held, expired, policy, editing, rowLock, evidenceFaults, raced>>

UnlinkFile(r) ==
  /\ removal[r].phase = "unlink"
  /\ disk' = disk \ {removal[r].file}
  /\ EndRemoval(r)
  /\ UNCHANGED <<record, versions, written, held, expired, policy, editing, rowLock,
                 evidenceFaults, raced>>

\* A statement fails, or the server dies.
RemovalDies(r) ==
  /\ removal[r].phase # "idle"
  /\ evidenceFaults < MaxEvidenceFaults /\ evidenceFaults' = evidenceFaults + 1
  /\ EndRemoval(r)
  /\ UNCHANGED <<record, versions, disk, written, held, expired, policy, editing, rowLock, raced>>

EvidenceNext ==
  \/ \E e \in Editor : BeginVersion(e) \/ BeginEdit(e) \/ Snapshot(e)
       \/ EvidenceNotFound(e) \/ CommitEdit(e) \/ EditFails(e)
  \/ \E r \in Remover : BeginRemoval(r) \/ CheckHold(r) \/ DeleteRow(r)
       \/ UnlinkFile(r) \/ RemovalDies(r)
  \/ PlaceHold \/ ReleaseHold \/ RetentionEnds \/ PolicyChanges

EvidenceSpec == EvidenceInit /\ [][EvidenceNext]_evidenceVars
-----------------------------------------------------------------------------
\* Type correctness: the lock's holder is the request that is about to update.
EvidenceTypeOK ==
  /\ record \in [exists : BOOLEAN, version : Nat \ {0}, file : Nat \ {0}]
  /\ DOMAIN versions \subseteq Nat \ {0} /\ Range(versions) \subseteq Nat \ {0}
  /\ disk \subseteq 1..written /\ written \in Nat
  /\ {held, expired, raced} \subseteq BOOLEAN /\ policy \in {"none", "younger", "older"}
  /\ editing \in [Editor -> [phase : {"idle", "snapshot", "update"},
                             file : 0..written, version : Nat, old : Nat]]
  /\ rowLock \in Editor \cup {NoEditor}
  /\ \A e \in Editor : editing[e].phase = "update" <=> rowLock = e
  /\ removal \in [Remover -> [phase : {"idle", "check", "delete", "unlink"}, file : Nat]]
  /\ evidenceFaults \in Nat

\* No version is lost: the history of an existing record holds every superseded
\* version, whatever edits overlap or fail.
HistoryComplete == record.exists => DOMAIN versions = 1 .. (record.version - 1)

\* The files of an existing record, the current one's and the superseded ones', are
\* on disk, whatever removals are in progress.
FilesKept == record.exists => {record.file} \cup Range(versions) \subseteq disk

\* A record is not removed while a hold covers it, nor by the cleanup unless a policy is
\* enforced and its retention has ended or it is older than the policy, as long as
\* none of this changed after the removal had looked.  (Older than the policy, it goes
\* although its own retention runs.)
KeptWhileProtected ==
  [][~raced /\ record.exists /\ ~record'.exists =>
       /\ ~held
       /\ (\E r \in Sweeper : removal[r].phase = "delete" /\ removal'[r].phase = "unlink")
            => Due]_evidenceVars

\* The current file of a removed record goes with it, whoever else was removing or
\* editing it, unless a step failed or a cleanup had an older path in hand.
RemovedFileIsGone ==
  ~record.exists /\ ~raced /\ evidenceFaults = 0 =>
    record.file \notin disk \/ \E r \in Remover : removal[r].file = record.file
=============================================================================
