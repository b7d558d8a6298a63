------------------------- MODULE ControlSuggestions -------------------------
(***************************************************************************)
(* The suggested statuses of one control: pending_control_assessments.     *)
(*                                                                         *)
(* A scan stages what the language model suggests; a partial unique index  *)
(* keeps one suggestion pending, which the next scan rewrites in place.    *)
(* An approval reads the suggestion in one statement and applies it in a   *)
(* transaction of its own, from the row as it was read.  What the model    *)
(* bases its suggestion on is left out.                                    *)
(***************************************************************************)
EXTENDS FiniteSets, Naturals

CONSTANTS
  Suggestion,        \* bound: rows of pending_control_assessments
  SuggestedStatus,   \* the statuses the model suggests, "verified" among them
  StatusReviewer,    \* people with implementations.write
  Auditor,           \* those of them who are auditors or administrators
  NoSuggestion

ASSUME SuggestionParameters ==
  Auditor \subseteq StatusReviewer /\ NoSuggestion \notin Suggestion

VARIABLES
  suggestions,   \* pending_control_assessments
  inReview,      \* [StatusReviewer -> the suggestion as it was read for approval]
  statusWrites,  \* what approvals have written to control_implementations
  meddled        \* history: a suggestion changed while somebody was approving it

suggestionVars == <<suggestions, inReview, statusWrites, meddled>>

NotReviewing == [row |-> NoSuggestion, status |-> "none"]

SuggestionsInit ==
  /\ suggestions = [s \in Suggestion |-> [state |-> "none", status |-> "none"]]
  /\ inReview = [r \in StatusReviewer |-> NotReviewing]
  /\ statusWrites = {}
  /\ meddled = FALSE

Pending == {s \in Suggestion : suggestions[s].state = "pending"}

ReviewedByOthers(r, s) == \E q \in StatusReviewer \ {r} : inReview[q].row = s
-----------------------------------------------------------------------------
\* One control's part of POST /scan: INSERT ... ON CONFLICT DO UPDATE.
ScanControl(s, status) ==
  /\ IF Pending = {} THEN suggestions[s].state = "none" ELSE s \in Pending
  /\ suggestions' = [suggestions EXCEPT ![s] = [state |-> "pending", status |-> status]]
  /\ meddled' = (meddled \/ \E r \in StatusReviewer : inReview[r].row = s)
  /\ UNCHANGED <<inReview, statusWrites>>

\* The SELECT of POST /:id/approve, and the check of who may verify.
ReadSuggestion(r, s) ==
  /\ inReview[r].row = NoSuggestion
  /\ s \in Pending
  /\ suggestions[s].status = "verified" => r \in Auditor
  /\ inReview' = [inReview EXCEPT ![r] = [row |-> s, status |-> suggestions[s].status]]
  /\ UNCHANGED <<suggestions, statusWrites, meddled>>

\* Mutant of ApplySuggestion: the transaction applies the row as it is by then.
ApplySuggestionAsItIs(r) ==
  LET s == inReview[r].row IN
  /\ s # NoSuggestion
  /\ statusWrites' =
       statusWrites \cup {[row |-> s, status |-> suggestions[s].status, by |-> r]}
  /\ suggestions' = [suggestions EXCEPT ![s].state = "approved"]
  /\ inReview' = [inReview EXCEPT ![r] = NotReviewing]
  /\ meddled' = (meddled \/ ReviewedByOthers(r, s))

\* The transaction: the control takes the status that was read, and the suggestion
\* is approved by id, whatever has become of it.
ApplySuggestion(r) ==
  LET s == inReview[r].row IN
  /\ s # NoSuggestion
  /\ statusWrites' =
       statusWrites \cup {[row |-> s, status |-> inReview[r].status, by |-> r]}
  /\ suggestions' = [suggestions EXCEPT ![s].state = "approved"]
  /\ inReview' = [inReview EXCEPT ![r] = NotReviewing]
  /\ meddled' = (meddled \/ ReviewedByOthers(r, s))

\* The transaction fails and is rolled back, or the server dies.
ApplyFails(r) ==
  /\ inReview[r].row # NoSuggestion
  /\ inReview' = [inReview EXCEPT ![r] = NotReviewing]
  /\ UNCHANGED <<suggestions, statusWrites, meddled>>

\* Mutant of RejectSuggestion: the UPDATE does not ask for a pending row.
RejectAnySuggestion(r, s) ==
  /\ suggestions[s].state # "none"
  /\ suggestions' = [suggestions EXCEPT ![s].state = "rejected"]
  /\ meddled' = (meddled \/ ReviewedByOthers(r, s))
  /\ UNCHANGED <<inReview, statusWrites>>

\* POST /:id/reject: one statement, for a pending row.
RejectSuggestion(r, s) ==
  /\ inReview[r].row = NoSuggestion
  /\ s \in Pending
  /\ suggestions' = [suggestions EXCEPT ![s].state = "rejected"]
  /\ meddled' = (meddled \/ ReviewedByOthers(r, s))
  /\ UNCHANGED <<inReview, statusWrites>>

SuggestionsNext ==
  \/ \E s \in Suggestion, status \in SuggestedStatus : ScanControl(s, status)
  \/ \E r \in StatusReviewer :
       \/ \E s \in Suggestion : ReadSuggestion(r, s) \/ RejectSuggestion(r, s)
       \/ ApplySuggestion(r) \/ ApplyFails(r)

SuggestionsSpec == SuggestionsInit /\ [][SuggestionsNext]_suggestionVars
-----------------------------------------------------------------------------
\* Type correctness.
SuggestionsTypeOK ==
  /\ suggestions \in [Suggestion -> [state : {"none", "pending", "approved", "rejected"},
                                     status : SuggestedStatus \cup {"none"}]]
  /\ inReview \in [StatusReviewer -> [row : Suggestion \cup {NoSuggestion},
                                      status : SuggestedStatus \cup {"none"}]]
  /\ statusWrites \subseteq
       [row : Suggestion, status : SuggestedStatus, by : StatusReviewer]
  /\ meddled \in BOOLEAN

\* Only auditors and administrators verify: a control is set to verified by an
\* approval of theirs alone, although a scan may turn the suggestion that somebody
\* else is approving into one to verify.
VerifiedByAuditor == \A w \in statusWrites : w.status = "verified" => w.by \in Auditor

\* A suggestion that stands rejected has not been applied, however its approval and
\* its rejection race.
RejectedNotApplied ==
  \A s \in Suggestion : suggestions[s].state = "rejected" =>
    \A w \in statusWrites : w.row # s

\* The record tells what was done: as long as nothing gets between an approval's
\* two steps, what was approved is, once, what was applied.
RecordIsWhatWasApplied ==
  ~meddled => \A s \in Suggestion :
    LET writes == {w \in statusWrites : w.row = s} IN
    IF suggestions[s].state = "approved"
    THEN Cardinality(writes) = 1 /\ \A w \in writes : w.status = suggestions[s].status
    ELSE writes = {}
=============================================================================
