--------------------------- MODULE Reviews_proofs ---------------------------
(***************************************************************************)
(* That suggested statuses are verified by auditors, that what is rejected *)
(* is not applied, that the record says what was applied, that suggested   *)
(* evidence is promoted once and before it is marked, that a completed     *)
(* access review has its evidence, that mailed questionnaires can be       *)
(* answered and that answers stand: for every number of people, rows and   *)
(* failures.                                                               *)
(***************************************************************************)
EXTENDS ControlSuggestions, PendingEvidence, AccessReview, Questionnaire,
        FiniteSetTheorems, TLAPS

-----------------------------------------------------------------------------
(*****************************************************************************)
(* ControlSuggestions and PendingEvidence: suggestions and their review    *)
(***************************************************************************)

SuggestionRow ==
  [state : {"none", "pending", "approved", "rejected"}, status : SuggestedStatus \cup {"none"}]

ReviewRow == [row : Suggestion \cup {NoSuggestion}, status : SuggestedStatus \cup {"none"}]

\* A reviewer in the middle of an approval was entitled to it.
Entitled ==
  \A r \in StatusReviewer : inReview[r].row # NoSuggestion =>
    /\ inReview[r].status \in SuggestedStatus
    /\ inReview[r].status = "verified" => r \in Auditor
    /\ suggestions[inReview[r].row].state # "none"

\* What was applied stays approved.
AppliedIsApproved == \A w \in statusWrites : suggestions[w.row].state = "approved"

StatusesKnown ==
  \A s \in Suggestion : suggestions[s].state # "none" => suggestions[s].status \in SuggestedStatus

Writes(s) == {w \in statusWrites : w.row = s}

\* Without a change in between, what is in review is as it was read, and what was
\* approved was applied by one write.
Undisturbed ==
  ~meddled =>
    /\ \A r \in StatusReviewer : inReview[r].row # NoSuggestion =>
         /\ suggestions[inReview[r].row].state = "pending"
         /\ suggestions[inReview[r].row].status = inReview[r].status
    /\ \A s \in Suggestion : suggestions[s].state = "approved" =>
         \E w \in statusWrites : Writes(s) = {w} /\ w.status = suggestions[s].status

\* The invariant that every step keeps.
SuggestionsIInv ==
  /\ SuggestionsTypeOK /\ StatusesKnown /\ Entitled /\ VerifiedByAuditor
  /\ AppliedIsApproved /\ Undisturbed

\* Nothing is suggested at first.
LEMMA SuggestionsInitially == SuggestionsInit => SuggestionsIInv
<1> SUFFICES ASSUME SuggestionsInit PROVE SuggestionsIInv
  OBVIOUS
<1>1. SuggestionsTypeOK
  BY DEF SuggestionsInit, SuggestionsTypeOK, NotReviewing
<1>2. /\ StatusesKnown /\ Entitled /\ VerifiedByAuditor /\ AppliedIsApproved /\ Undisturbed
  BY DEF SuggestionsInit, StatusesKnown, Entitled, VerifiedByAuditor, AppliedIsApproved,
         Undisturbed, NotReviewing
<1>3. QED
  BY <1>1, <1>2 DEF SuggestionsIInv

\* A suggestion is staged, rewritten or rejected.
LEMMA RowMoves ==
  ASSUME SuggestionsIInv, NEW s \in Suggestion, NEW row \in SuggestionRow,
         suggestions' = [suggestions EXCEPT ![s] = row],
         suggestions[s].state # "approved", row.state \in {"pending", "rejected"},
         row.status \in SuggestedStatus,
         meddled' = (meddled \/ \E r \in StatusReviewer : inReview[r].row = s),
         UNCHANGED <<inReview, statusWrites>>
  PROVE  SuggestionsIInv'
<1>1. \A q \in Suggestion : suggestions'[q] = IF q = s THEN row ELSE suggestions[q]
  BY DEF SuggestionsIInv, SuggestionsTypeOK
<1>2. SuggestionsTypeOK'
  <2>1. suggestions' \in [Suggestion -> SuggestionRow]
    BY DEF SuggestionsIInv, SuggestionsTypeOK, SuggestionRow
  <2>2. meddled' \in BOOLEAN
    BY DEF SuggestionsIInv, SuggestionsTypeOK
  <2>3. QED
    BY <2>1, <2>2 DEF SuggestionsIInv, SuggestionsTypeOK, SuggestionRow
<1>3. StatusesKnown' /\ Entitled' /\ VerifiedByAuditor'
  BY <1>1 DEF SuggestionsIInv, StatusesKnown, Entitled, VerifiedByAuditor
<1>4. AppliedIsApproved'
  BY <1>1 DEF SuggestionsIInv, AppliedIsApproved, SuggestionsTypeOK
<1>5. Undisturbed'
  <2> SUFFICES ASSUME ~meddled' PROVE Undisturbed'
    BY DEF Undisturbed
  <2>1. ~meddled /\ \A r \in StatusReviewer : inReview[r].row # s
    OBVIOUS
  <2>2. ASSUME NEW r \in StatusReviewer, inReview[r].row # NoSuggestion
        PROVE  /\ suggestions'[inReview[r].row].state = "pending"
               /\ suggestions'[inReview[r].row].status = inReview[r].status
    <3>1. inReview[r].row \in Suggestion
      BY <2>2 DEF SuggestionsIInv, SuggestionsTypeOK
    <3>2. QED
      BY <1>1, <2>1, <2>2, <3>1 DEF SuggestionsIInv, Undisturbed
  <2>3. ASSUME NEW q \in Suggestion, suggestions'[q].state = "approved"
        PROVE  \E w \in statusWrites : Writes(q) = {w} /\ w.status = suggestions'[q].status
    BY <1>1, <2>1, <2>3 DEF SuggestionsIInv, Undisturbed
  <2>4. \A q \in Suggestion : Writes(q)' = Writes(q)
    BY DEF Writes
  <2>5. QED
    BY <2>2, <2>3, <2>4 DEF Undisturbed
<1>6. QED
  BY <1>2, <1>3, <1>4, <1>5 DEF SuggestionsIInv

\* A scan, or a rejection.
LEMMA ScanOrReject ==
  ASSUME SuggestionsIInv, NEW s \in Suggestion,
         \/ \E status \in SuggestedStatus : ScanControl(s, status)
         \/ \E r \in StatusReviewer : RejectSuggestion(r, s)
  PROVE  SuggestionsIInv'
<1>1. ASSUME NEW status \in SuggestedStatus, ScanControl(s, status) PROVE SuggestionsIInv'
  <2> DEFINE row == [state |-> "pending", status |-> status]
  <2>1. row \in SuggestionRow /\ row.state = "pending" /\ row.status \in SuggestedStatus
    BY DEF SuggestionRow
  <2>2. suggestions[s].state # "approved"
    BY <1>1 DEF ScanControl, Pending
  <2>3. suggestions' = [suggestions EXCEPT ![s] = row]
    BY <1>1 DEF ScanControl
  <2> HIDE DEF row
  <2>4. QED
    BY <1>1, <2>1, <2>2, <2>3, RowMoves DEF ScanControl
<1>2. ASSUME NEW r \in StatusReviewer, RejectSuggestion(r, s) PROVE SuggestionsIInv'
  <2> DEFINE row == [suggestions[s] EXCEPT !.state = "rejected"]
  <2>1. suggestions[s] \in SuggestionRow
    BY DEF SuggestionsIInv, SuggestionsTypeOK, SuggestionRow
  <2>2. suggestions[s].state = "pending" /\ inReview[r].row = NoSuggestion
    BY <1>2 DEF RejectSuggestion, Pending
  <2>3. suggestions[s].status \in SuggestedStatus
    BY <2>2 DEF SuggestionsIInv, StatusesKnown
  <2>4. row \in SuggestionRow /\ row.state = "rejected" /\ row.status \in SuggestedStatus
    BY <2>1, <2>3 DEF SuggestionRow
  <2>5. suggestions' = [suggestions EXCEPT ![s] = row]
    BY <1>2 DEF RejectSuggestion, SuggestionsIInv, SuggestionsTypeOK
  <2>6. meddled' = (meddled \/ \E q \in StatusReviewer : inReview[q].row = s)
    BY <1>2, <2>2, SuggestionParameters DEF RejectSuggestion, ReviewedByOthers
  <2> HIDE DEF row
  <2>7. QED
    BY <1>2, <2>2, <2>4, <2>5, <2>6, RowMoves DEF RejectSuggestion
<1>3. QED
  BY <1>1, <1>2

\* A suggestion is read, or its approval fails.
LEMMA ReviewMoves ==
  ASSUME SuggestionsIInv, NEW r \in StatusReviewer,
         ApplyFails(r) \/ \E s \in Suggestion : ReadSuggestion(r, s)
  PROVE  SuggestionsIInv'
<1>1. /\ UNCHANGED <<suggestions, statusWrites, meddled>>
  BY DEF ApplyFails, ReadSuggestion
<1> DEFINE Right(w) ==
      w.row # NoSuggestion =>
        /\ w.status \in SuggestedStatus /\ (w.status = "verified" => r \in Auditor)
        /\ suggestions[w.row].state = "pending" /\ suggestions[w.row].status = w.status
<1>2. \E w \in ReviewRow : inReview' = [inReview EXCEPT ![r] = w] /\ Right(w)
  <2>1. CASE ApplyFails(r)
    <3>1. NotReviewing \in ReviewRow /\ Right(NotReviewing)
      BY DEF NotReviewing, ReviewRow
    <3>2. QED
      BY <2>1, <3>1 DEF ApplyFails
  <2>2. CASE \E s \in Suggestion : ReadSuggestion(r, s)
    <3>1. PICK s \in Suggestion : ReadSuggestion(r, s)
      BY <2>2
    <3> DEFINE w == [row |-> s, status |-> suggestions[s].status]
    <3>2. suggestions[s].state = "pending" /\ suggestions[s].status \in SuggestedStatus
      BY <3>1 DEF ReadSuggestion, Pending, SuggestionsIInv, StatusesKnown
    <3>3. w \in ReviewRow /\ Right(w)
      BY <3>1, <3>2 DEF ReviewRow, ReadSuggestion
    <3>4. inReview' = [inReview EXCEPT ![r] = w]
      BY <3>1 DEF ReadSuggestion
    <3>5. QED
      BY <3>3, <3>4
  <2>3. QED
    BY <2>1, <2>2
<1>3. PICK w \in ReviewRow : inReview' = [inReview EXCEPT ![r] = w] /\ Right(w)
  BY <1>2
<1>4. \A q \in StatusReviewer : inReview'[q] = IF q = r THEN w ELSE inReview[q]
  BY <1>3 DEF SuggestionsIInv, SuggestionsTypeOK
<1>5. SuggestionsTypeOK'
  BY <1>1, <1>3 DEF SuggestionsIInv, SuggestionsTypeOK, ReviewRow
<1>6. StatusesKnown' /\ VerifiedByAuditor' /\ AppliedIsApproved' /\ Entitled'
  BY <1>1, <1>3, <1>4 DEF SuggestionsIInv, StatusesKnown, VerifiedByAuditor,
                          AppliedIsApproved, Entitled
<1>7. Undisturbed'
  BY <1>1, <1>3, <1>4 DEF SuggestionsIInv, Undisturbed, Writes
<1>8. QED
  BY <1>5, <1>6, <1>7 DEF SuggestionsIInv

\* An approval is applied, from what was read.
LEMMA ApplyKeeps ==
  ASSUME SuggestionsIInv, NEW r \in StatusReviewer, ApplySuggestion(r)
  PROVE  SuggestionsIInv'
<1>0. PICK s \in Suggestion : s = inReview[r].row /\ s # NoSuggestion
  BY DEF ApplySuggestion, SuggestionsIInv, SuggestionsTypeOK
<1> DEFINE write == [row |-> s, status |-> inReview[r].status, by |-> r]
           row == [suggestions[s] EXCEPT !.state = "approved"]
<1>1. /\ suggestions[s] \in SuggestionRow /\ suggestions[s].state # "none"
      /\ inReview[r].status \in SuggestedStatus
      /\ inReview[r].status = "verified" => r \in Auditor
  BY <1>0 DEF SuggestionsIInv, SuggestionsTypeOK, SuggestionRow, Entitled
<1>2. /\ statusWrites' = statusWrites \cup {write}
      /\ suggestions' = [suggestions EXCEPT ![s] = row]
      /\ inReview' = [inReview EXCEPT ![r] = NotReviewing]
      /\ meddled' = (meddled \/ \E q \in StatusReviewer \ {r} : inReview[q].row = s)
      /\ s # NoSuggestion
  BY <1>0 DEF ApplySuggestion, ReviewedByOthers, SuggestionsIInv, SuggestionsTypeOK
<1>3. /\ row \in SuggestionRow /\ row.state = "approved" /\ row.status = suggestions[s].status
      /\ write.row = s /\ write.status = inReview[r].status /\ write.by = r
      /\ write \in [row : Suggestion, status : SuggestedStatus, by : StatusReviewer]
  BY <1>1 DEF SuggestionRow
<1>4. /\ NotReviewing \in ReviewRow /\ NotReviewing.row = NoSuggestion
      /\ s = inReview[r].row
  BY <1>0 DEF NotReviewing, ReviewRow
<1> HIDE DEF write, row
<1>5. \A q \in Suggestion : suggestions'[q] = IF q = s THEN row ELSE suggestions[q]
  BY <1>1, <1>2 DEF SuggestionsIInv, SuggestionsTypeOK
<1>6. \A q \in StatusReviewer : inReview'[q] = IF q = r THEN NotReviewing ELSE inReview[q]
  BY <1>2 DEF SuggestionsIInv, SuggestionsTypeOK
<1>7. SuggestionsTypeOK'
  <2>1. suggestions' \in [Suggestion -> SuggestionRow]
    BY <1>2, <1>3 DEF SuggestionsIInv, SuggestionsTypeOK, SuggestionRow
  <2>2. inReview' \in [StatusReviewer -> ReviewRow]
    BY <1>2, <1>4 DEF SuggestionsIInv, SuggestionsTypeOK, ReviewRow
  <2>3. statusWrites' \subseteq [row : Suggestion, status : SuggestedStatus, by : StatusReviewer]
    BY <1>2, <1>3 DEF SuggestionsIInv, SuggestionsTypeOK
  <2>4. meddled' \in BOOLEAN
    BY <1>2 DEF SuggestionsIInv, SuggestionsTypeOK
  <2>5. QED
    BY <2>1, <2>2, <2>3, <2>4 DEF SuggestionsTypeOK, SuggestionRow, ReviewRow
<1>8. StatusesKnown'
  BY <1>1, <1>3, <1>5 DEF SuggestionsIInv, StatusesKnown
<1>9. Entitled' /\ VerifiedByAuditor'
  <2>1. VerifiedByAuditor'
    BY <1>1, <1>2, <1>3 DEF SuggestionsIInv, VerifiedByAuditor
  <2>2. \A q \in Suggestion : suggestions[q].state # "none" => suggestions'[q].state # "none"
    BY <1>3, <1>5
  <2>3. ASSUME NEW q \in StatusReviewer, inReview'[q].row # NoSuggestion
        PROVE  inReview'[q] = inReview[q] /\ inReview[q].row \in Suggestion
    BY <1>4, <1>6, <2>3 DEF SuggestionsIInv, SuggestionsTypeOK
  <2>4. QED
    BY <2>1, <2>2, <2>3 DEF SuggestionsIInv, Entitled
<1>10. AppliedIsApproved'
  BY <1>2, <1>3, <1>5 DEF SuggestionsIInv, AppliedIsApproved, SuggestionsTypeOK
<1>11. Undisturbed'
  <2> SUFFICES ASSUME ~meddled' PROVE Undisturbed'
    BY DEF Undisturbed
  <2>1. ~meddled /\ \A q \in StatusReviewer \ {r} : inReview[q].row # s
    BY <1>2
  <2>2. suggestions[s].state = "pending" /\ suggestions[s].status = inReview[r].status
    BY <1>2, <1>4, <2>1 DEF SuggestionsIInv, Undisturbed
  <2>3. Writes(s) = {}
    BY <2>2 DEF SuggestionsIInv, AppliedIsApproved, Writes
  <2>4. Writes(s)' = {write}
    BY <1>2, <1>3, <2>3 DEF Writes
  <2>5. ASSUME NEW q \in StatusReviewer, inReview'[q].row # NoSuggestion
        PROVE  /\ suggestions'[inReview'[q].row].state = "pending"
               /\ suggestions'[inReview'[q].row].status = inReview'[q].status
    <3>1. q # r /\ inReview'[q] = inReview[q] /\ inReview[q].row # s
      BY <1>4, <1>6, <2>1, <2>5
    <3>2. inReview[q].row \in Suggestion
      BY <2>5, <3>1 DEF SuggestionsIInv, SuggestionsTypeOK
    <3>3. QED
      BY <1>5, <2>1, <2>5, <3>1, <3>2 DEF SuggestionsIInv, Undisturbed
  <2>6. ASSUME NEW q \in Suggestion, suggestions'[q].state = "approved"
        PROVE  \E w \in statusWrites' : Writes(q)' = {w} /\ w.status = suggestions'[q].status
    <3>1. CASE q = s
      BY <1>2, <1>3, <1>5, <2>2, <2>4, <3>1
    <3>2. CASE q # s
      <4>1. Writes(q)' = Writes(q)
        BY <1>2, <1>3, <3>2 DEF Writes
      <4>2. PICK w \in statusWrites : Writes(q) = {w} /\ w.status = suggestions[q].status
        BY <1>5, <2>1, <2>6, <3>2 DEF SuggestionsIInv, Undisturbed
      <4>3. QED
        BY <1>2, <1>5, <3>2, <4>1, <4>2
    <3>3. QED
      BY <3>1, <3>2
  <2>7. QED
    BY <2>5, <2>6 DEF Undisturbed
<1>12. QED
  BY <1>7, <1>8, <1>9, <1>10, <1>11 DEF SuggestionsIInv

\* Every step keeps the invariant.
LEMMA SuggestionsStep ==
  SuggestionsIInv /\ [SuggestionsNext]_suggestionVars => SuggestionsIInv'
<1> SUFFICES ASSUME SuggestionsIInv, [SuggestionsNext]_suggestionVars PROVE SuggestionsIInv'
  OBVIOUS
<1>1. ASSUME NEW s \in Suggestion, NEW status \in SuggestedStatus, ScanControl(s, status)
      PROVE  SuggestionsIInv'
  BY <1>1, ScanOrReject
<1>2. ASSUME NEW r \in StatusReviewer,
             \/ \E s \in Suggestion : ReadSuggestion(r, s) \/ RejectSuggestion(r, s)
             \/ ApplySuggestion(r) \/ ApplyFails(r)
      PROVE  SuggestionsIInv'
  BY <1>2, ScanOrReject, ReviewMoves, ApplyKeeps
<1>3. CASE UNCHANGED suggestionVars
  BY <1>3 DEF suggestionVars, SuggestionsIInv, SuggestionsTypeOK, StatusesKnown, Entitled,
              VerifiedByAuditor, AppliedIsApproved, Undisturbed, Writes
<1>4. QED
  BY <1>1, <1>2, <1>3 DEF SuggestionsNext

\* The invariant holds of every state.
LEMMA SuggestionsInvariance == SuggestionsSpec => []SuggestionsIInv
<1>1. QED
  BY SuggestionsInitially, SuggestionsStep, PTL DEF SuggestionsSpec

\* Only auditors and administrators verify, for every number of reviewers, scans and
\* suggestions.
THEOREM AuditorsVerify == SuggestionsSpec => []VerifiedByAuditor
<1>1. SuggestionsIInv => VerifiedByAuditor
  BY DEF SuggestionsIInv
<1>2. QED
  BY <1>1, SuggestionsInvariance, PTL

\* What is rejected is not applied, for every number of reviewers and suggestions.
THEOREM RejectedStaysOut == SuggestionsSpec => []RejectedNotApplied
<1>1. SuggestionsIInv => RejectedNotApplied
  BY DEF SuggestionsIInv, AppliedIsApproved, RejectedNotApplied
<1>2. QED
  BY <1>1, SuggestionsInvariance, PTL

\* The record says what was applied unless an approval was disturbed, for every
\* number of reviewers, scans and suggestions.
THEOREM RecordTellsTruth == SuggestionsSpec => []RecordIsWhatWasApplied
<1>1. SuggestionsIInv => RecordIsWhatWasApplied
  <2> SUFFICES ASSUME SuggestionsIInv, ~meddled, NEW s \in Suggestion
               PROVE  IF suggestions[s].state = "approved"
                      THEN Cardinality(Writes(s)) = 1
                             /\ \A w \in Writes(s) : w.status = suggestions[s].status
                      ELSE Writes(s) = {}
    BY DEF RecordIsWhatWasApplied, Writes
  <2>1. CASE suggestions[s].state = "approved"
    <3>1. PICK w \in statusWrites : Writes(s) = {w} /\ w.status = suggestions[s].status
      BY <2>1 DEF SuggestionsIInv, Undisturbed
    <3>2. Cardinality({w}) = 1
      BY FS_Singleton
    <3>3. QED
      BY <2>1, <3>1, <3>2
  <2>2. CASE suggestions[s].state # "approved"
    BY <2>2 DEF SuggestionsIInv, AppliedIsApproved, Writes
  <2>3. QED
    BY <2>1, <2>2
<1>2. QED
  BY <1>1, SuggestionsInvariance, PTL

-----------------------------------------------------------------------------
\* A request that is about to mark an item has made evidence of it.
MarksPromoted ==
  \A r \in EvidenceReviewer :
    itemReview[r].phase = "mark" => promotions[itemReview[r].item] > 0

MarkedBy(r, i) == itemReview[r].phase = "mark" /\ itemReview[r].item = i

\* While requests do not cross, the items in their hands are pending and different,
\* and an item has been promoted no more often than requests have failed, unless it
\* is approved or about to be.
Uncrossed ==
  ~crossed =>
    /\ \A r \in EvidenceReviewer : itemReview[r].phase # "idle" =>
         /\ pendingItems[itemReview[r].item] = "pending"
         /\ \A q \in EvidenceReviewer \ {r} : itemReview[q].item # itemReview[r].item
    /\ \A i \in PendingItem :
         /\ promotions[i] <= 1 + reviewFaults
         /\ \/ promotions[i] <= reviewFaults
            \/ pendingItems[i] = "approved" \/ \E r \in EvidenceReviewer : MarkedBy(r, i)

\* The invariant that every step keeps.
ReviewIInv == ReviewTypeOK /\ MarksPromoted /\ ApprovedIsPromoted /\ Uncrossed

ItemReview ==
  [phase : {"idle", "promote", "mark", "reject"}, item : PendingItem \cup {NoItem}]

\* No item has been suggested at first.
LEMMA ReviewInitially == ReviewInit => ReviewIInv
<1> SUFFICES ASSUME ReviewInit PROVE ReviewIInv
  OBVIOUS
<1>1. \A r \in EvidenceReviewer : itemReview[r].phase = "idle" /\ itemReview[r].item = NoItem
  BY DEF ReviewInit, NoReview
<1>2. ReviewTypeOK
  <2>1. NoReview \in ItemReview
    BY DEF NoReview, ItemReview
  <2>2. QED
    BY <1>1, <2>1 DEF ReviewInit, ReviewTypeOK, ItemReview
<1>3. MarksPromoted /\ ApprovedIsPromoted /\ Uncrossed
  BY <1>1 DEF ReviewInit, MarksPromoted, ApprovedIsPromoted, Uncrossed
<1>4. QED
  BY <1>2, <1>3 DEF ReviewIInv

\* What a step that replaces a request's row does to the requests.
LEMMA RequestReplaced ==
  ASSUME ReviewIInv, NEW r \in EvidenceReviewer, NEW w \in ItemReview,
         itemReview' = [itemReview EXCEPT ![r] = w]
  PROVE  /\ itemReview' \in [EvidenceReviewer -> ItemReview]
         /\ \A q \in EvidenceReviewer : itemReview'[q] = IF q = r THEN w ELSE itemReview[q]
<1>1. QED
  BY DEF ReviewIInv, ReviewTypeOK, ItemReview

\* The end of a request.
LEMMA EndedRow ==
  /\ NoReview \in ItemReview /\ NoReview.phase = "idle" /\ NoReview.item = NoItem
<1>1. QED
  BY DEF NoReview, ItemReview

\* An item is suggested, or taken up.
LEMMA SuggestOrRead ==
  ASSUME ReviewIInv, NEW i \in PendingItem,
         \/ SuggestItem(i)
         \/ \E r \in EvidenceReviewer, phase \in {"promote", "reject"} : ReadItem(r, i, phase)
  PROVE  ReviewIInv'
<1>1. CASE SuggestItem(i)
  <2>1. /\ UNCHANGED <<promotions, itemReview, reviewFaults, crossed>>
        /\ pendingItems[i] = "none"
        /\ pendingItems' \in [PendingItem -> {"none", "pending", "approved", "rejected"}]
        /\ \A j \in PendingItem : pendingItems'[j] = IF j = i THEN "pending" ELSE pendingItems[j]
    BY <1>1 DEF SuggestItem, ReviewIInv, ReviewTypeOK
  <2>2. ReviewTypeOK'
    BY <2>1 DEF ReviewIInv, ReviewTypeOK
  <2>3. MarksPromoted' /\ ApprovedIsPromoted'
    BY <2>1 DEF ReviewIInv, MarksPromoted, ApprovedIsPromoted
  <2>4. ASSUME NEW r \in EvidenceReviewer, itemReview[r].phase # "idle"
        PROVE  itemReview[r].item \in PendingItem /\ itemReview[r].item # i
    BY <2>1, <2>4 DEF ReviewIInv, ReviewTypeOK
  <2>5. Uncrossed'
    BY <2>1, <2>4 DEF ReviewIInv, Uncrossed, MarkedBy
  <2>6. QED
    BY <2>2, <2>3, <2>5 DEF ReviewIInv
<1>2. ASSUME NEW r \in EvidenceReviewer, NEW phase \in {"promote", "reject"},
             ReadItem(r, i, phase)
      PROVE  ReviewIInv'
  <2> DEFINE w == [phase |-> phase, item |-> i]
  <2>1. /\ UNCHANGED <<pendingItems, promotions, reviewFaults>>
        /\ itemReview' = [itemReview EXCEPT ![r] = w]
        /\ crossed' = (crossed \/ \E q \in EvidenceReviewer : itemReview[q].item = i)
        /\ pendingItems[i] = "pending" /\ itemReview[r].phase = "idle"
    BY <1>2 DEF ReadItem
  <2>2. w \in ItemReview /\ w.phase \in {"promote", "reject"} /\ w.item = i
    BY DEF ItemReview
  <2> HIDE DEF w
  <2>3. /\ itemReview' \in [EvidenceReviewer -> ItemReview]
        /\ \A q \in EvidenceReviewer : itemReview'[q] = IF q = r THEN w ELSE itemReview[q]
    BY <2>1, <2>2, RequestReplaced
  <2>4. crossed' \in BOOLEAN
    BY <2>1 DEF ReviewIInv, ReviewTypeOK
  <2>5. ReviewTypeOK'
    BY <2>1, <2>2, <2>3, <2>4 DEF ReviewIInv, ReviewTypeOK, ItemReview
  <2>6. MarksPromoted' /\ ApprovedIsPromoted'
    BY <2>1, <2>2, <2>3 DEF ReviewIInv, MarksPromoted, ApprovedIsPromoted
  <2>7. Uncrossed'
    <3> SUFFICES ASSUME ~crossed' PROVE Uncrossed'
      BY DEF Uncrossed
    <3>1. ~crossed /\ \A q \in EvidenceReviewer : itemReview[q].item # i
      BY <2>1
    <3>2. ASSUME NEW q \in EvidenceReviewer, itemReview'[q].phase # "idle"
          PROVE  /\ pendingItems'[itemReview'[q].item] = "pending"
                 /\ \A p \in EvidenceReviewer \ {q} : itemReview'[p].item # itemReview'[q].item
      BY <2>1, <2>2, <2>3, <3>1, <3>2 DEF ReviewIInv, Uncrossed
    <3>3. \A q \in EvidenceReviewer, j \in PendingItem : MarkedBy(q, j) => MarkedBy(q, j)'
      BY <2>1, <2>3 DEF MarkedBy
    <3>4. QED
      BY <2>1, <3>1, <3>2, <3>3 DEF ReviewIInv, Uncrossed
  <2>8. QED
    BY <2>5, <2>6, <2>7 DEF ReviewIInv
<1>3. QED
  BY <1>1, <1>2

\* An item becomes evidence.
LEMMA PromoteKeeps ==
  ASSUME ReviewIInv, NEW r \in EvidenceReviewer, PromoteItem(r)
  PROVE  ReviewIInv'
<1>1. PICK i \in PendingItem : i = itemReview[r].item /\ pendingItems[i] # "none"
  BY DEF PromoteItem, ReviewIInv, ReviewTypeOK
<1> DEFINE w == [itemReview[r] EXCEPT !.phase = "mark"]
<1>2. /\ UNCHANGED <<pendingItems, reviewFaults, crossed>>
      /\ promotions' = [promotions EXCEPT ![i] = @ + 1]
      /\ itemReview' = [itemReview EXCEPT ![r] = w] /\ itemReview[r].phase = "promote"
  BY <1>1 DEF PromoteItem, ReviewIInv, ReviewTypeOK
<1>3. w \in ItemReview /\ w.phase = "mark" /\ w.item = i
  BY <1>1 DEF ReviewIInv, ReviewTypeOK, ItemReview
<1> HIDE DEF w
<1>4. /\ itemReview' \in [EvidenceReviewer -> ItemReview]
      /\ \A q \in EvidenceReviewer : itemReview'[q] = IF q = r THEN w ELSE itemReview[q]
  BY <1>2, <1>3, RequestReplaced
<1>5. /\ promotions' \in [PendingItem -> Nat] /\ promotions \in [PendingItem -> Nat]
      /\ \A j \in PendingItem : promotions'[j] = IF j = i THEN promotions[i] + 1 ELSE promotions[j]
  BY <1>2 DEF ReviewIInv, ReviewTypeOK
<1>6. ReviewTypeOK'
  BY <1>1, <1>2, <1>3, <1>4, <1>5 DEF ReviewIInv, ReviewTypeOK, ItemReview
<1>7. \A j \in PendingItem : promotions[j] > 0 => promotions'[j] > 0
  BY <1>5
<1>8. promotions'[i] > 0
  BY <1>5
<1>9. MarksPromoted'
  <2>1. ASSUME NEW q \in EvidenceReviewer, q # r, itemReview[q].phase = "mark"
        PROVE  promotions'[itemReview[q].item] > 0
    <3>1. itemReview[q].item \in PendingItem
      BY <2>1 DEF ReviewIInv, ReviewTypeOK
    <3>2. QED
      BY <1>7, <2>1, <3>1 DEF ReviewIInv, MarksPromoted
  <2>2. QED
    BY <1>3, <1>4, <1>8, <2>1 DEF MarksPromoted
<1>10. ApprovedIsPromoted'
  BY <1>2, <1>7 DEF ReviewIInv, ApprovedIsPromoted
<1>11. Uncrossed'
  <2> SUFFICES ASSUME ~crossed PROVE Uncrossed'
    BY <1>2 DEF Uncrossed
  <2>1. /\ pendingItems[i] = "pending"
        /\ \A q \in EvidenceReviewer \ {r} : itemReview[q].item # i
    BY <1>1, <1>2 DEF ReviewIInv, Uncrossed
  <2>2. promotions[i] <= reviewFaults /\ reviewFaults \in Nat
    BY <1>1, <1>2, <2>1 DEF ReviewIInv, ReviewTypeOK, Uncrossed, MarkedBy
  <2>3. \A q \in EvidenceReviewer : itemReview'[q].item = itemReview[q].item
    BY <1>1, <1>3, <1>4
  <2>4. \A q \in EvidenceReviewer : itemReview'[q].phase # "idle" => itemReview[q].phase # "idle"
    BY <1>2, <1>4
  <2>5. ASSUME NEW j \in PendingItem
        PROVE  /\ promotions'[j] <= 1 + reviewFaults
               /\ \/ promotions'[j] <= reviewFaults
                  \/ pendingItems[j] = "approved"
                  \/ \E q \in EvidenceReviewer : MarkedBy(q, j)'
    <3>1. CASE j = i
      <4>1. MarkedBy(r, i)'
        BY <1>3, <1>4 DEF MarkedBy
      <4>2. promotions'[i] <= 1 + reviewFaults
        BY <1>5, <2>2
      <4>3. QED
        BY <3>1, <4>1, <4>2
    <3>2. CASE j # i
      <4>1. \A q \in EvidenceReviewer : MarkedBy(q, j) => MarkedBy(q, j)'
        BY <1>2, <1>4 DEF MarkedBy
      <4>2. QED
        BY <1>5, <3>2, <4>1 DEF ReviewIInv, Uncrossed
    <3>3. QED
      BY <3>1, <3>2
  <2>6. QED
    BY <1>2, <2>3, <2>4, <2>5 DEF ReviewIInv, Uncrossed
<1>12. QED
  BY <1>6, <1>9, <1>10, <1>11 DEF ReviewIInv

\* An item is marked, by a request that ends.
LEMMA MarkKeeps ==
  ASSUME ReviewIInv, NEW r \in EvidenceReviewer, MarkApproved(r) \/ MarkRejected(r)
  PROVE  ReviewIInv'
<1>1. PICK i \in PendingItem :
        /\ i = itemReview[r].item /\ pendingItems[i] # "none"
        /\ itemReview[r].phase \in {"mark", "reject"}
  BY DEF MarkApproved, MarkRejected, ReviewIInv, ReviewTypeOK
<1>2. PICK verdict \in {"approved", "rejected"} :
        /\ pendingItems' = [pendingItems EXCEPT ![i] = verdict]
        /\ verdict = "approved" <=> itemReview[r].phase = "mark"
  BY <1>1 DEF MarkApproved, MarkRejected
<1>3. /\ UNCHANGED <<promotions, reviewFaults, crossed>>
      /\ itemReview' = [itemReview EXCEPT ![r] = NoReview]
  BY DEF MarkApproved, MarkRejected, EndReview
<1>4. /\ itemReview' \in [EvidenceReviewer -> ItemReview]
      /\ \A q \in EvidenceReviewer : itemReview'[q] = IF q = r THEN NoReview ELSE itemReview[q]
  BY <1>3, EndedRow, RequestReplaced
<1>5. /\ pendingItems' \in [PendingItem -> {"none", "pending", "approved", "rejected"}]
      /\ \A j \in PendingItem : pendingItems'[j] = IF j = i THEN verdict ELSE pendingItems[j]
  BY <1>2 DEF ReviewIInv, ReviewTypeOK
<1>6. ReviewTypeOK'
  BY <1>3, <1>4, <1>5, EndedRow DEF ReviewIInv, ReviewTypeOK, ItemReview
<1>7. MarksPromoted'
  BY <1>3, <1>4, EndedRow DEF ReviewIInv, MarksPromoted
<1>8. ApprovedIsPromoted'
  BY <1>1, <1>2, <1>3, <1>5 DEF ReviewIInv, ApprovedIsPromoted, MarksPromoted
<1>9. Uncrossed'
  <2> SUFFICES ASSUME ~crossed PROVE Uncrossed'
    BY <1>3 DEF Uncrossed
  <2>1. /\ pendingItems[i] = "pending"
        /\ \A q \in EvidenceReviewer \ {r} : itemReview[q].item # i
    BY <1>1 DEF ReviewIInv, Uncrossed
  <2>2. ASSUME NEW q \in EvidenceReviewer, itemReview'[q].phase # "idle"
        PROVE  /\ pendingItems'[itemReview'[q].item] = "pending"
               /\ \A p \in EvidenceReviewer \ {q} : itemReview'[p].item # itemReview'[q].item
    <3>1. q # r /\ itemReview'[q] = itemReview[q]
      BY <1>4, <2>2, EndedRow
    <3>2. itemReview[q].item \in PendingItem /\ itemReview[q].item # i
      BY <2>1, <2>2, <3>1 DEF ReviewIInv, ReviewTypeOK
    <3>3. itemReview[q].item # NoItem
      BY <3>2, ReviewParameters
    <3>4. QED
      BY <1>4, <1>5, <2>2, <3>1, <3>2, <3>3, EndedRow DEF ReviewIInv, Uncrossed
  <2>3. ASSUME NEW j \in PendingItem
        PROVE  /\ promotions[j] <= 1 + reviewFaults
               /\ \/ promotions[j] <= reviewFaults
                  \/ pendingItems'[j] = "approved"
                  \/ \E q \in EvidenceReviewer : MarkedBy(q, j)'
    <3>1. CASE j = i /\ verdict = "rejected"
      <4>1. itemReview[r].phase = "reject"
        BY <1>1, <1>2, <3>1
      <4>2. \A q \in EvidenceReviewer : ~MarkedBy(q, i)
        BY <1>1, <2>1, <4>1 DEF MarkedBy
      <4>3. QED
        BY <2>1, <3>1, <4>2 DEF ReviewIInv, Uncrossed
    <3>2. CASE j = i /\ verdict = "approved"
      BY <1>5, <3>2 DEF ReviewIInv, Uncrossed
    <3>3. CASE j # i
      <4>1. \A q \in EvidenceReviewer : MarkedBy(q, j) => MarkedBy(q, j)'
        BY <1>1, <1>4, <3>3 DEF MarkedBy
      <4>2. QED
        BY <1>5, <3>3, <4>1 DEF ReviewIInv, Uncrossed
    <3>4. QED
      BY <3>1, <3>2, <3>3
  <2>4. QED
    BY <1>3, <2>2, <2>3 DEF Uncrossed
<1>10. QED
  BY <1>6, <1>7, <1>8, <1>9 DEF ReviewIInv

\* A request dies, and its failure makes up for the evidence it may have made.
LEMMA ReviewDiesKeeps ==
  ASSUME ReviewIInv, NEW r \in EvidenceReviewer, ReviewDies(r)
  PROVE  ReviewIInv'
<1>1. /\ UNCHANGED <<pendingItems, promotions, crossed>>
      /\ reviewFaults' = reviewFaults + 1 /\ reviewFaults \in Nat
      /\ itemReview' = [itemReview EXCEPT ![r] = NoReview]
  BY DEF ReviewDies, EndReview, ReviewIInv, ReviewTypeOK
<1>2. /\ itemReview' \in [EvidenceReviewer -> ItemReview]
      /\ \A q \in EvidenceReviewer : itemReview'[q] = IF q = r THEN NoReview ELSE itemReview[q]
  BY <1>1, EndedRow, RequestReplaced
<1>3. ReviewTypeOK'
  BY <1>1, <1>2, EndedRow DEF ReviewIInv, ReviewTypeOK, ItemReview
<1>4. MarksPromoted' /\ ApprovedIsPromoted'
  BY <1>1, <1>2, EndedRow DEF ReviewIInv, MarksPromoted, ApprovedIsPromoted
<1>5. Uncrossed'
  <2> SUFFICES ASSUME ~crossed PROVE Uncrossed'
    BY <1>1 DEF Uncrossed
  <2>1. ASSUME NEW q \in EvidenceReviewer, itemReview'[q].phase # "idle"
        PROVE  /\ pendingItems[itemReview'[q].item] = "pending"
               /\ \A p \in EvidenceReviewer \ {q} : itemReview'[p].item # itemReview'[q].item
    <3>1. q # r /\ itemReview'[q] = itemReview[q]
      BY <1>2, <2>1, EndedRow
    <3>2. itemReview[q].item \in PendingItem /\ itemReview[q].item # NoItem
      BY <2>1, <3>1, ReviewParameters DEF ReviewIInv, ReviewTypeOK
    <3>3. QED
      BY <1>2, <2>1, <3>1, <3>2, EndedRow DEF ReviewIInv, Uncrossed
  <2>2. \A i \in PendingItem : promotions[i] \in Nat /\ promotions[i] <= 1 + reviewFaults
    BY DEF ReviewIInv, ReviewTypeOK, Uncrossed
  <2>3. \A i \in PendingItem : promotions[i] <= reviewFaults' /\ promotions[i] <= 1 + reviewFaults'
    BY <1>1, <2>2
  <2>4. QED
    BY <1>1, <2>1, <2>3 DEF Uncrossed
<1>6. QED
  BY <1>3, <1>4, <1>5 DEF ReviewIInv

\* Every step keeps the invariant.
LEMMA ReviewStep == ReviewIInv /\ [ReviewNext]_reviewVars => ReviewIInv'
<1> SUFFICES ASSUME ReviewIInv, [ReviewNext]_reviewVars PROVE ReviewIInv'
  OBVIOUS
<1>1. ASSUME NEW i \in PendingItem, SuggestItem(i) PROVE ReviewIInv'
  BY <1>1, SuggestOrRead
<1>2. ASSUME NEW r \in EvidenceReviewer,
             \/ \E i \in PendingItem, phase \in {"promote", "reject"} : ReadItem(r, i, phase)
             \/ PromoteItem(r) \/ MarkApproved(r) \/ MarkRejected(r) \/ ReviewDies(r)
      PROVE  ReviewIInv'
  BY <1>2, SuggestOrRead, PromoteKeeps, MarkKeeps, ReviewDiesKeeps
<1>3. CASE UNCHANGED reviewVars
  BY <1>3 DEF reviewVars, ReviewIInv, ReviewTypeOK, MarksPromoted, ApprovedIsPromoted,
              Uncrossed, MarkedBy
<1>4. QED
  BY <1>1, <1>2, <1>3 DEF ReviewNext

\* The invariant holds of every state.
LEMMA ReviewInvariance == ReviewSpec => []ReviewIInv
<1>1. QED
  BY ReviewInitially, ReviewStep, PTL DEF ReviewSpec

\* What is marked as approved has become evidence, and each item has once, and once
\* more for each failure, for every number of items and people whose requests do not
\* cross.
THEOREM PromotedOnceEach == ReviewSpec => []PromotedOnce
<1>1. ReviewIInv => PromotedOnce
  <2> SUFFICES ASSUME ReviewIInv, ~crossed, NEW i \in PendingItem
               PROVE  /\ promotions[i] <= 1 + reviewFaults
                      /\ reviewFaults = 0 /\ promotions[i] > 0 =>
                           \/ pendingItems[i] = "approved"
                           \/ \E r \in EvidenceReviewer :
                                itemReview[r].item = i /\ itemReview[r].phase = "mark"
    BY DEF PromotedOnce, ReviewIInv
  <2>1. promotions[i] \in Nat
    BY DEF ReviewIInv, ReviewTypeOK
  <2>2. /\ promotions[i] <= 1 + reviewFaults
        /\ \/ promotions[i] <= reviewFaults
           \/ pendingItems[i] = "approved" \/ \E r \in EvidenceReviewer : MarkedBy(r, i)
    BY DEF ReviewIInv, Uncrossed
  <2>3. QED
    BY <2>1, <2>2 DEF MarkedBy
<1>2. QED
  BY <1>1, ReviewInvariance, PTL

-----------------------------------------------------------------------------
(***************************************************************************)
(* AccessReview: a campaign and its evidence                               *)
(***************************************************************************)

ReviewItem ==
  [decision : {"pending", "certified", "revoked"}, reviewer : AccessReviewer \cup {NoSubject}]
TallyRow == [pending : Nat, revoked : Nat, selfReviewed : Nat]
ItemList == [Subject -> ReviewItem]
Evidence == [counts : TallyRow, list : ItemList]

DecisionRow == [subject : Subject \cup {NoSubject}, decision : {"pending", "certified", "revoked"}]
CompletionRow ==
  [phase : {"idle", "count", "list", "commit"}, counts : TallyRow, list : ItemList \cup {<<>>}]

AccessTyped ==
  /\ campaign \in {"draft", "active", "completed", "cancelled"}
  /\ reviewItems \in ItemList
  /\ deciding \in [AccessReviewer -> DecisionRow]
  /\ completing \in [Completer -> CompletionRow]
  /\ decisions \in Nat /\ revised \in BOOLEAN

\* Only reviewers decide, and about themselves only administrators.
Separate(list) ==
  \A s \in Subject :
    /\ list[s].decision = "pending" <=> list[s].reviewer \notin AccessReviewer
    /\ list[s].reviewer = s => s \in Administrator

AllDecided(list) == \A s \in Subject : list[s].decision # "pending"

\* What the checks of a decision in flight have established.
DecisionsSound ==
  \A r \in AccessReviewer : deciding[r].subject # NoSubject =>
    /\ deciding[r].decision # "pending"
    /\ r = deciding[r].subject => r \in Administrator

\* What a completion has counted and listed is what is on record, unless a decision
\* has been written since.
CompletionSound(w) ==
  /\ w.phase \in {"list", "commit"} =>
       AllDecided(reviewItems) /\ (~revised => w.counts = CountsOf(reviewItems))
  /\ w.phase = "commit" =>
       /\ w.list \in ItemList /\ AllDecided(w.list) /\ Separate(w.list)
       /\ ~revised => w.list = reviewItems

EvidenceSound(e) ==
  /\ e \in Evidence /\ AllDecided(e.list) /\ Separate(e.list)
  /\ ~revised => e.list = reviewItems /\ e.counts = CountsOf(e.list)

AccessIInv ==
  /\ AccessTyped /\ Separate(reviewItems) /\ DecisionsSound
  /\ \A c \in Completer : CompletionSound(completing[c])
  /\ IF campaign = "completed"
     THEN \E e : reviewEvidence = <<e>> /\ EvidenceSound(e)
     ELSE reviewEvidence = <<>>

\* Counting is right: nobody is undecided when the count of the undecided is zero.
LEMMA CountsAreRight ==
  ASSUME NEW list \in ItemList
  PROVE  CountsOf(list) \in TallyRow /\ (~(CountsOf(list).pending > 0) => AllDecided(list))
<1> DEFINE P == {s \in Subject : list[s].decision = "pending"}
           R == {s \in Subject : list[s].decision = "revoked"}
           O == {s \in Subject : list[s].reviewer = s}
<1>1. IsFiniteSet(P) /\ IsFiniteSet(R) /\ IsFiniteSet(O)
  BY AccessReviewParameters, FS_Subset
<1>2. Cardinality(P) \in Nat /\ Cardinality(R) \in Nat /\ Cardinality(O) \in Nat
  BY <1>1, FS_CardinalityType
<1>3. Cardinality(P) = 0 <=> P = {}
  BY <1>1, FS_EmptySet
<1>4. /\ CountsOf(list).pending = Cardinality(P)
      /\ CountsOf(list)
           = [pending |-> Cardinality(P), revoked |-> Cardinality(R),
              selfReviewed |-> Cardinality(O)]
  BY DEF CountsOf
<1>5. CountsOf(list) \in TallyRow
  BY <1>2, <1>4 DEF TallyRow
<1>6. ASSUME ~(CountsOf(list).pending > 0) PROVE AllDecided(list)
  BY <1>2, <1>3, <1>4, <1>6 DEF AllDecided
<1>7. QED
  BY <1>5, <1>6

\* A draft, before anything.
LEMMA AccessInitially == AccessInit => AccessIInv
<1> SUFFICES ASSUME AccessInit PROVE AccessIInv
  OBVIOUS
<1>1. Undecided \in ReviewItem /\ NotDeciding \in DecisionRow /\ NotCompleting \in CompletionRow
  BY DEF Undecided, NotDeciding, NotCompleting, NoCounts, ReviewItem, DecisionRow,
         CompletionRow, TallyRow
<1>2. AccessTyped
  BY <1>1 DEF AccessInit, AccessTyped, ItemList
<1>3. Separate(reviewItems) /\ DecisionsSound
  BY AccessReviewParameters DEF AccessInit, Separate, DecisionsSound, Undecided, NotDeciding
<1>4. \A c \in Completer : CompletionSound(completing[c])
  BY DEF AccessInit, CompletionSound, NotCompleting
<1>5. QED
  BY <1>2, <1>3, <1>4 DEF AccessInit, AccessIInv

\* A step of decisions in flight that changes no row.
LEMMA DecidingStep ==
  ASSUME AccessIInv, NEW r \in AccessReviewer, NEW d \in DecisionRow,
         deciding' = [deciding EXCEPT ![r] = d],
         d.subject # NoSubject =>
           d.decision # "pending" /\ (r = d.subject => r \in Administrator),
         UNCHANGED <<campaign, reviewItems, completing, reviewEvidence, decisions, revised>>
  PROVE  AccessIInv'
<1>1. \A q \in AccessReviewer : deciding'[q] = IF q = r THEN d ELSE deciding[q]
  BY DEF AccessIInv, AccessTyped
<1>2. AccessTyped'
  BY DEF AccessIInv, AccessTyped
<1>3. DecisionsSound'
  BY <1>1 DEF AccessIInv, DecisionsSound
<1>4. QED
  BY <1>2, <1>3 DEF AccessIInv, Separate, CompletionSound, AllDecided, EvidenceSound

\* A decision is written: it is nobody's own but an administrator's, and what
\* completions have seen is out of date.
LEMMA RecordDecisionStep ==
  ASSUME AccessIInv, NEW r \in AccessReviewer, RecordDecision(r)
  PROVE  AccessIInv'
<1> DEFINE s == deciding[r].subject
           item == [decision |-> deciding[r].decision, reviewer |-> r]
<1>1. /\ UNCHANGED <<campaign, completing, reviewEvidence>> /\ s # NoSubject
      /\ reviewItems' = [reviewItems EXCEPT ![s] = item]
      /\ decisions' = decisions + 1 /\ deciding' = [deciding EXCEPT ![r] = NotDeciding]
      /\ revised' \in BOOLEAN
      /\ ~revised' => ~revised /\ campaign = "active"
                      /\ \A c \in Completer : completing[c].phase = "idle"
  BY DEF RecordDecision, EndDecision
<1>2. /\ s \in Subject /\ item \in ReviewItem /\ item.decision # "pending"
      /\ item.reviewer = r /\ (r = s => r \in Administrator)
  BY <1>1 DEF AccessIInv, AccessTyped, DecisionsSound, DecisionRow, ReviewItem
<1> HIDE DEF item
<1>3. \A p \in Subject : reviewItems'[p] = IF p = s THEN item ELSE reviewItems[p]
  BY <1>1 DEF AccessIInv, AccessTyped, ItemList
<1>4. NotDeciding \in DecisionRow /\ NotDeciding.subject = NoSubject
  BY DEF NotDeciding, DecisionRow
<1>5. AccessTyped'
  BY <1>1, <1>2, <1>4 DEF AccessIInv, AccessTyped, ItemList
<1>6. Separate(reviewItems)'
  BY <1>2, <1>3 DEF AccessIInv, Separate
<1>7. AllDecided(reviewItems) => AllDecided(reviewItems)'
  BY <1>2, <1>3 DEF AllDecided
<1>8. DecisionsSound'
  BY <1>1, <1>4 DEF AccessIInv, AccessTyped, DecisionsSound
<1>9. \A c \in Completer : CompletionSound(completing[c])'
  BY <1>1, <1>7 DEF AccessIInv, CompletionSound, Separate, AllDecided
<1>10. campaign = "completed" => \E e : reviewEvidence' = <<e>> /\ EvidenceSound(e)'
  <2> SUFFICES ASSUME campaign = "completed"
               PROVE  \E e : reviewEvidence' = <<e>> /\ EvidenceSound(e)'
    OBVIOUS
  <2>1. PICK e : reviewEvidence = <<e>> /\ EvidenceSound(e)
    BY DEF AccessIInv
  <2>2. EvidenceSound(e)'
    BY <1>1, <2>1 DEF EvidenceSound, AllDecided, Separate
  <2>3. QED
    BY <1>1, <2>1, <2>2
<1>11. QED
  BY <1>1, <1>5, <1>6, <1>8, <1>9, <1>10 DEF AccessIInv

\* A step of a completion that writes no evidence.
LEMMA CompletingStep ==
  ASSUME AccessIInv, NEW c \in Completer, NEW w \in CompletionRow,
         completing' = [completing EXCEPT ![c] = w], CompletionSound(w),
         UNCHANGED <<campaign, reviewItems, deciding, reviewEvidence, decisions, revised>>
  PROVE  AccessIInv'
<1>1. \A d \in Completer : completing'[d] = IF d = c THEN w ELSE completing[d]
  BY DEF AccessIInv, AccessTyped
<1>2. AccessTyped'
  BY DEF AccessIInv, AccessTyped
<1>3. \A d \in Completer : CompletionSound(completing'[d])
  BY <1>1 DEF AccessIInv
<1>4. \A d \in Completer : CompletionSound(completing[d])'
  BY <1>3 DEF CompletionSound, AllDecided, Separate
<1>5. QED
  BY <1>2, <1>4 DEF AccessIInv, Separate, AllDecided, EvidenceSound, DecisionsSound

\* A request that has ended is sound.
LEMMA NotCompletingSound == NotCompleting \in CompletionRow /\ CompletionSound(NotCompleting)
BY DEF NotCompleting, NoCounts, CompletionRow, TallyRow, CompletionSound

\* Counting and listing.
LEMMA CountAndListStep ==
  ASSUME AccessIInv, NEW c \in Completer,
         BeginCompletion(c) \/ CountDecisions(c) \/ ListDecisions(c) \/ CompletionFails(c)
  PROVE  AccessIInv'
<1>1. completing[c] \in CompletionRow /\ reviewItems \in ItemList
  BY DEF AccessIInv, AccessTyped
<1>2. CASE BeginCompletion(c)
  <2> DEFINE w == [completing[c] EXCEPT !.phase = "count"]
  <2>1. w \in CompletionRow /\ w.phase = "count"
    BY <1>1 DEF CompletionRow
  <2>2. completing' = [completing EXCEPT ![c] = w]
    BY <1>2 DEF BeginCompletion
  <2>3. CompletionSound(w)
    BY <2>1 DEF CompletionSound
  <2> HIDE DEF w
  <2>4. QED
    BY <1>2, <2>1, <2>2, <2>3, CompletingStep DEF BeginCompletion
<1>3. CASE CountDecisions(c)
  <2> DEFINE k == CountsOf(reviewItems)
             w == [completing[c] EXCEPT !.phase = "list", !.counts = k]
  <2>1. k \in TallyRow /\ (~(k.pending > 0) => AllDecided(reviewItems))
    BY <1>1, CountsAreRight
  <2>2. CASE k.pending > 0
    <3>1. completing' = [completing EXCEPT ![c] = NotCompleting]
      BY <1>3, <2>2 DEF CountDecisions, EndCompletion
    <3>2. QED
      BY <1>3, <3>1, NotCompletingSound, CompletingStep DEF CountDecisions
  <2>3. CASE ~(k.pending > 0)
    <3>1. completing' = [completing EXCEPT ![c] = w]
      BY <1>3, <2>3 DEF CountDecisions
    <3> HIDE DEF k
    <3>2. w \in CompletionRow /\ w.phase = "list" /\ w.counts = k
      BY <1>1, <2>1 DEF CompletionRow
    <3>3. CompletionSound(w)
      BY <2>1, <2>3, <3>2 DEF CompletionSound, k
    <3> HIDE DEF w
    <3>4. QED
      BY <1>3, <3>1, <3>2, <3>3, CompletingStep DEF CountDecisions
  <2>4. QED
    BY <2>2, <2>3
<1>4. CASE ListDecisions(c)
  <2> DEFINE w == [completing[c] EXCEPT !.phase = "commit", !.list = reviewItems]
  <2>1. completing' = [completing EXCEPT ![c] = w] /\ completing[c].phase = "list"
    BY <1>4 DEF ListDecisions
  <2>2. /\ w \in CompletionRow /\ w.phase = "commit" /\ w.list = reviewItems
        /\ w.counts = completing[c].counts
    BY <1>1 DEF CompletionRow
  <2> HIDE DEF w
  <2>3. CompletionSound(w)
    BY <1>1, <2>1, <2>2 DEF CompletionSound, AccessIInv
  <2>4. QED
    BY <1>4, <2>1, <2>2, <2>3, CompletingStep DEF ListDecisions
<1>5. CASE CompletionFails(c)
  BY <1>5, NotCompletingSound, CompletingStep DEF CompletionFails, EndCompletion
<1>6. QED
  BY <1>2, <1>3, <1>4, <1>5

\* The evidence is stored and the campaign closed: it was active, and so without
\* evidence.
LEMMA CommitStep ==
  ASSUME AccessIInv, NEW c \in Completer, CommitCompletion(c)
  PROVE  AccessIInv'
<1> DEFINE w == completing[c]
           row == [counts |-> w.counts, list |-> w.list]
<1>1. /\ UNCHANGED <<reviewItems, deciding, decisions, revised>>
      /\ w.phase = "commit" /\ campaign = "active" /\ campaign' = "completed"
      /\ reviewEvidence' = Append(reviewEvidence, row)
      /\ completing' = [completing EXCEPT ![c] = NotCompleting]
  BY DEF CommitCompletion, EndCompletion
<1>2. w \in CompletionRow /\ CompletionSound(w) /\ reviewEvidence = <<>>
  BY <1>1 DEF AccessIInv, AccessTyped
<1>3. PICK e : e = row
  OBVIOUS
<1>4. e \in Evidence /\ e.list = w.list /\ e.counts = w.counts
  BY <1>1, <1>2, <1>3 DEF Evidence, CompletionSound, CompletionRow
<1>5. EvidenceSound(e)
  BY <1>1, <1>2, <1>4 DEF EvidenceSound, CompletionSound
<1>6. reviewEvidence' = <<e>>
  BY <1>1, <1>2, <1>3
<1>7. EvidenceSound(e)'
  BY <1>1, <1>5 DEF EvidenceSound, AllDecided, Separate
<1>8. AccessTyped'
  <2>1. /\ campaign' = "completed" /\ UNCHANGED <<reviewItems, deciding, decisions, revised>>
        /\ completing' = [completing EXCEPT ![c] = NotCompleting]
    BY <1>1
  <2>2. QED
    BY <2>1, NotCompletingSound DEF AccessIInv, AccessTyped
<1>9. \A d \in Completer : completing'[d] = IF d = c THEN NotCompleting ELSE completing[d]
  BY <1>1 DEF AccessIInv, AccessTyped
<1>10. \A d \in Completer : CompletionSound(completing'[d])
  BY <1>9, NotCompletingSound DEF AccessIInv
<1>11. \A d \in Completer : CompletionSound(completing[d])'
  BY <1>1, <1>10 DEF CompletionSound, AllDecided, Separate
<1>12. Separate(reviewItems)' /\ DecisionsSound'
  <2>1. UNCHANGED <<reviewItems, deciding>>
    BY <1>1
  <2>2. QED
    BY <2>1 DEF AccessIInv, Separate, DecisionsSound
<1>13. QED
  BY <1>1, <1>6, <1>7, <1>8, <1>11, <1>12 DEF AccessIInv

\* A campaign is opened or cancelled, which only one that is not completed can be.
LEMMA TransitionStep ==
  ASSUME AccessIInv, Activate \/ CancelCampaign
  PROVE  AccessIInv'
<1>1. /\ UNCHANGED <<reviewItems, deciding, completing, reviewEvidence, decisions, revised>>
      /\ campaign # "completed" /\ campaign' \in {"active", "cancelled"}
  BY DEF Activate, CancelCampaign
<1>2. AccessTyped'
  BY <1>1 DEF AccessIInv, AccessTyped
<1>3. QED
  BY <1>1, <1>2 DEF AccessIInv, Separate, DecisionsSound, CompletionSound, AllDecided

\* Every step keeps the invariant.
LEMMA AccessStep == AccessIInv /\ [AccessNext]_accessVars => AccessIInv'
<1> SUFFICES ASSUME AccessIInv, [AccessNext]_accessVars PROVE AccessIInv'
  OBVIOUS
<1>1. ASSUME NEW r \in AccessReviewer, NEW s \in Subject,
             NEW decision \in {"certified", "revoked"}, BeginDecision(r, s, decision)
      PROVE  AccessIInv'
  <2> DEFINE d == [subject |-> s, decision |-> decision]
  <2>1. d \in DecisionRow /\ d.subject = s /\ d.decision # "pending"
    BY DEF DecisionRow
  <2>2. deciding' = [deciding EXCEPT ![r] = d] /\ (r = s => r \in Administrator)
    BY <1>1 DEF BeginDecision
  <2> HIDE DEF d
  <2>3. QED
    BY <1>1, <2>1, <2>2, DecidingStep DEF BeginDecision
<1>2. ASSUME NEW r \in AccessReviewer, DecisionFails(r) PROVE AccessIInv'
  <2>1. NotDeciding \in DecisionRow /\ NotDeciding.subject = NoSubject
    BY DEF NotDeciding, DecisionRow
  <2>2. QED
    BY <1>2, <2>1, DecidingStep DEF DecisionFails, EndDecision
<1>3. CASE UNCHANGED accessVars
  BY <1>3 DEF accessVars, AccessIInv, AccessTyped, Separate, DecisionsSound,
     CompletionSound, AllDecided, EvidenceSound
<1>4. QED
  BY <1>1, <1>2, <1>3, TransitionStep, RecordDecisionStep, CountAndListStep, CommitStep
  DEF AccessNext

\* The invariant holds of every state.
LEMMA AccessInvariance == AccessSpec => []AccessIInv
BY AccessInitially, AccessStep, PTL DEF AccessSpec

\* Completing a campaign makes one piece of evidence of decisions that were made, by
\* others or administrators, for every number of people and completions.
THEOREM ReviewsEvidenced == AccessSpec => []ReviewIsEvidenced
<1>1. AccessIInv => ReviewIsEvidenced
  <2> SUFFICES ASSUME AccessIInv PROVE ReviewIsEvidenced
    OBVIOUS
  <2>1. CASE campaign = "completed"
    <3>1. PICK e : reviewEvidence = <<e>> /\ EvidenceSound(e)
      BY <2>1 DEF AccessIInv
    <3>2. Len(reviewEvidence) = 1 /\ DOMAIN reviewEvidence = {1} /\ reviewEvidence[1] = e
      BY <3>1
    <3>3. QED
      BY <2>1, <3>1, <3>2 DEF ReviewIsEvidenced, EvidenceSound, AllDecided, Separate
  <2>2. CASE campaign # "completed"
    BY <2>2 DEF AccessIInv, ReviewIsEvidenced
  <2>3. QED
    BY <2>1, <2>2
<1>2. QED
  BY <1>1, AccessInvariance, PTL

\* Type correctness of the campaign.
THEOREM AccessTypeCorrect == AccessSpec => []AccessTypeOK
<1>1. AccessIInv => AccessTypeOK
  BY DEF AccessIInv, AccessTyped, AccessTypeOK, Separate, ItemList, ReviewItem, DecisionRow,
     CompletionRow
<1>2. QED
  BY <1>1, AccessInvariance, PTL

-----------------------------------------------------------------------------
(***************************************************************************)
(* Questionnaire: mailed links and submitted answers                       *)
(***************************************************************************)

SendRow == [phase : {"idle", "mail", "record"}, kind : {"send", "reminder"},
            token : 1 .. tokens \cup {NoToken}]
AnswerRow == [phase : {"idle", "write"}, token : 1 .. tokens \cup {NoToken},
              completed : BOOLEAN]

FormTyped ==
  /\ form \in [status : FormStatus \cup {"deleted"}, token : 1 .. tokens \cup {NoToken},
               answers : 0 .. saves]
  /\ sending \in [Staff -> SendRow] /\ answering \in [VendorTab -> AnswerRow]
  /\ mailed \subseteq 1 .. tokens /\ tokens \in Nat /\ tokens <= MaxTokens
  /\ saves \in Nat /\ saves <= MaxSaves
  /\ misled \in BOOLEAN /\ submission \in 0 .. saves

InFlight(u) == sending[u].phase # "idle"
SendInFlight(u) == InFlight(u) /\ sending[u].kind = "send"

\* What is in flight has a token, and only a send writes it to the row.
SendsSound ==
  \A u \in Staff :
    /\ InFlight(u) => sending[u].token # NoToken
    /\ sending[u].phase = "record" => sending[u].kind = "send"

\* Unless links have been killed, one send is in flight at a time, and no mail in
\* flight carries another token than the one the row has.
TokensAgree ==
  ~misled =>
    /\ \A u, w \in Staff : SendInFlight(u) /\ SendInFlight(w) => u = w
    /\ \A u \in Staff : InFlight(u) =>
         \/ sending[u].token = form.token
         \/ form.token = NoToken /\ sending[u].kind = "send"

\* What the vendor has submitted is all of the vendor's that is in flight.
NothingBehind == submission # 0 => \A v \in VendorTab : answering[v].phase = "idle"

FormIInv ==
  /\ FormTyped /\ SendsSound /\ TokensAgree /\ MailedLinkWorks
  /\ NothingBehind /\ SubmissionStands

\* Status and answers are rewritten, and the token stays.
LEMMA FormRewritten ==
  ASSUME NEW S, NEW T, NEW A, NEW f \in [status : S, token : T, answers : A],
         NEW s \in S, NEW a \in A
  PROVE  LET g == [f EXCEPT !.status = s, !.answers = a] IN
         /\ g \in [status : S, token : T, answers : A]
         /\ g.status = s /\ g.token = f.token /\ g.answers = a
OBVIOUS

\* A draft that nobody has been sent.
LEMMA FormInitially == QuestionnaireInit => FormIInv
<1> SUFFICES ASSUME QuestionnaireInit PROVE FormIInv
  OBVIOUS
<1>1. FormTyped
  <2>1. NotSending \in SendRow /\ NotAnswering \in AnswerRow
    BY DEF SendRow, AnswerRow, NotSending, NotAnswering
  <2>2. /\ sending \in [Staff -> SendRow] /\ answering \in [VendorTab -> AnswerRow]
        /\ mailed = {} /\ tokens = 0 /\ saves = 0 /\ misled \in BOOLEAN /\ submission = 0
        /\ form = [status |-> "draft", token |-> NoToken, answers |-> 0]
    BY <2>1 DEF QuestionnaireInit
  <2>3. QED
    BY <2>2, QuestionnaireParameters DEF FormTyped, FormStatus
<1>2. \A u \in Staff : ~InFlight(u) /\ sending[u].phase # "record"
  BY DEF QuestionnaireInit, InFlight, NotSending
<1>3. QED
  BY <1>1, <1>2 DEF QuestionnaireInit, FormIInv, SendsSound, TokensAgree, MailedLinkWorks,
     NothingBehind, SubmissionStands, SendInFlight

\* The requests in flight stay typed as tokens are drawn.
LEMMA RowsGrow ==
  ASSUME FormTyped, tokens' \in Nat, tokens <= tokens'
  PROVE  /\ \A u \in Staff : sending[u] \in SendRow'
         /\ \A v \in VendorTab : answering[v] \in AnswerRow'
         /\ form.token \in 1 .. tokens' \cup {NoToken}
         /\ mailed \subseteq 1 .. tokens'
<1>1. 1 .. tokens \subseteq 1 .. tokens'
  BY DEF FormTyped
<1>2. SendRow \subseteq SendRow' /\ AnswerRow \subseteq AnswerRow'
  BY <1>1 DEF SendRow, AnswerRow
<1>3. QED
  BY <1>1, <1>2 DEF FormTyped

\* Staff edit the row: no token is touched, and no submission is on record.
LEMMA EditStep ==
  ASSUME FormIInv, \/ \E to \in FormStatus, rewrites \in BOOLEAN : EditForm(to, rewrites)
                   \/ DeleteForm
  PROVE  FormIInv'
<1>1. /\ UNCHANGED <<sending, answering, mailed, tokens, misled>> /\ submission' = 0
      /\ form'.token = form.token /\ (Exists => Exists \/ ~Exists') /\ Exists
  BY DEF EditForm, DeleteForm, FormIInv, FormTyped
<1>2. /\ saves' \in Nat /\ saves' <= MaxSaves /\ saves <= saves'
      /\ form' \in [status : FormStatus \cup {"deleted"}, token : 1 .. tokens \cup {NoToken},
                    answers : 0 .. saves']
  <2>1. CASE DeleteForm
    BY <2>1, QuestionnaireParameters DEF DeleteForm, FormIInv, FormTyped
  <2>2. ASSUME NEW to \in FormStatus, NEW rewrites \in BOOLEAN, EditForm(to, rewrites)
        PROVE  /\ saves' \in Nat /\ saves' <= MaxSaves /\ saves <= saves'
               /\ form' \in [status : FormStatus \cup {"deleted"},
                             token : 1 .. tokens \cup {NoToken}, answers : 0 .. saves']
    <3> DEFINE a == IF rewrites THEN saves' ELSE form.answers
    <3>1. form' = [form EXCEPT !.status = to, !.answers = a]
      BY <2>2 DEF EditForm
    <3>2. /\ saves' = (IF rewrites THEN saves + 1 ELSE saves) /\ (rewrites => saves < MaxSaves)
          /\ saves \in Nat /\ saves <= MaxSaves /\ form.answers \in 0 .. saves
      BY <2>2 DEF EditForm, FormIInv, FormTyped
    <3>3. saves' \in Nat /\ saves' <= MaxSaves /\ saves <= saves' /\ a \in 0 .. saves'
      BY <3>2, QuestionnaireParameters
    <3>4. form \in [status : FormStatus \cup {"deleted"}, token : 1 .. tokens \cup {NoToken},
                   answers : 0 .. saves']
      BY <3>3 DEF FormIInv, FormTyped
    <3> HIDE DEF a
    <3>5. QED
      BY <3>1, <3>3, <3>4, FormRewritten
  <2>3. QED
    BY <2>1, <2>2
<1>3. FormTyped'
  BY <1>1, <1>2 DEF FormIInv, FormTyped, SendRow, AnswerRow
<1>4. SendsSound' /\ TokensAgree'
  BY <1>1 DEF FormIInv, SendsSound, TokensAgree, InFlight, SendInFlight
<1>5. MailedLinkWorks'
  BY <1>1 DEF FormIInv, MailedLinkWorks
<1>6. QED
  BY <1>1, <1>3, <1>4, <1>5 DEF FormIInv, NothingBehind, SubmissionStands

\* A send begins: with the row's token, or with one that no row and no mail has.
LEMMA BeginSendStep ==
  ASSUME FormIInv, NEW u \in Staff, BeginSend(u)
  PROVE  FormIInv'
<1> DEFINE s == [phase |-> "mail", kind |-> "send",
                 token |-> IF form.token = NoToken THEN tokens' ELSE form.token]
<1>1. /\ UNCHANGED <<form, answering, mailed, saves, submission>>
      /\ ~InFlight(u) /\ sending' = [sending EXCEPT ![u] = s]
      /\ misled' = (misled \/ \E w \in Staff : SendInFlight(w))
      /\ tokens' = IF form.token = NoToken THEN tokens + 1 ELSE tokens
      /\ form.token = NoToken => tokens < MaxTokens
  BY DEF BeginSend, InFlight, SendInFlight
<1>2. tokens' \in Nat /\ tokens <= tokens' /\ tokens' <= MaxTokens
  BY <1>1, QuestionnaireParameters DEF FormIInv, FormTyped
<1>3. /\ s.phase = "mail" /\ s.kind = "send" /\ s.token # NoToken
      /\ s \in SendRow' /\ (form.token # NoToken => s.token = form.token)
  BY <1>1, <1>2, QuestionnaireParameters DEF FormIInv, FormTyped, SendRow
<1> HIDE DEF s
<1>4. \A w \in Staff : sending'[w] = IF w = u THEN s ELSE sending[w]
  BY <1>1 DEF FormIInv, FormTyped
<1>5. FormTyped'
  BY <1>1, <1>2, <1>3, RowsGrow DEF FormIInv, FormTyped
<1>6. SendsSound'
  BY <1>3, <1>4 DEF FormIInv, SendsSound, InFlight
<1>7. TokensAgree'
  BY <1>1, <1>3, <1>4 DEF FormIInv, FormTyped, TokensAgree, InFlight, SendInFlight
<1>8. MailedLinkWorks'
  <2>1. \A w \in Staff : sending[w].phase = "record" => sending'[w] = sending[w]
    BY <1>1, <1>4 DEF InFlight
  <2>2. QED
    BY <1>1, <2>1 DEF FormIInv, FormTyped, MailedLinkWorks, Exists
<1>9. QED
  BY <1>1, <1>5, <1>6, <1>7, <1>8 DEF FormIInv, NothingBehind, SubmissionStands

\* A reminder begins, with the row's token.
LEMMA BeginReminderStep ==
  ASSUME FormIInv, NEW u \in Staff, BeginReminder(u)
  PROVE  FormIInv'
<1> DEFINE s == [phase |-> "mail", kind |-> "reminder", token |-> form.token]
<1>1. /\ UNCHANGED <<form, answering, mailed, tokens, saves, misled, submission>>
      /\ ~InFlight(u) /\ sending' = [sending EXCEPT ![u] = s] /\ form.token # NoToken
  BY DEF BeginReminder, InFlight
<1>2. /\ s.phase = "mail" /\ s.kind = "reminder" /\ s.token = form.token /\ s \in SendRow
  BY DEF FormIInv, FormTyped, SendRow
<1> HIDE DEF s
<1>3. \A w \in Staff : sending'[w] = IF w = u THEN s ELSE sending[w]
  BY <1>1 DEF FormIInv, FormTyped
<1>4. FormTyped'
  BY <1>1, <1>2 DEF FormIInv, FormTyped, SendRow, AnswerRow
<1>5. SendsSound' /\ TokensAgree'
  BY <1>1, <1>2, <1>3 DEF FormIInv, SendsSound, TokensAgree, InFlight, SendInFlight
<1>6. MailedLinkWorks'
  BY <1>1, <1>3 DEF FormIInv, MailedLinkWorks, Exists, InFlight
<1>7. QED
  BY <1>1, <1>4, <1>5, <1>6 DEF FormIInv, NothingBehind, SubmissionStands

\* A link is mailed: one the row has, or one that is about to be written to it.
LEMMA MailStep ==
  ASSUME FormIInv, NEW u \in Staff, NEW delivered \in BOOLEAN, MailLink(u, delivered)
  PROVE  FormIInv'
<1> DEFINE t == IF sending[u].kind = "send" THEN [sending[u] EXCEPT !.phase = "record"]
                ELSE NotSending
<1>1. /\ UNCHANGED <<form, answering, tokens, saves, misled, submission>>
      /\ sending[u].phase = "mail" /\ sending' = [sending EXCEPT ![u] = t]
      /\ mailed' \subseteq mailed \cup {sending[u].token}
  BY DEF MailLink
<1>2. sending[u] \in SendRow /\ sending[u].token \in 1 .. tokens
  BY <1>1 DEF FormIInv, FormTyped, SendsSound, InFlight, SendRow
<1>3. /\ t \in SendRow
      /\ sending[u].kind = "send" =>
           t.phase = "record" /\ t.kind = "send" /\ t.token = sending[u].token
      /\ sending[u].kind # "send" => t.phase = "idle"
  BY <1>2 DEF SendRow, NotSending
<1> HIDE DEF t
<1>4. \A w \in Staff : sending'[w] = IF w = u THEN t ELSE sending[w]
  BY <1>1 DEF FormIInv, FormTyped
<1>5. FormTyped'
  BY <1>1, <1>2, <1>3 DEF FormIInv, FormTyped, SendRow, AnswerRow
<1>6. SendsSound' /\ TokensAgree'
  BY <1>1, <1>3, <1>4 DEF FormIInv, SendsSound, TokensAgree, InFlight, SendInFlight
<1>7. MailedLinkWorks'
  <2> SUFFICES ASSUME ~misled', NEW token \in mailed', Exists', token # form'.token
               PROVE  \E w \in Staff : sending'[w].phase = "record" /\ sending'[w].token = token
    BY DEF MailedLinkWorks
  <2>1. CASE token \in mailed
    <3>1. PICK w \in Staff : sending[w].phase = "record" /\ sending[w].token = token
      BY <1>1, <2>1 DEF FormIInv, MailedLinkWorks, Exists
    <3>2. QED
      BY <1>1, <1>4, <3>1
  <2>2. CASE token = sending[u].token
    BY <1>1, <1>3, <1>4, <2>2 DEF FormIInv, TokensAgree, InFlight
  <2>3. QED
    BY <1>1, <2>1, <2>2
<1>8. QED
  BY <1>1, <1>5, <1>6, <1>7 DEF FormIInv, NothingBehind, SubmissionStands

\* The token that was mailed is written to the row, which had it or had none.
LEMMA RecordSentStep ==
  ASSUME FormIInv, NEW u \in Staff, RecordSent(u)
  PROVE  FormIInv'
<1>1. /\ UNCHANGED <<answering, mailed, tokens, saves, misled, submission>>
      /\ sending[u].phase = "record" /\ sending' = [sending EXCEPT ![u] = NotSending]
      /\ form' = IF ~Exists THEN form
                 ELSE [form EXCEPT !.token = sending[u].token,
                                   !.status = IF @ = "draft" THEN "sent" ELSE @]
  BY DEF RecordSent
<1>2. /\ sending[u] \in SendRow /\ sending[u].token \in 1 .. tokens
      /\ sending[u].kind = "send" /\ SendInFlight(u)
  BY <1>1 DEF FormIInv, FormTyped, SendsSound, InFlight, SendInFlight, SendRow
<1>3. /\ ~Exists => form' = form
      /\ Exists => form'.token = sending[u].token /\ Exists'
      /\ form.status = "completed" => form'.status = "completed"
      /\ form'.answers = form.answers
      /\ form' \in [status : FormStatus \cup {"deleted"}, token : 1 .. tokens \cup {NoToken},
                    answers : 0 .. saves]
  BY <1>1, <1>2 DEF FormIInv, FormTyped, FormStatus, Exists
<1>4. NotSending \in SendRow /\ NotSending.phase = "idle"
  BY DEF NotSending, SendRow
<1>5. \A w \in Staff : sending'[w] = IF w = u THEN NotSending ELSE sending[w]
  BY <1>1 DEF FormIInv, FormTyped
<1>6. FormTyped'
  BY <1>1, <1>3, <1>4 DEF FormIInv, FormTyped, SendRow, AnswerRow
<1>7. SendsSound'
  BY <1>4, <1>5 DEF FormIInv, SendsSound, InFlight
<1>8. ~misled => \/ ~Exists
                 \/ form.token = NoToken \/ form.token = sending[u].token
  BY <1>2 DEF FormIInv, TokensAgree, SendInFlight
<1>9. TokensAgree'
  <2> SUFFICES ASSUME ~misled'
               PROVE  /\ \A v, w \in Staff : SendInFlight(v)' /\ SendInFlight(w)' => v = w
                      /\ \A w \in Staff : InFlight(w)' =>
                           \/ sending'[w].token = form'.token
                           \/ form'.token = NoToken /\ sending'[w].kind = "send"
    BY DEF TokensAgree
  <2>1. \A w \in Staff : InFlight(w)' => w # u /\ InFlight(w) /\ sending'[w] = sending[w]
    BY <1>4, <1>5 DEF InFlight
  <2>2. \A w \in Staff : InFlight(w)' => sending[w].kind # "send"
    BY <1>1, <1>2, <2>1 DEF FormIInv, TokensAgree, SendInFlight
  <2>3. \A w \in Staff : ~SendInFlight(w)'
    BY <2>1, <2>2 DEF SendInFlight
  <2>4. ASSUME NEW w \in Staff, InFlight(w)' PROVE sending'[w].token = form'.token
    BY <1>1, <1>3, <1>8, <2>1, <2>2, <2>4 DEF FormIInv, TokensAgree, SendsSound
  <2>5. QED
    BY <2>3, <2>4
<1>10. MailedLinkWorks'
  <2> SUFFICES ASSUME ~misled', NEW token \in mailed', Exists' PROVE token = form'.token
    BY DEF MailedLinkWorks
  <2>1. Exists /\ token \in 1 .. tokens /\ token # NoToken /\ ~misled
    BY <1>1, <1>3, QuestionnaireParameters DEF FormIInv, FormTyped, Exists
  <2>2. \A w \in Staff : sending[w].phase = "record" => w = u
    BY <1>2, <2>1 DEF FormIInv, TokensAgree, SendsSound, SendInFlight, InFlight
  <2>3. token = form.token \/ token = sending[u].token
    BY <1>1, <2>1, <2>2 DEF FormIInv, MailedLinkWorks
  <2>4. QED
    BY <1>3, <1>8, <2>1, <2>3
<1>11. QED
  BY <1>1, <1>3, <1>6, <1>7, <1>9, <1>10 DEF FormIInv, NothingBehind, SubmissionStands

\* A send ends early; after its mail, that is noted.
LEMMA SendFailsStep ==
  ASSUME FormIInv, NEW u \in Staff, SendFails(u)
  PROVE  FormIInv'
<1>1. /\ UNCHANGED <<form, answering, mailed, tokens, saves, submission>>
      /\ misled' \in BOOLEAN /\ (~misled' => ~misled /\ sending[u].phase # "record")
      /\ sending' = [sending EXCEPT ![u] = NotSending]
  BY DEF SendFails
<1>2. NotSending \in SendRow /\ NotSending.phase = "idle"
  BY DEF NotSending, SendRow
<1>3. \A w \in Staff : sending'[w] = IF w = u THEN NotSending ELSE sending[w]
  BY <1>1 DEF FormIInv, FormTyped
<1>4. FormTyped'
  BY <1>1, <1>2 DEF FormIInv, FormTyped, SendRow, AnswerRow
<1>5. SendsSound' /\ TokensAgree'
  BY <1>1, <1>2, <1>3 DEF FormIInv, SendsSound, TokensAgree, InFlight, SendInFlight
<1>6. MailedLinkWorks'
  BY <1>1, <1>3 DEF FormIInv, MailedLinkWorks, Exists
<1>7. QED
  BY <1>1, <1>4, <1>5, <1>6 DEF FormIInv, NothingBehind, SubmissionStands

\* The vendor begins to answer what is not completed.
LEMMA BeginAnswerStep ==
  ASSUME FormIInv, NEW v \in VendorTab, NEW token \in mailed, NEW completed \in BOOLEAN,
         BeginAnswer(v, token, completed)
  PROVE  FormIInv'
<1> DEFINE a == [phase |-> "write", token |-> token, completed |-> completed]
<1>1. /\ UNCHANGED <<form, sending, mailed, tokens, saves, misled, submission>>
      /\ form.status # "completed" /\ answering' = [answering EXCEPT ![v] = a]
      /\ a \in AnswerRow
  BY DEF BeginAnswer, AnswerRow, FormIInv, FormTyped
<1> HIDE DEF a
<1>2. FormTyped'
  BY <1>1 DEF FormIInv, FormTyped, SendRow, AnswerRow
<1>3. submission' = 0
  BY <1>1 DEF FormIInv, SubmissionStands
<1>4. QED
  BY <1>1, <1>2, <1>3 DEF FormIInv, SendsSound, TokensAgree, MailedLinkWorks, NothingBehind,
     SubmissionStands, InFlight, SendInFlight, Exists

\* The vendor's answers are written.
LEMMA WriteAnswersStep ==
  ASSUME FormIInv, NEW v \in VendorTab, WriteAnswers(v)
  PROVE  FormIInv'
<1> DEFINE others == \E w \in VendorTab \ {v} : answering[w].phase # "idle"
<1>1. /\ UNCHANGED <<sending, mailed, tokens, misled>>
      /\ saves < MaxSaves /\ saves' = saves + 1
      /\ answering[v].phase = "write" /\ answering' = [answering EXCEPT ![v] = NotAnswering]
      /\ \/ /\ form' = [form EXCEPT !.answers = saves',
                !.status = IF answering[v].completed THEN "completed" ELSE "in_progress"]
            /\ submission' = IF answering[v].completed /\ ~others THEN saves' ELSE 0
            /\ Exists
         \/ UNCHANGED <<form, submission>>
  BY DEF WriteAnswers
<1> HIDE DEF others
<1>2. NotAnswering \in AnswerRow /\ NotAnswering.phase = "idle"
  BY DEF NotAnswering, AnswerRow
<1>3. submission = 0 /\ saves \in Nat /\ saves' \in Nat /\ saves' <= MaxSaves
  BY <1>1, QuestionnaireParameters DEF FormIInv, FormTyped, NothingBehind
<1>4. /\ form'.token = form.token /\ (Exists' => Exists)
      /\ submission' \in 0 .. saves'
      /\ submission' # 0 => /\ form'.status = "completed" /\ form'.answers = submission'
                            /\ ~others
      /\ form' \in [status : FormStatus \cup {"deleted"}, token : 1 .. tokens \cup {NoToken},
                    answers : 0 .. saves']
  <2>1. CASE UNCHANGED <<form, submission>>
    BY <1>1, <1>3, <2>1 DEF FormIInv, FormTyped, Exists
  <2>2. CASE /\ form' = [form EXCEPT !.answers = saves',
                !.status = IF answering[v].completed THEN "completed" ELSE "in_progress"]
             /\ submission' = IF answering[v].completed /\ ~others THEN saves' ELSE 0
             /\ Exists
    <3> DEFINE to == IF answering[v].completed THEN "completed" ELSE "in_progress"
    <3>1. /\ to \in FormStatus \cup {"deleted"} /\ to # "deleted" /\ saves' \in 0 .. saves'
          /\ answering[v].completed => to = "completed"
          /\ form \in [status : FormStatus \cup {"deleted"},
                       token : 1 .. tokens \cup {NoToken}, answers : 0 .. saves']
      BY <1>1, <1>3 DEF FormIInv, FormTyped, FormStatus
    <3>2. form' = [form EXCEPT !.status = to, !.answers = saves']
      BY <1>3, <2>2 DEF FormIInv, FormTyped
    <3> HIDE DEF to
    <3>3. /\ form' \in [status : FormStatus \cup {"deleted"},
                        token : 1 .. tokens \cup {NoToken}, answers : 0 .. saves']
          /\ form'.status = to /\ form'.token = form.token /\ form'.answers = saves'
      BY <3>1, <3>2, FormRewritten
    <3>4. QED
      BY <1>1, <1>3, <2>2, <3>1, <3>3 DEF Exists
  <2>3. QED
    BY <1>1, <2>1, <2>2
<1>5. FormTyped'
  BY <1>1, <1>2, <1>3, <1>4 DEF FormIInv, FormTyped, SendRow, AnswerRow
<1>6. NothingBehind' /\ SubmissionStands'
  BY <1>1, <1>2, <1>4 DEF FormIInv, FormTyped, NothingBehind, SubmissionStands, others
<1>7. QED
  BY <1>1, <1>4, <1>5, <1>6 DEF FormIInv, SendsSound, TokensAgree, MailedLinkWorks,
     InFlight, SendInFlight

\* A request of the vendor's ends early.
LEMMA AnswerFailsStep ==
  ASSUME FormIInv, NEW v \in VendorTab, AnswerFails(v)
  PROVE  FormIInv'
<1>1. /\ UNCHANGED <<form, sending, mailed, tokens, saves, misled, submission>>
      /\ answering' = [answering EXCEPT ![v] = NotAnswering]
      /\ NotAnswering \in AnswerRow /\ NotAnswering.phase = "idle"
  BY DEF AnswerFails, NotAnswering, AnswerRow
<1>2. FormTyped'
  BY <1>1 DEF FormIInv, FormTyped, SendRow, AnswerRow
<1>3. NothingBehind'
  BY <1>1 DEF FormIInv, FormTyped, NothingBehind
<1>4. QED
  BY <1>1, <1>2, <1>3 DEF FormIInv, SendsSound, TokensAgree, MailedLinkWorks,
     SubmissionStands, InFlight, SendInFlight, Exists

\* Every step keeps the invariant.
LEMMA FormStep == FormIInv /\ [QuestionnaireNext]_formVars => FormIInv'
<1> SUFFICES ASSUME FormIInv, [QuestionnaireNext]_formVars PROVE FormIInv'
  OBVIOUS
<1>1. CASE \/ \E to \in FormStatus, rewrites \in BOOLEAN : EditForm(to, rewrites)
           \/ DeleteForm
  BY <1>1, EditStep
<1>2. ASSUME NEW u \in Staff,
             \/ BeginSend(u) \/ BeginReminder(u) \/ RecordSent(u) \/ SendFails(u)
             \/ \E delivered \in BOOLEAN : MailLink(u, delivered)
      PROVE  FormIInv'
  BY <1>2, BeginSendStep, BeginReminderStep, RecordSentStep, SendFailsStep, MailStep
<1>3. ASSUME NEW v \in VendorTab,
             \/ \E token \in mailed, completed \in BOOLEAN : BeginAnswer(v, token, completed)
             \/ WriteAnswers(v) \/ AnswerFails(v)
      PROVE  FormIInv'
  BY <1>3, BeginAnswerStep, WriteAnswersStep, AnswerFailsStep
<1>4. CASE UNCHANGED formVars
  BY <1>4 DEF formVars, FormIInv, FormTyped, SendRow, AnswerRow, SendsSound, TokensAgree,
     MailedLinkWorks, NothingBehind, SubmissionStands, InFlight, SendInFlight, Exists
<1>5. QED
  BY <1>1, <1>2, <1>3, <1>4 DEF QuestionnaireNext

\* The invariant holds of every state.
LEMMA FormInvariance == QuestionnaireSpec => []FormIInv
BY FormInitially, FormStep, PTL DEF QuestionnaireSpec

\* A link that was mailed opens the questionnaire, for every number of staff, tabs,
\* tokens and answers: unless sends overlap or one fails between mail and UPDATE.
THEOREM LinksWork == QuestionnaireSpec => []MailedLinkWorks
BY FormInvariance, PTL DEF FormIInv

\* What the vendor has submitted stands until staff edit or delete it.
THEOREM SubmissionsStand == QuestionnaireSpec => []SubmissionStands
BY FormInvariance, PTL DEF FormIInv

\* Type correctness of the questionnaire and the requests about it.
THEOREM QuestionnaireTyped == QuestionnaireSpec => []QuestionnaireTypeOK
<1>1. FormIInv => QuestionnaireTypeOK
  BY DEF FormIInv, FormTyped, QuestionnaireTypeOK, SendRow, AnswerRow
<1>2. QED
  BY <1>1, FormInvariance, PTL
=============================================================================
