--------------------------- MODULE PendingEvidence ---------------------------
(***************************************************************************)
(* The suggested pieces of evidence: pending_evidence, whose items become  *)
(* evidence when they are approved.                                        *)
(*                                                                         *)
(* An approval reads the item, writes a file, inserts the evidence and its *)
(* links, and marks the item, each in a statement of its own; a rejection  *)
(* reads it and marks it.  Both mark it by id.  The scan that makes the    *)
(* items, and what they say, are left out but for their insertion.         *)
(***************************************************************************)
EXTENDS Naturals

CONSTANTS
  PendingItem,        \* bound: rows of pending_evidence
  EvidenceReviewer,   \* people with evidence.write, each with a request in flight
  MaxReviewFaults,    \* bound: statements that fail, servers that die
  NoItem

ASSUME ReviewParameters == MaxReviewFaults \in Nat /\ NoItem \notin PendingItem

VARIABLES
  pendingItems,  \* [PendingItem -> status]
  promotions,    \* [PendingItem -> rows of evidence made from it]
  itemReview,    \* [EvidenceReviewer -> the request in flight]
  reviewFaults,  \* how many steps have failed
  crossed        \* history: two requests were about the same item at the same time

reviewVars == <<pendingItems, promotions, itemReview, reviewFaults, crossed>>

NoReview == [phase |-> "idle", item |-> NoItem]

ReviewInit ==
  /\ pendingItems = [i \in PendingItem |-> "none"]
  /\ promotions = [i \in PendingItem |-> 0]
  /\ itemReview = [r \in EvidenceReviewer |-> NoReview]
  /\ reviewFaults = 0
  /\ crossed = FALSE

EndReview(r) == itemReview' = [itemReview EXCEPT ![r] = NoReview]
-----------------------------------------------------------------------------
\* POST /scan: an INSERT.
SuggestItem(i) ==
  /\ pendingItems[i] = "none"
  /\ pendingItems' = [pendingItems EXCEPT ![i] = "pending"]
  /\ UNCHANGED <<promotions, itemReview, reviewFaults, crossed>>

\* Mutant of ReadItem: an item that has been decided is taken up too.
ReadAnyItem(r, i, phase) ==
  /\ itemReview[r].phase = "idle"
  /\ pendingItems[i] # "none"
  /\ itemReview' = [itemReview EXCEPT ![r] = [phase |-> phase, item |-> i]]
  /\ crossed' = (crossed \/ \E q \in EvidenceReviewer : itemReview[q].item = i)
  /\ UNCHANGED <<pendingItems, promotions, reviewFaults>>

\* The SELECT of an approval, which goes on to "promote", or of a rejection.
ReadItem(r, i, phase) ==
  /\ itemReview[r].phase = "idle"
  /\ pendingItems[i] = "pending"
  /\ itemReview' = [itemReview EXCEPT ![r] = [phase |-> phase, item |-> i]]
  /\ crossed' = (crossed \/ \E q \in EvidenceReviewer : itemReview[q].item = i)
  /\ UNCHANGED <<pendingItems, promotions, reviewFaults>>

\* The file, the evidence and its links.
PromoteItem(r) ==
  /\ itemReview[r].phase = "promote"
  /\ promotions' = [promotions EXCEPT ![itemReview[r].item] = @ + 1]
  /\ itemReview' = [itemReview EXCEPT ![r].phase = "mark"]
  /\ UNCHANGED <<pendingItems, reviewFaults, crossed>>

\* Whatever has become of the item since it was read.
MarkApproved(r) ==
  /\ itemReview[r].phase = "mark"
  /\ pendingItems' = [pendingItems EXCEPT ![itemReview[r].item] = "approved"]
  /\ EndReview(r)
  /\ UNCHANGED <<promotions, reviewFaults, crossed>>

MarkRejected(r) ==
  /\ itemReview[r].phase = "reject"
  /\ pendingItems' = [pendingItems EXCEPT ![itemReview[r].item] = "rejected"]
  /\ EndReview(r)
  /\ UNCHANGED <<promotions, reviewFaults, crossed>>

\* A statement fails, or the server dies: what was done stays done.
ReviewDies(r) ==
  /\ itemReview[r].phase # "idle"
  /\ reviewFaults < MaxReviewFaults /\ reviewFaults' = reviewFaults + 1
  /\ EndReview(r)
  /\ UNCHANGED <<pendingItems, promotions, crossed>>

ReviewNext ==
  \/ \E i \in PendingItem : SuggestItem(i)
  \/ \E r \in EvidenceReviewer :
       \/ \E i \in PendingItem, phase \in {"promote", "reject"} : ReadItem(r, i, phase)
       \/ PromoteItem(r) \/ MarkApproved(r) \/ MarkRejected(r) \/ ReviewDies(r)

ReviewSpec == ReviewInit /\ [][ReviewNext]_reviewVars
-----------------------------------------------------------------------------
\* Type correctness: a request in flight is about an item, which exists.
ReviewTypeOK ==
  /\ pendingItems \in [PendingItem -> {"none", "pending", "approved", "rejected"}]
  /\ promotions \in [PendingItem -> Nat]
  /\ itemReview \in [EvidenceReviewer ->
       [phase : {"idle", "promote", "mark", "reject"}, item : PendingItem \cup {NoItem}]]
  /\ \A r \in EvidenceReviewer :
       IF itemReview[r].phase = "idle" THEN itemReview[r].item = NoItem
       ELSE itemReview[r].item \in PendingItem /\ pendingItems[itemReview[r].item] # "none"
  /\ reviewFaults \in Nat /\ crossed \in BOOLEAN

\* What is marked as approved is in the library.
ApprovedIsPromoted ==
  \A i \in PendingItem : pendingItems[i] = "approved" => promotions[i] > 0

\* An item that is marked as approved is in the library, whatever fails and whoever
\* else is at it.  It becomes evidence once, and once more for each failure that came
\* between its evidence and its mark, as long as requests about it do not overlap;
\* and without either, not at all unless it is approved or about to be.
PromotedOnce ==
  /\ ApprovedIsPromoted
  /\ ~crossed => \A i \in PendingItem :
       /\ promotions[i] <= 1 + reviewFaults
       /\ reviewFaults = 0 /\ promotions[i] > 0 =>
            \/ pendingItems[i] = "approved"
            \/ \E r \in EvidenceReviewer :
                 itemReview[r].item = i /\ itemReview[r].phase = "mark"
=============================================================================
