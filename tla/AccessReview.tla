---------------------------- MODULE AccessReview ----------------------------
(***************************************************************************)
(* One access review campaign: the entitlements of each person under       *)
(* review are certified or revoked by a reviewer, and completing the       *)
(* campaign makes a piece of evidence of the decisions.                    *)
(*                                                                         *)
(* A decision reads the campaign's status in one statement and writes the  *)
(* item by id in another; it may be changed as long as the campaign is     *)
(* active.  A completion reads the status, counts the decisions, lists     *)
(* them and writes a file, each on its own, and then inserts the evidence  *)
(* and closes the campaign in one transaction.  Entitlements, notes, due   *)
(* dates and audit rows are left out.                                      *)
(***************************************************************************)
EXTENDS Sequences, FiniteSets, Naturals

CONSTANTS
  Subject,         \* the users under review, one item each
  AccessReviewer,  \* people with access_governance.manage, each with a request
  Administrator,   \* those of them with every permission
  Completer,       \* requests to complete the campaign, in flight at once
  MaxDecisions,    \* bound: decisions ever written
  NoSubject

ASSUME AccessReviewParameters ==
  /\ Administrator \subseteq AccessReviewer /\ NoSubject \notin Subject
  /\ NoSubject \notin AccessReviewer /\ MaxDecisions \in Nat /\ IsFiniteSet(Subject)

VARIABLES
  campaign,        \* access_review_campaigns.status
  reviewItems,     \* access_review_items: [Subject -> decision and reviewer]
  deciding,        \* [AccessReviewer -> the decision in flight]
  completing,      \* [Completer -> the completion in flight]
  reviewEvidence,  \* the rows of evidence that completions have inserted
  decisions,       \* how many decisions have been written
  revised          \* history: a decision was written during a completion, or after it

accessVars ==
  <<campaign, reviewItems, deciding, completing, reviewEvidence, decisions, revised>>

Undecided == [decision |-> "pending", reviewer |-> NoSubject]

NotDeciding == [subject |-> NoSubject, decision |-> "pending"]

NoCounts == [pending |-> 0, revoked |-> 0, selfReviewed |-> 0]

\* counts and list: the items as each of the two statements has seen them.
NotCompleting == [phase |-> "idle", counts |-> NoCounts, list |-> <<>>]

AccessInit ==
  /\ campaign = "draft"
  /\ reviewItems = [s \in Subject |-> Undecided]
  /\ deciding = [r \in AccessReviewer |-> NotDeciding]
  /\ completing = [c \in Completer |-> NotCompleting]
  /\ reviewEvidence = <<>>
  /\ decisions = 0
  /\ revised = FALSE

CountsOf(items) ==
  [pending |-> Cardinality({s \in Subject : items[s].decision = "pending"}),
   revoked |-> Cardinality({s \in Subject : items[s].decision = "revoked"}),
   selfReviewed |-> Cardinality({s \in Subject : items[s].reviewer = s})]

EndDecision(r) == deciding' = [deciding EXCEPT ![r] = NotDeciding]
EndCompletion(c) == completing' = [completing EXCEPT ![c] = NotCompleting]
-----------------------------------------------------------------------------
\* transitionCampaign: an UPDATE with the statuses it may come from.
Activate ==
  /\ campaign = "draft" /\ campaign' = "active"
  /\ UNCHANGED <<reviewItems, deciding, completing, reviewEvidence, decisions, revised>>

CancelCampaign ==
  /\ campaign \in {"draft", "active"} /\ campaign' = "cancelled"
  /\ UNCHANGED <<reviewItems, deciding, completing, reviewEvidence, decisions, revised>>

\* The checks of PATCH /campaigns/:id/items/:itemId: nobody decides about their own
\* access but administrators.
BeginDecision(r, s, decision) ==
  /\ deciding[r].subject = NoSubject
  /\ campaign = "active"
  /\ r = s => r \in Administrator
  /\ deciding' = [deciding EXCEPT ![r] = [subject |-> s, decision |-> decision]]
  /\ UNCHANGED <<campaign, reviewItems, completing, reviewEvidence, decisions, revised>>

\* The UPDATE of decideItem, whatever has become of the campaign.
RecordDecision(r) ==
  /\ deciding[r].subject # NoSubject
  /\ decisions < MaxDecisions /\ decisions' = decisions + 1
  /\ reviewItems' = [reviewItems EXCEPT ![deciding[r].subject] =
       [decision |-> deciding[r].decision, reviewer |-> r]]
  /\ revised' = (revised \/ campaign # "active"
                         \/ \E c \in Completer : completing[c].phase # "idle")
  /\ EndDecision(r)
  /\ UNCHANGED <<campaign, completing, reviewEvidence>>

DecisionFails(r) ==
  /\ deciding[r].subject # NoSubject
  /\ EndDecision(r)
  /\ UNCHANGED <<campaign, reviewItems, completing, reviewEvidence, decisions, revised>>

BeginCompletion(c) ==
  /\ completing[c].phase = "idle" /\ campaign = "active"
  /\ completing' = [completing EXCEPT ![c].phase = "count"]
  /\ UNCHANGED <<campaign, reviewItems, deciding, reviewEvidence, decisions, revised>>

\* 409 while items are undecided.
CountDecisions(c) ==
  LET counts == CountsOf(reviewItems) IN
  /\ completing[c].phase = "count"
  /\ IF counts.pending > 0 THEN EndCompletion(c)
     ELSE completing' = [completing EXCEPT ![c] = [@ EXCEPT !.phase = "list", !.counts = counts]]
  /\ UNCHANGED <<campaign, reviewItems, deciding, reviewEvidence, decisions, revised>>

\* listCampaignItems, and the file.
ListDecisions(c) ==
  /\ completing[c].phase = "list"
  /\ completing' = [completing EXCEPT ![c] = [@ EXCEPT !.phase = "commit", !.list = reviewItems]]
  /\ UNCHANGED <<campaign, reviewItems, deciding, reviewEvidence, decisions, revised>>

\* Mutant of CommitCompletion: the UPDATE does not ask for an active campaign.
CommitAnyCompletion(c) ==
  /\ completing[c].phase = "commit"
  /\ campaign' = "completed"
  /\ reviewEvidence' = Append(reviewEvidence,
       [counts |-> completing[c].counts, list |-> completing[c].list])
  /\ EndCompletion(c)
  /\ UNCHANGED <<reviewItems, deciding, decisions, revised>>

\* The transaction; 409 and a rollback when the campaign is no longer active.
CommitCompletion(c) ==
  /\ completing[c].phase = "commit"
  /\ campaign = "active" /\ campaign' = "completed"
  /\ reviewEvidence' = Append(reviewEvidence,
       [counts |-> completing[c].counts, list |-> completing[c].list])
  /\ EndCompletion(c)
  /\ UNCHANGED <<reviewItems, deciding, decisions, revised>>

\* The 409, a statement that fails, or a server that dies: a file may be left over.
CompletionFails(c) ==
  /\ completing[c].phase # "idle"
  /\ EndCompletion(c)
  /\ UNCHANGED <<campaign, reviewItems, deciding, reviewEvidence, decisions, revised>>

AccessNext ==
  \/ Activate \/ CancelCampaign
  \/ \E r \in AccessReviewer :
       \/ \E s \in Subject, decision \in {"certified", "revoked"} : BeginDecision(r, s, decision)
       \/ RecordDecision(r) \/ DecisionFails(r)
  \/ \E c \in Completer : BeginCompletion(c) \/ CountDecisions(c) \/ ListDecisions(c)
       \/ CommitCompletion(c) \/ CompletionFails(c)

AccessSpec == AccessInit /\ [][AccessNext]_accessVars
-----------------------------------------------------------------------------
\* Type correctness.
AccessTypeOK ==
  /\ campaign \in {"draft", "active", "completed", "cancelled"}
  /\ \A s \in Subject :
       /\ reviewItems[s].decision \in {"pending", "certified", "revoked"}
       /\ reviewItems[s].decision = "pending" <=> reviewItems[s].reviewer \notin AccessReviewer
  /\ \A r \in AccessReviewer : deciding[r].subject \in Subject \cup {NoSubject}
  /\ \A c \in Completer : completing[c].phase \in {"idle", "count", "list", "commit"}
  /\ decisions \in Nat /\ revised \in BOOLEAN

\* The review is evidenced: a completed campaign has one piece of evidence and any
\* other none, however completions and cancellations race and fail.  The evidence
\* leaves nobody undecided and nobody but administrators self-reviewed; and unless
\* a decision was written while a completion was under way or after it, it lists the
\* decisions that are on record and counts what it lists.
ReviewIsEvidenced ==
  /\ Len(reviewEvidence) = IF campaign = "completed" THEN 1 ELSE 0
  /\ \A i \in DOMAIN reviewEvidence :
       LET listed == reviewEvidence[i].list IN
       /\ \A s \in Subject :
            /\ listed[s].decision # "pending"
            /\ listed[s].reviewer = s => s \in Administrator
       /\ ~revised => listed = reviewItems /\ reviewEvidence[i].counts = CountsOf(listed)
=============================================================================
