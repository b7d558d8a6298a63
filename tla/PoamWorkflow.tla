---------------------------- MODULE PoamWorkflow ----------------------------
(***************************************************************************)
(* One organization's POA&M register: how items are raised from gaps, how  *)
(* the compliance gate advances them, and how they are edited, submitted   *)
(* and reviewed.                                                           *)
(*                                                                         *)
(* A user has at most one request in flight.  The handlers read an item,   *)
(* validate what they read, and write it by id in later statements, each   *)
(* committed on its own; only the gate and the auto-raise run in a         *)
(* transaction, whose SELECT takes no lock and whose writes publish        *)
(* together.  Titles, plans, dates, links, the update timeline, audit rows *)
(* and notifications are left out, and so are requests that are refused.   *)
(***************************************************************************)
EXTENDS Naturals, Sequences, FiniteSetsExt

CONSTANTS
  User,         \* users of the organization, none of them an administrator
  Control,      \* controls with gaps
  Overlap,      \* TRUE: requests of different users overlap
  Faults,       \* TRUE: a statement may fail or the server may crash
  MaxItems,     \* bound: items in the register
  MaxRequests,  \* bound: approval requests on file
  None

Status == {"open", "in_progress", "pending_review", "pending_auditor_review",
           "auditor_approved", "auditor_rejected", "closed", "risk_accepted"}

Open == {"open", "in_progress", "pending_review", "pending_auditor_review"}

Decided == {"auditor_approved", "auditor_rejected"}

\* The statuses of a round of review, which people can also give an item directly.
Reviewing == {"pending_auditor_review"} \cup Decided

Outcome == {"approved", "rejected", "changes_requested"}

GapSource == {"assessment", "audit_finding"}

\* Items people create (also from a risk or a vulnerability) are "manual".
Source == GapSource \cup {"control", "manual"}

ASSUME PoamParameters ==
  /\ MaxItems \in Nat /\ MaxRequests \in Nat
  /\ None \notin User \cup Control

VARIABLES
  items,     \* poam_items, in the order of created_at
  requests,  \* poam_approval_requests, in the order of submitted_at
  work       \* [User -> the request in flight and its local variables]

vars == <<items, requests, work>>

\* heard and declared are history fields: how many approval requests were on file
\* when an auditor last decided about the item, and whether a person has given it a
\* status of the review since the gate or a submission last opened a round.
Item == [control : Control \cup {None}, source : Source, status : Status,
         submitter : User \cup {None}, reviewer : User \cup {None},
         heard : Nat, declared : BOOLEAN]

\* The columns of the review's outcome stay empty: see ReviewRecord.
Request == [item : Nat, by : User]

Idle == [phase |-> "idle", item |-> 0, control |-> None, source |-> "manual",
         to |-> "open", declares |-> FALSE]

\* phase: the statement that comes next; item: the row in hand, 0 for none; to:
\* the status it will be given; declares: the client names that status, and it is
\* one of the review.
Work == [phase : {"idle", "raise", "gate", "edit", "file", "mark", "decide", "record"},
         item : Nat, control : Control \cup {None}, source : Source, to : Status,
         declares : BOOLEAN]

Init ==
  /\ items = <<>>
  /\ requests = <<>>
  /\ work = [u \in User |-> Idle]

MayStart(u) ==
  /\ work[u].phase = "idle"
  /\ Overlap \/ \A v \in User : work[v].phase = "idle"

Finish(u) == work' = [work EXCEPT ![u] = Idle]

\* An item without a submitter that awaits review or is decided was declared so.
NewItem(c, source, status, submitter) ==
  [control |-> c, source |-> source, status |-> status, submitter |-> submitter,
   reviewer |-> None, heard |-> 0,
   declared |-> submitter = None /\ status \in Reviewing]

AddItem(item) == items' = Append(items, item)

File(u, i) == requests' = Append(requests, [item |-> i, by |-> u])

\* The bounds: requests that will add a row start only while there is room.
RoomForItem ==
  Len(items) + Cardinality({u \in User : work[u].phase \in {"raise", "gate"}
                                         /\ work[u].item = 0}) < MaxItems
RoomForRequest ==
  Len(requests) + Cardinality({u \in User : work[u].phase \in {"gate", "file"}})
    < MaxRequests

OpenItems(c) == {i \in DOMAIN items : items[i].control = c /\ items[i].status \in Open}
-----------------------------------------------------------------------------
\* POST /poam, with any status, /poam/from-risk, /poam/from-vulnerability: an INSERT.
Create(c, s) ==
  /\ RoomForItem
  /\ AddItem(NewItem(c, "manual", s, None))
  /\ UNCHANGED <<requests, work>>

\* raiseFromGap: nothing happens when an open item of the source is found.
RaiseRead(u, c, source) ==
  /\ MayStart(u) /\ RoomForItem
  /\ ~\E i \in OpenItems(c) : items[i].source = source
  /\ work' = [work EXCEPT ![u] = [Idle EXCEPT !.phase = "raise", !.control = c,
                                             !.source = source]]
  /\ UNCHANGED <<items, requests>>

RaiseWrite(u) ==
  /\ work[u].phase = "raise"
  /\ AddItem(NewItem(work[u].control, work[u].source, "open", None))
  /\ Finish(u)
  /\ UNCHANGED requests

LatestOpen(c) ==
  IF OpenItems(c) = {} THEN {0}
  ELSE {i \in OpenItems(c) : \A j \in OpenItems(c) : j <= i}

\* recordComplianceTransition: the latest open item of the control is looked up.
GateRead(u, c) ==
  /\ MayStart(u) /\ RoomForRequest
  /\ OpenItems(c) = {} => RoomForItem
  /\ \E i \in LatestOpen(c) :
       work' = [work EXCEPT ![u] =
                  [Idle EXCEPT !.phase = "gate", !.control = c, !.item = i]]
  /\ UNCHANGED <<items, requests>>

\* A round of review is opened.
Advanced(i, u) ==
  [items EXCEPT ![i].status = "pending_auditor_review", ![i].submitter = u,
                ![i].declared = FALSE]

\* Mutant of GateWrite: only a new item gets an approval request.
GateWriteUnfiled(u) ==
  LET w == work[u] IN
  /\ w.phase = "gate"
  /\ IF w.item # 0
     THEN items' = Advanced(w.item, u) /\ UNCHANGED requests
     ELSE /\ AddItem(NewItem(w.control, "control", "pending_auditor_review", u))
          /\ File(u, Len(items) + 1)
  /\ Finish(u)

\* The item found is advanced, whatever its status is by now, or one is
\* created; the approval request is filed in the same transaction.
GateWrite(u) ==
  LET w == work[u] IN
  /\ w.phase = "gate"
  /\ IF w.item # 0
     THEN items' = Advanced(w.item, u) /\ File(u, w.item)
     ELSE /\ AddItem(NewItem(w.control, "control", "pending_auditor_review", u))
          /\ File(u, Len(items) + 1)
  /\ Finish(u)

\* PATCH /poam/:id writes the status the client names, any of them, or else the one
\* it has read.
\* (Its UPDATE uses one parameter as the VARCHAR status and in a text comparison;
\* where PostgreSQL refuses that, EditWrite ends in Fail instead.)
EditRead(u, i, s, named) ==
  /\ MayStart(u)
  /\ named \/ s = items[i].status
  /\ work' = [work EXCEPT ![u] = [Idle EXCEPT !.phase = "edit", !.item = i, !.to = s,
                                   !.declares = named /\ s \in Reviewing]]
  /\ UNCHANGED <<items, requests>>

EditWrite(u) ==
  /\ work[u].phase = "edit"
  /\ items' = [items EXCEPT ![work[u].item].status = work[u].to,
                            ![work[u].item].declared = @ \/ work[u].declares]
  /\ Finish(u)
  /\ UNCHANGED requests

\* POST /poam/:id/submit-for-review
SubmitRead(u, i) ==
  /\ MayStart(u) /\ RoomForRequest
  /\ items[i].status \in {"in_progress", "pending_review"}
  /\ work' = [work EXCEPT ![u] = [Idle EXCEPT !.phase = "file", !.item = i]]
  /\ UNCHANGED <<items, requests>>

SubmitFile(u) ==
  /\ work[u].phase = "file"
  /\ File(u, work[u].item)
  /\ work' = [work EXCEPT ![u].phase = "mark"]
  /\ UNCHANGED items

\* Mutant of SubmitMark: a submitter already on record is kept.
SubmitMarkFirst(u) ==
  LET i == work[u].item IN
  /\ work[u].phase = "mark"
  /\ items' = Advanced(i, IF items[i].submitter = None THEN u ELSE items[i].submitter)
  /\ Finish(u)
  /\ UNCHANGED requests

SubmitMark(u) ==
  /\ work[u].phase = "mark"
  /\ items' = Advanced(work[u].item, u)
  /\ Finish(u)
  /\ UNCHANGED requests

Verdict(outcome) ==
  CASE outcome = "approved"          -> "auditor_approved"
    [] outcome = "rejected"          -> "auditor_rejected"
    [] outcome = "changes_requested" -> "in_progress"

\* POST /poam/:id/review: the item must be awaiting review and have been
\* submitted by somebody else.
ReviewRead(u, i, outcome) ==
  /\ MayStart(u)
  /\ items[i].status = "pending_auditor_review"
  /\ items[i].submitter # u
  /\ work' = [work EXCEPT ![u] = [Idle EXCEPT !.phase = "decide", !.item = i,
                                             !.to = Verdict(outcome)]]
  /\ UNCHANGED <<items, requests>>

ReviewDecide(u) ==
  LET w == work[u] IN
  /\ w.phase = "decide"
  /\ items' = [items EXCEPT ![w.item].status = w.to, ![w.item].reviewer = u,
                            ![w.item].heard = Len(requests)]
  /\ work' = [work EXCEPT ![u].phase = "record"]
  /\ UNCHANGED requests

\* The UPDATE of the approval request has an ORDER BY and a LIMIT, which
\* PostgreSQL has no syntax for: it throws, and the handler answers 500.
ReviewRecord(u) ==
  /\ work[u].phase = "record"
  /\ Finish(u)
  /\ UNCHANGED <<items, requests>>

Fail(u) ==
  /\ Faults
  /\ work[u].phase # "idle"
  /\ Finish(u)
  /\ UNCHANGED <<items, requests>>

NewRequest(u) ==
  \/ \E c \in Control : GateRead(u, c) \/ \E s \in GapSource : RaiseRead(u, c, s)
  \/ \E i \in DOMAIN items :
       \/ SubmitRead(u, i)
       \/ \E o \in Outcome : ReviewRead(u, i, o)
       \/ \E s \in Status, named \in BOOLEAN : EditRead(u, i, s, named)

ServerStep(u) ==
  \/ RaiseWrite(u) \/ GateWrite(u) \/ EditWrite(u) \/ SubmitFile(u)
  \/ SubmitMark(u) \/ ReviewDecide(u) \/ ReviewRecord(u)

Next ==
  \/ \E c \in Control \cup {None}, s \in Status : Create(c, s)
  \/ \E u \in User : NewRequest(u) \/ ServerStep(u) \/ Fail(u)

Spec == Init /\ [][Next]_vars
-----------------------------------------------------------------------------
FiledFor(i) == {k \in DOMAIN requests : requests[k].item = i}

\* Type correctness: whatever requests overlap or die half-way, the register
\* holds items with a status of the vocabulary and requests with a filer.
TypeOK ==
  /\ items \in Seq(Item)
  /\ requests \in Seq(Request)
  /\ work \in [User -> Work]

\* The gate and the submission leave an auditor something to act on: an item awaiting
\* review has an approval request on file, unless a person has declared it in review.
AwaitingHasRequest ==
  \A i \in DOMAIN items :
    items[i].status = "pending_auditor_review" /\ ~items[i].declared => FiledFor(i) # {}

\* The same for every round of review: an item awaiting review has an approval
\* request filed since an auditor last decided about it.
AwaitingHasFreshRequest ==
  \A i \in DOMAIN items :
    items[i].status = "pending_auditor_review" /\ ~items[i].declared =>
      \E k \in FiledFor(i) : k > items[i].heard

\* Separation of duties, where the gate or a submission opened the round: nobody but
\* another user has decided about the request that a user has filed.
DecidedByAnother ==
  \A i \in DOMAIN items :
    items[i].status \in Decided /\ ~items[i].declared =>
      FiledFor(i) # {} /\ requests[Max(FiledFor(i))].by # items[i].reviewer
=============================================================================
