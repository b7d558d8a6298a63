-------------------------- MODULE PlatformApprovals --------------------------
(***************************************************************************)
(* The platform owners' approvals: disabling a feature flag and cancelling *)
(* a subscription at once are staged in pending_approvals until a second   *)
(* owner approves them, rejects them, or a day has passed.                 *)
(*                                                                         *)
(* POST /approvals/:id/approve reads the approval, carries out what was    *)
(* staged in statements of its own (for a cancellation, a call of Stripe   *)
(* among them) and only then marks the approval.  POST /account/cancel,    *)
(* which an organization's administrator makes, cancels the same           *)
(* subscription without an approval.  There is one organization, and one   *)
(* feature flag; e-mails, notes, tiers and audit rows are left out.        *)
(***************************************************************************)
EXTENDS Naturals

CONSTANTS
  Owner,              \* platform owners, each with one request in flight
  Tenant,             \* the organization's administrator
  Approval,           \* bound: rows of pending_approvals
  MaxApprovalFaults,  \* bound: calls and statements that fail, servers that die
  Nobody, NoApproval

ASSUME ApprovalParameters ==
  /\ Tenant \notin Owner /\ Nobody \notin Owner /\ NoApproval \notin Approval
  /\ MaxApprovalFaults \in Nat

VARIABLES
  approvals,      \* pending_approvals
  request,        \* [Caller -> the request in flight]
  flagOn,         \* platform_settings.feature_flags
  organization,   \* its billing_status, and whether it has a stripe_subscription_id
  subscribed,     \* Stripe's own record: the subscription is live
  executed,       \* history: [Approval -> the owners who carried it out]
  approvalFaults  \* how many steps have failed

approvalVars ==
  <<approvals, request, flagOn, organization, subscribed, executed, approvalFaults>>

Caller == Owner \cup {Tenant}

Kind == {"feature_flag.disable", "subscription.cancel_immediately"}

\* lapsed: expires_at has passed.
NoRow == [status |-> "none", kind |-> "feature_flag.disable", by |-> Nobody,
          reviewer |-> Nobody, lapsed |-> FALSE]

\* phase: the statement that comes next; approval: the one that is being approved.
NoRequest == [phase |-> "idle", approval |-> NoApproval]

ApprovalsInit ==
  /\ approvals = [a \in Approval |-> NoRow]
  /\ request = [c \in Caller |-> NoRequest]
  /\ flagOn = TRUE
  /\ organization = [status |-> "active_paid", subscription |-> TRUE]
  /\ subscribed = TRUE
  /\ executed = [a \in Approval |-> {}]
  /\ approvalFaults = 0

ToPhase(c, phase) == request' = [request EXCEPT ![c].phase = phase]
Answer(c) == request' = [request EXCEPT ![c] = NoRequest]

\* What was staged has taken effect, at the hands of c.
Executed(c) ==
  executed' = IF c = Tenant THEN executed
              ELSE [executed EXCEPT ![request[c].approval] = @ \cup {c}]
-----------------------------------------------------------------------------
\* PUT /settings/features with a flag set to false, and
\* POST /organizations/:id/subscription/cancel with immediately.
Stage(o, a, kind) ==
  /\ approvals[a].status = "none"
  /\ approvals' = [approvals EXCEPT ![a] =
       [NoRow EXCEPT !.status = "pending", !.kind = kind, !.by = o]]
  /\ UNCHANGED <<request, flagOn, organization, subscribed, executed, approvalFaults>>

\* PUT /settings/features that only enables takes effect at once.
EnableFlag ==
  /\ flagOn' = TRUE
  /\ UNCHANGED <<approvals, request, organization, subscribed, executed, approvalFaults>>

\* POST /organizations/:id/subscription/reactivate: Stripe is not asked.
Reactivate ==
  /\ organization' = [organization EXCEPT !.status = "active_paid"]
  /\ UNCHANGED <<approvals, request, flagOn, subscribed, executed, approvalFaults>>

\* expires_at passes.
Lapse(a) ==
  /\ approvals[a].status = "pending" /\ ~approvals[a].lapsed
  /\ approvals' = [approvals EXCEPT ![a].lapsed = TRUE]
  /\ UNCHANGED <<request, flagOn, organization, subscribed, executed, approvalFaults>>

\* expireStaleApprovals, whenever the approvals are listed.
ExpireStale ==
  /\ approvals' = [a \in Approval |->
       IF approvals[a].status = "pending" /\ approvals[a].lapsed
       THEN [approvals[a] EXCEPT !.status = "expired"] ELSE approvals[a]]
  /\ UNCHANGED <<request, flagOn, organization, subscribed, executed, approvalFaults>>

\* Mutant of MayApprove: the status is not looked at.
MayApproveUndecided(o, a) == ~approvals[a].lapsed /\ approvals[a].by # o

\* Mutant of MayApprove: the approval's requester may approve it.
MayApproveOwn(o, a) == approvals[a].status = "pending" /\ ~approvals[a].lapsed

MayApprove(o, a) ==
  approvals[a].status = "pending" /\ ~approvals[a].lapsed /\ approvals[a].by # o

\* The checks of POST /approvals/:id/approve.
Approve(o, a) ==
  /\ request[o].phase = "idle"
  /\ MayApprove(o, a)
  /\ request' = [request EXCEPT ![o] =
       [phase |-> IF approvals[a].kind = "feature_flag.disable" THEN "flags" ELSE "lookup",
        approval |-> a]]
  /\ UNCHANGED <<approvals, flagOn, organization, subscribed, executed, approvalFaults>>

DisableFlag(o) ==
  /\ request[o].phase = "flags"
  /\ flagOn' = FALSE
  /\ Executed(o)
  /\ ToPhase(o, "confirm")
  /\ UNCHANGED <<approvals, organization, subscribed, approvalFaults>>

\* POST /account/cancel begins.
CancelAccount ==
  /\ request[Tenant].phase = "idle"
  /\ ToPhase(Tenant, "lookup")
  /\ UNCHANGED <<approvals, flagOn, organization, subscribed, executed, approvalFaults>>

\* Both cancellations read the subscription's id first and have Stripe cancel it,
\* if there is one.
LookUp(c) ==
  /\ request[c].phase = "lookup"
  /\ ToPhase(c, IF organization.subscription THEN "stripe" ELSE "update")
  /\ UNCHANGED <<approvals, flagOn, organization, subscribed, executed, approvalFaults>>

\* Mutant of CancelAtStripe: an error of Stripe's is passed over.
CancelAtStripeAnyhow(c) ==
  /\ request[c].phase = "stripe"
  /\ ToPhase(c, "update")
  /\ \/ subscribed /\ subscribed' = FALSE /\ UNCHANGED approvalFaults
     \/ approvalFaults < MaxApprovalFaults /\ approvalFaults' = approvalFaults + 1
        /\ UNCHANGED subscribed
  /\ UNCHANGED <<approvals, flagOn, organization, executed>>

\* Stripe cancels a live subscription.
CancelAtStripe(c) ==
  /\ request[c].phase = "stripe"
  /\ subscribed
  /\ subscribed' = FALSE
  /\ ToPhase(c, "update")
  /\ UNCHANGED <<approvals, flagOn, organization, executed, approvalFaults>>

\* Stripe knows nothing of the subscription any more, or its answer is an error or
\* is lost: 502, and the approval stays as it is.
StripeFails(c) ==
  /\ request[c].phase = "stripe"
  /\ Answer(c)
  /\ \/ ~subscribed /\ UNCHANGED <<subscribed, approvalFaults>>
     \/ /\ approvalFaults < MaxApprovalFaults /\ approvalFaults' = approvalFaults + 1
        /\ subscribed' \in {subscribed, FALSE}
  /\ UNCHANGED <<approvals, flagOn, organization, executed>>

\* The organization is downgraded and its subscription's id forgotten, whatever the
\* row has become since it was read.
CancelSubscription(c) ==
  /\ request[c].phase = "update"
  /\ organization' = [status |-> "canceled", subscription |-> FALSE]
  /\ Executed(c)
  /\ IF c = Tenant THEN Answer(c) ELSE ToPhase(c, "confirm")
  /\ UNCHANGED <<approvals, flagOn, subscribed, approvalFaults>>

\* The server dies, or a statement fails.
RequestDies(c) ==
  /\ request[c].phase # "idle"
  /\ approvalFaults < MaxApprovalFaults /\ approvalFaults' = approvalFaults + 1
  /\ Answer(c)
  /\ UNCHANGED <<approvals, flagOn, organization, subscribed, executed>>

\* Mutant of Resolved: the UPDATE is by id alone.
ResolvedById(row, o, verdict) == {[row EXCEPT !.status = verdict, !.reviewer = o]}

\* What approveAction and rejectAction make of a row: they decide a pending one in
\* time, and a late one is marked expired unless it lapsed between their statements.
Resolved(row, o, verdict) ==
  IF row.status # "pending" THEN {row}
  ELSE IF row.lapsed THEN {row, [row EXCEPT !.status = "expired"]}
  ELSE {[row EXCEPT !.status = verdict, !.reviewer = o]}

\* approveAction, after the fact.
Confirm(o) ==
  LET a == request[o].approval IN
  /\ request[o].phase = "confirm"
  /\ \E row \in Resolved(approvals[a], o, "approved") :
       approvals' = [approvals EXCEPT ![a] = row]
  /\ Answer(o)
  /\ UNCHANGED <<flagOn, organization, subscribed, executed, approvalFaults>>

\* POST /approvals/:id/reject: the requester may, too.
Reject(o, a) ==
  /\ request[o].phase = "idle"
  /\ approvals[a].status # "none"
  /\ \E row \in Resolved(approvals[a], o, "rejected") :
       approvals' = [approvals EXCEPT ![a] = row]
  /\ UNCHANGED <<request, flagOn, organization, subscribed, executed, approvalFaults>>

ApprovalsNext ==
  \/ \E o \in Owner, a \in Approval :
       Approve(o, a) \/ Reject(o, a) \/ \E kind \in Kind : Stage(o, a, kind)
  \/ \E o \in Owner : DisableFlag(o) \/ Confirm(o)
  \/ \E c \in Caller : LookUp(c) \/ CancelAtStripe(c) \/ StripeFails(c)
       \/ CancelSubscription(c) \/ RequestDies(c)
  \/ \E a \in Approval : Lapse(a)
  \/ ExpireStale \/ EnableFlag \/ Reactivate \/ CancelAccount

ApprovalsSpec == ApprovalsInit /\ [][ApprovalsNext]_approvalVars
-----------------------------------------------------------------------------
\* Type correctness: an owner's request is about a staged approval, and the tenant's
\* about none.
ApprovalsTypeOK ==
  /\ \A a \in Approval :
       /\ approvals[a].status \in {"none", "pending", "approved", "rejected", "expired"}
       /\ approvals[a].status # "none" => approvals[a].by \in Owner
  /\ DOMAIN request = Caller
  /\ \A c \in Caller :
       /\ request[c].phase \in {"idle", "flags", "lookup", "stripe", "update", "confirm"}
       /\ c \in Owner /\ request[c].phase # "idle" =>
            /\ request[c].approval \in Approval
            /\ approvals[request[c].approval].status # "none"
  /\ {flagOn, subscribed, organization.subscription} \subseteq BOOLEAN
  /\ executed \in [Approval -> SUBSET Owner] /\ approvalFaults \in Nat

\* Two owners: what is marked as approved was staged by one owner and had been
\* carried out, by the other one who approved it, before it was marked, whatever
\* failed in between and whoever else was at it.
ApprovedByAnother ==
  \A a \in Approval : approvals[a].status = "approved" =>
    approvals[a].reviewer \in executed[a] \ {approvals[a].by}

\* Nobody pays for what the application has forgotten: as long as Stripe's
\* subscription is live the organization knows its id, whoever cancels it and
\* whatever fails on the way.
LiveIsKnown == subscribed => organization.subscription

\* An approval is made once and decided once, and its decision stands, however
\* approvals, rejections and expiry race.
Decision == INSTANCE DecideOnce WITH
  Request <- Approval, decision <- [a \in Approval |-> approvals[a].status]
DecidesOnce == Decision!DecideSpec

\* migrations/090_pending_approvals.sql:2-3 has the actions "staged here until a
\* second platform owner approves or rejects them": what was rejected, or expired,
\* has not been carried out.
RejectedIsNotExecuted ==
  \A a \in Approval :
    approvals[a].status \in {"rejected", "expired"} => executed[a] = {}
=============================================================================
