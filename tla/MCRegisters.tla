---------------------------- MODULE MCRegisters ----------------------------
(***************************************************************************)
(* Instances for TLC of what people and background work write together:    *)
(* the POA&M register, the owners' approvals, the suggested statuses and   *)
(* the suggested evidence, the records of evidence and the rules that      *)
(* collect it, webhook deliveries, incidents, indicators and obligations,  *)
(* access reviews and the vendors' questionnaires.                         *)
(*                                                                         *)
(* The components share no variable.  A behaviour is one of one component, *)
(* part, while the others rest, so that a run covers the sum of their      *)
(* state spaces and not the product.  The POA&M register has two parts:    *)
(* one request at a time with larger bounds, and requests that overlap.    *)
(***************************************************************************)
EXTENDS PoamWorkflow, PlatformApprovals, ControlSuggestions, PendingEvidence,
        EvidenceRecords, EvidenceCollection, WebhookDelivery, IncidentResponse, Indicators,
        Obligations, AccessReview, Questionnaire, TLC

VARIABLE part

Parts == {"poam_serial", "poam_overlap", "approvals", "suggestions", "pending_evidence",
          "evidence", "collection", "webhooks", "incident", "indicator",
          "obligation", "access_review", "questionnaire"}

\* The components' variables, in two groups.
recordVars ==
  <<vars, approvalVars, suggestionVars, reviewVars, evidenceVars, collectVars>>
measureVars ==
  <<webhookVars, incidentVars, indicatorVars, obligationVars, accessVars, formVars>>

allVars == <<recordVars, measureVars, part>>

\* A component that rests begins in one state.
RegistersInit ==
  /\ part \in Parts
  /\ Init /\ ApprovalsInit /\ SuggestionsInit /\ ReviewInit /\ EvidenceInit /\ CollectInit
  /\ WebhooksInit /\ IncidentInit /\ IndicatorInit
  /\ ObligationInit /\ AccessInit /\ QuestionnaireInit
  /\ part # "evidence" => ~held
  /\ part # "collection" => rules = [r \in Rule |-> Timed]
  /\ part # "indicator" =>
       indicator = [direction |-> "higher_is_better", amber |-> NoValue, red |-> NoValue]
  /\ part # "obligation" =>
       frequency = "none" /\ due = NoDate /\ today = CHOOSE d \in Todays : TRUE

Busy == {u \in User : work'[u].phase # "idle"}

\* The bounds of both parts: pending_review is left out, which the handlers treat as
\* in_progress, and risk_accepted, which they treat as closed; a second item comes
\* from the gate alone, and of two items each is open, awaits review or is approved.
SmallRegister(S) ==
  LET few == IF Len(items') > 1 THEN {"open", "pending_auditor_review", "auditor_approved"}
             ELSE S IN
  /\ \A i \in DOMAIN items' : items'[i].status \in few /\ (i > 1 => items'[i].source = "control")
  /\ \A u \in User : work'[u].to \in few

\* Requests on file and about to be filed.
Filing == Len(requests') + Cardinality({u \in User : work'[u].phase \in {"gate", "file"}})

\* One request at a time: three approval requests for one item, two for two.
\* Overlapping: two for one item, one for two, and nobody closes or rejects.
PoamStep ==
  \/ /\ part = "poam_serial" /\ Next /\ Cardinality(Busy) <= 1
     /\ Len(items') + Len(requests') <= 4
     /\ SmallRegister(Status \ {"pending_review", "risk_accepted"})
  \/ /\ part = "poam_overlap" /\ Next
     /\ Len(items') + Filing <= 3
     /\ SmallRegister({"open", "in_progress", "pending_auditor_review", "auditor_approved"})

RecordsNext ==
  \/ PoamStep
     /\ UNCHANGED <<approvalVars, suggestionVars, reviewVars, evidenceVars, collectVars>>
  \/ part = "approvals" /\ ApprovalsNext
     /\ UNCHANGED <<vars, suggestionVars, reviewVars, evidenceVars, collectVars>>
  \/ part = "suggestions" /\ SuggestionsNext
     /\ UNCHANGED <<vars, approvalVars, reviewVars, evidenceVars, collectVars>>
  \/ part = "pending_evidence" /\ ReviewNext
     /\ UNCHANGED <<vars, approvalVars, suggestionVars, evidenceVars, collectVars>>
  \/ part = "evidence" /\ EvidenceNext
     /\ UNCHANGED <<vars, approvalVars, suggestionVars, reviewVars, collectVars>>
  \/ part = "collection" /\ CollectNext
     /\ UNCHANGED <<vars, approvalVars, suggestionVars, reviewVars, evidenceVars>>

MeasuresNext ==
  \/ part = "webhooks" /\ WebhooksNext
     /\ UNCHANGED <<incidentVars, indicatorVars, obligationVars, accessVars, formVars>>
  \/ part = "incident" /\ IncidentNext
     /\ UNCHANGED <<webhookVars, indicatorVars, obligationVars, accessVars, formVars>>
  \/ part = "indicator" /\ IndicatorNext
     /\ UNCHANGED <<webhookVars, incidentVars, obligationVars, accessVars, formVars>>
  \/ part = "obligation" /\ ObligationNext
     /\ UNCHANGED <<webhookVars, incidentVars, indicatorVars, accessVars, formVars>>
  \/ part = "access_review" /\ AccessNext
     /\ UNCHANGED <<webhookVars, incidentVars, indicatorVars, obligationVars, formVars>>
  \/ part = "questionnaire" /\ QuestionnaireNext
     /\ UNCHANGED <<webhookVars, incidentVars, indicatorVars, obligationVars, accessVars>>

RegistersNext ==
  /\ part' = part
  /\ \/ RecordsNext /\ UNCHANGED measureVars
     \/ MeasuresNext /\ UNCHANGED recordVars

RegistersSpec == RegistersInit /\ [][RegistersNext]_allVars

\* The same people (or servers) and the same rows in every component.
Symmetry == Permutations(User) \cup Permutations(Approval)
-----------------------------------------------------------------------------
\* Type correctness of the registers: what a request in flight is about exists, and
\* a row's lock has the holder that is about to write.
RegistersTypeOK ==
  /\ ApprovalsTypeOK /\ SuggestionsTypeOK /\ ReviewTypeOK /\ EvidenceTypeOK
  /\ CollectTypeOK /\ WebhooksTypeOK /\ IncidentTypeOK /\ IndicatorTypeOK
  /\ ObligationTypeOK /\ AccessTypeOK /\ QuestionnaireTypeOK /\ TypeOK

\* AwaitingHasFreshRequest, with one request at a time: every round of review that the
\* gate or a submission opens has an approval request of its own, whatever fails
\* half-way and whatever statuses people set in between.
SerialRoundsAreFiled == part = "poam_serial" => AwaitingHasFreshRequest

\* DecidedByAnother, with one request at a time: in a round that the gate or a
\* submission opened, nobody decides about the request that the same person filed.
SerialSeparation == part = "poam_serial" => DecidedByAnother
=============================================================================
