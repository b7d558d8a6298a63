# A formal model of the AI GRC platform's compliance core

The repository is a governance, risk and compliance platform: one Node.js
process (Express, `src/backend/src/server.js`) or several of them in front of
one PostgreSQL database, a React frontend, an Electron shell that bundles the
two, and an SDK.  Almost all state is in PostgreSQL tables.  What is hard about
the program is therefore what is hard about every such program: a handler reads
rows in one statement, `await`s, and writes in another; few of the handlers use
a transaction, fewer lock what they read; side effects are appended in
`try { .. } catch { log }` blocks that may fail after the main write committed.

The modules here model the parts of the backend where such a mistake costs most in
this product.  First, what the platform reports as *compliant* and why
(`CrosswalkCredits`, with its abstract promise `CrosswalkPosture`), the workflow
that puts a compliance claim before an auditor (`PoamWorkflow`), and the
tamper-evident audit trail that an assessor relies on (`AuditChain`).  Then the
work done in the background (`JobQueue`, `ReportSweep`, `EvidenceCollection`,
`WebhookDelivery`), the queues in which people decide (`PlatformApprovals`, with
its abstract promise `DecideOnce`, `ControlSuggestions`, `PendingEvidence`,
`AccessReview`, `Questionnaire`), and the registers with a history that must stay
right (`EvidenceRecords`, `IncidentResponse`, `Indicators`, `Obligations`).  They are
model-checked with TLC on small instances, and every safety property that the passing
runs check is proved with TLAPS for every instance, from the assumptions that
section 5 names.

    ControlStatus        the status vocabulary and the pure predicates on it
      CrosswalkPosture   abstract: what the automation promises about statuses
      CrosswalkCredits   the handlers, the credit ledger, the withdrawal
                         transaction; refines CrosswalkPosture
        MCCrosswalkCredits, MCCrosswalkRequests
        CrosswalkCredits_proofs    (of MCCrosswalkRequests too)
    PoamWorkflow         register, gate, auto-raise, submission, review
        MCPoamWorkflow
    AuditChain           hash chain, retention purge, verification
        MCAuditChain
    JobQueue             platform_jobs and the requests that process them
    ReportSweep          scheduled reports, their sweeps and their job
    MCOperations         composes AuditChain, JobQueue, ReportSweep
        Operations_proofs    (of the three and their composition)
    DecideOnce           abstract: a request is opened once and decided once
      PlatformApprovals  two owners' approvals, Stripe; refines DecideOnce
        PlatformApprovals_proofs
    ControlSuggestions, PendingEvidence    suggested statuses and evidence
    AccessReview         a campaign of entitlement reviews and its evidence
    Questionnaire        a vendor's questionnaire and its mailed link
        Reviews_proofs
    EvidenceRecords      versions, files, legal holds, removal
    EvidenceCollection   the rules that collect evidence on a schedule
        Evidence_proofs
    WebhookDelivery      outbound deliveries, flushes, retries
    IncidentResponse, Indicators           phases; measurements and breaches
    Obligations          recurring due dates
        Measures_proofs
    MCRegisters          composes PoamWorkflow and the modules from
                         PlatformApprovals on
        Registers_proofs    (of PoamWorkflow and of the composition)
    CountLemmas          least numbers and counts, for the proofs

`PROJECT.json` lists components, runs, mutants, the source lines of every
definition, hazards, findings and theorems.

## 1. Inventory

Paths are under `src/backend/src/` unless they say otherwise.

**Control status and crosswalk credit** - `routes/controls.js`,
`routes/implementations.js`, `services/crosswalkCreditService.js`,
`routes/vulnerabilities.js`, `routes/pendingControlAssessments.js`,
`routes/organizations/_helpers.js`.
*State:* `control_implementations` (one row per organization and control, with
`status`), `crosswalk_credits` (target, source, `previous_status`), the mappings
between controls of different frameworks (read-only here).
*Operations:* PUT status with auto-crediting of mapped controls, PATCH status,
inherit, ensure, review, findings and work items of vulnerability management,
approval of suggested statuses, framework activation (rehydrate).
*Hard:* the crediting loop is one statement per target and the ledger is written
after the last of them; withdrawal is a transaction of many statements that
races with other withdrawals, deadlocks with them, and has its errors swallowed.
*Correct when:* human work is never overwritten by the automation, a credit has
a source that justifies it, a credit with two sources survives the lapse of one,
and what is handed back is never itself a credit.

**POA&M gate and review** - `services/poamGateService.js`, `routes/poam.js`,
`services/frameworkPoamService.js`, `middleware/sod.js`; called by controls,
implementations, assessments and auditor workspaces.
*State:* `poam_items`, `poam_approval_requests`.
*Operations:* the gate on compliance claims, items raised from failed tests and
audit findings, create, edit, submit for review, review.
*Hard:* SELECTs without locks inside the gate's transactions, handlers that
write back what they read, submission and review in several autocommitted
statements.
*Correct when:* an item that the gate or a submission has put before the auditor has
an approval request to act on, one of the current round; nobody decides about a
request of their own, nor about an item they have put up for review; decisions are
recorded.

**Audit trail** - `src/backend/migrations/155_audit_log_hash_chain.sql`,
`services/auditService.js`, the purge in `services/jobService.js`,
`src/backend/scripts/verify-audit-chain.js`.
*State:* `audit_logs` with `prev_hash`/`record_hash`, an advisory lock per
organization, purge records with the boundary they left.
*Operations:* append (trigger), purge, verify.
*Hard:* `created_at` is the time the transaction *began* while the lock orders by
arrival; the purge disables triggers under a table lock.
*Correct when:* an untampered trail verifies, the chain has one beginning and
does not fork, nobody waits for the lock forever.

**Background jobs** - `services/jobService.js`, `routes/ops.js`.
*State:* `platform_jobs`.  *Operations:* enqueue, read a batch, start, complete,
fail, retry.  *Hard:* rows are read without being claimed, workers die with a job in
`running`, failure is decided from a count read earlier.  *Correct when:* retries
end, and a processing request ends.

**Schedulers** - `reportScheduler.js`, `scheduledReportService.js`,
`retentionScheduler.js`, `reminderService.js`, `backupScheduler.js`, and the rules of
`routes/autoEvidenceCollection.js`.  *State:* `next_run_at` columns and in-process
"already sweeping" flags, one per server.  *Operations:* claim, run, reschedule,
edit.  *Hard:* servers sweep at the same time, die with rows in hand, and edits
write back a `next_run_at` that was read before a run.  *Correct when:* what is due
is run, once a period, and no edit leaves a scheduled rule without a time.

**Webhooks** - `services/webhookService.js`.  *State:* `webhook_deliveries`.
*Operations:* enqueue, flush, back off.  *Hard:* flushes overlap; a receiver has
accepted what the sender takes for a failure.  *Correct when:* an acknowledged event
is not sent again, and the count of attempts is the count of attempts.

**Evidence and retention** - `routes/evidence.js`, `evidenceVersionService.js`,
`routes/dataGovernance.js`, `runRetentionCleanup`, `routes/pendingEvidence.js`.
*State:* evidence rows, versions, files on disk, legal holds, suggested items.
*Operations:* edit, new version, hold, release, clean up, delete, approve, reject.
*Hard:* row and file are removed in separate steps, a hold may come after the
check, the cleanup acts on a policy that may be edited or disabled meanwhile, approval
stores evidence before it marks the item.  *Correct when:* history has no gaps, an
existing record has its files, a removed one leaves none, nothing under a hold goes,
and the cleanup takes what a policy or its own retention has ended.

**Suggested control statuses** - `routes/pendingControlAssessments.js`.  *State:* one
pending suggestion per control.  *Hard:* an approval applies the row as it was read,
while a scan rewrites it and others approve or reject it.  *Correct when:* only
auditors verify, and what is on record is what was applied.

**Platform approvals** - `services/approvalService.js`, `routes/platformAdmin.js`,
cancellation in `routes/orgSettings.js`.  *State:* `pending_approvals`, feature
flags, the organization's subscription, and Stripe's own record of it.  *Hard:* the
action is executed before the approval is marked, with a call of Stripe in
between.  *Correct when:* two owners were at it, a decision stands, and no
subscription stays live that the organization has forgotten.

**Access governance** - `services/accessGovernanceService.js`.  *State:* campaigns,
items, their evidence.  *Hard:* a completion counts, lists, writes a file and
commits in separate steps while decisions and cancellations go on.  *Correct when:*
a completed campaign has one piece of evidence of decisions that were made.

**Incidents, obligations, indicators** - `incidentService.js`, `obligationService.js`,
`indicatorService.js` and their routes.  *Hard:* phase times under reopening, dates
over month ends and missed periods, measurements in any order.  *Correct when:* the
times are in the order of the phases, the next due date is the first ahead, and the
dashboard shows the newest measurement and a level no milder than a better value's.

**Third-party risk** - `routes/tprm.js`, `routes/tprmPublic.js`.  *State:* a
questionnaire with its token and answers.  *Hard:* the link is mailed before its
token is stored, and the vendor's status is read and written apart.  *Correct when:*
a mailed link works, and a submission stands.

**Assessments and audits** - procedures, results, engagements, findings.  Their
calls of `raiseFromGap` are modelled in `PoamWorkflow`.

**Not modelled.**  *Accounts and sessions:* single-statement writers of session rows,
and identity providers' protocols.  *Organizations, configuration, caches, risks,
exceptions, policies, RMF packages:* registers with one statement per operation, or
with the read-and-write-back that `PoamWorkflow` shows for `PATCH /poam/:id`.
*AI services, realtime and mail, integrations, subscription and licensing:* outside
services; what is stored is what they answer.  *Framework catalogues and seeds*
(more than a fifth of the implementation's lines) are data.  *Server, middleware, database
schema* are the environment of the models: authentication has happened, tables are
their state.  *Frontend, desktop shell, SDK* are clients, whose requests are the
inputs of the models.

### How the parts interact

    client --PUT/PATCH--> control status --isComplianceTransition--> gate --> poam_items,
                              |    ^                                          approval requests
         crediting loop, recordCredits |                                            |
                              v    | handleSourceStatusChange                  review (auditor)
                          credit ledger
    assessment / audit finding --raiseFromGap--> poam_items
    every handler --createAuditLog--> audit_logs --trigger--> chain <-- retention purge (job)
                  --enqueueWebhookEvent--> webhook_deliveries <-- flush (request or job)
    requests, timers --> platform_jobs / next_run_at <-- processing requests, sweeps
    suggestion (scan) --> pending --approve--> control status, evidence
    evidence <-- cleanup (timers, jobs), DELETE; suspended by legal holds

Calls go through function calls in one process and rows in one database; there
are no messages between servers.  The concurrency is that of requests: between
two statements of one, statements of any other run, on this server or another.

## 2. The modules and the code

**One SQL statement is one step.**  A handler is a record in `work` (`phase` names
the statement that comes next; the other fields are the handler's local
variables) and an action per statement.  Statements outside a transaction are
committed at once.  A `READ COMMITTED` transaction keeps its effects in the
handler's record until its commit and holds locks on the rows it has rewritten;
other statements on those rows wait (their action is not enabled).  Requests that
are refused (400, 403, 404, 409) change nothing and are left out.  `Fail`
(`Rollback`) ends a request at any statement: a statement that throws, a client
that goes away, a server that dies.  What has been committed stays.

### ControlStatus, CrosswalkPosture, CrosswalkCredits

| code | model |
|---|---|
| `control_implementations.status` | `status`; `None` is no row |
| `crosswalk_credits` per target, by `created_at` | `credits`, a sequence of `[source, previous]` |
| a request's local variables and open transaction | `work[h]` |
| PUT `/controls/:id/implementation` | `PutBegin`, `Write`, `Gate`, then `CreditTarget`*, `ResolvePrevious`, `RecordCredits` or a withdrawal |
| PATCH `/implementations/:id/status` | `PatchBegin`, `Write`, `Gate`, withdrawal |
| `handleSourceStatusChange`, `withdrawCredits` | `DeleteCredits`, `CheckTarget`*, `RestoreTarget`*, `CommitWithdrawal`; `DeadlockAbort` |
| POST `/controls/:id/inherit` | `InheritBegin`, (`InheritRead`, `InheritWrite`)*, `ResolvePrevious`, `RecordCredits` |
| ensure, review, finding, work item, suggestion, rehydrate | `Ensure`, `Review`, `FlagByFinding`/`UpdateWorkItem` + `DirectWrite`, `ApproveSuggestion`, `Rehydrate` |

`asked`, `by` and `filed` are history variables: the status a person last asked
for, what wrote the status last, and whether the gate has filed an approval
request since the control last was not compliant.  No guard reads them.

`Exclusive` restricts the *clients*: with it, two requests on the same control are
not in flight at once.  `HumanWorkStands`, `LedgerRemembersNoCredit` and the
refinement are checked and proved without it.

`CrosswalkPosture` is the promise in the header of `crosswalkCreditService.js`
reduced to what it says of statuses: a person may set any; the automation credits
only controls nobody has started, and takes back only credits, never handing out
another credit.  It has no ledger, no requests and no transactions.
`CrosswalkCredits` implements it with `status` and `asked` mapped to themselves:
the loop, the reads and the checks stutter, and a whole withdrawal is one step.

### PoamWorkflow

| code | model |
|---|---|
| `poam_items`, `poam_approval_requests` | `items`, `requests`: sequences in the order of insertion |
| `recordComplianceTransition` | `GateRead`, `GateWrite` (a transaction whose SELECT locks nothing) |
| `raiseFromGap` | `RaiseRead`, `RaiseWrite` |
| POST `/poam` (with any status) and from-risk, from-vulnerability | `Create` |
| PATCH `/poam/:id`, naming any status or none | `EditRead`, `EditWrite` |
| POST `/poam/:id/submit-for-review` | `SubmitRead`, `SubmitFile`, `SubmitMark` |
| POST `/poam/:id/review` | `ReviewRead`, `ReviewDecide`, `ReviewRecord` |

Two fields of an item are history: `heard`, how many requests were on file at the
last decision, and `declared`, whether a person has given the item one of the
statuses of a review directly since the gate or a submission last opened a round.
The code accepts that from whoever has `controls.write`.  No guard reads either
field, and the properties about rounds of review are about items that are not
`declared`; `NotDecidedBySubmitter` has no such exception, and the code breaks it
(see the findings).  It reads `putUp`, a history variable of `MCPoamWorkflow`: who
has put the item up for review last, in whatever way.  `ReviewRecord` changes nothing
because the statement in the code is not PostgreSQL; a request therefore keeps no
outcome, and the model has no column for one.

### AuditChain

| code | model |
|---|---|
| `audit_logs` of one organization | `log`, a set of rows; `at` is `created_at` |
| a transaction on a connection | `tx[w]` |
| BEGIN, or an autocommitted INSERT | `Begin` (takes the time: `NOW()` is the transaction's start) |
| `audit_log_chain_append` (trigger) | `InsertRecord` with `LockFree`, `Chained` |
| `runAuditLogRetention` | `PurgeBegin`, `PurgeCount`, `PurgeWrite`, `Commit` |
| `verify-audit-chain.js` | `Broken`, with `Boundaries` and `Before` |

### The other components

A request, worker or server is a record of local variables with its next statement
in `phase`, as above.  History variables (`jobsOverlap`, `flushOverlap`,
`collectOverlap`, `meddled`, `crossed`, `raced`, `changesOverlap`, `revised`,
`misled`, and the counters named so) say whether the interleaving has happened that
a property excepts; no guard reads them.

| module | code | model |
|---|---|---|
| `JobQueue` | `platform_jobs` in order of `created_at` | `jobs`; `due` is `run_after <= NOW()` |
| | `processPendingJobs` | `ReadQueue`, then per row `StartJob`, `RunJob`, `CompleteJob` or `RecordFailure`; `FailureRefused`, `ProcessorDies` |
| `ReportSweep` | `next_run_at` | `nextRun`: due, a claim's hour, a period ahead |
| | `runDueReportsSweep`, `runScheduledReport` | `Claim`, `Send`, `Reschedule`, `RescheduleFails`, `ServerCrash`; `JobStart`, `JobReschedule`, `JobDies` |
| | the clock | `HourPasses`, `PeriodPasses` |
| `EvidenceCollection` | `evidence_collection_rules` | `rules`: schedule, enabled, `next` (NULL, past, ahead) |
| | PATCH `/rules/:id`, POST `/rules/:id/run`, scheduled run | `PatchRead`, `PatchWrite`; `RunNow`; `ClaimRules`, `CollectRule`, `FinishRule`, `CollectorDies` |
| `WebhookDelivery` | `webhook_deliveries` | `deliveries`; `due` is `next_attempt_at <= NOW()` |
| | `enqueueWebhookEvent`, `processPendingWebhookDeliveries` | `EnqueueDelivery`; `ReadDeliveries`, `Post`, `RecordDelivered`, `DeliveredNotWritten`, `RecordFailed`, `FlushDies` |
| `PlatformApprovals` | `pending_approvals`, flags, organization, Stripe | `approvals`, `flagOn`, `organization`, `subscribed` |
| | POST `/approvals/:id/approve` | `Approve`, `DisableFlag` or (`LookUp`, `CancelAtStripe` or `StripeFails`, `CancelSubscription`), `Confirm`; `RequestDies` |
| | staging, reject, expiry, `/account/cancel`, reactivate | `Stage`, `Reject`, `Lapse` + `ExpireStale`, `CancelAccount`, `Reactivate`, `EnableFlag` |
| `ControlSuggestions` | `pending_control_assessments` of one control | `suggestions`; `inReview` is the row as an approval read it |
| | scan, approve, reject | `ScanControl`; `ReadSuggestion`, `ApplySuggestion`, `ApplyFails`; `RejectSuggestion` |
| `PendingEvidence` | `pending_evidence` | `pendingItems`; `promotions` counts the evidence made |
| | approve, reject | `ReadItem`, `PromoteItem`, `MarkApproved`; `MarkRejected`; `ReviewDies` |
| `EvidenceRecords` | evidence row, `evidence_versions`, uploads | `record`, `versions`, `disk` |
| | `withSnapshot` in PUT and POST versions | `BeginEdit`/`BeginVersion`, `Snapshot` (takes `rowLock`), `CommitEdit`, `EditFails`, `EvidenceNotFound` |
| | cleanup, DELETE | `BeginRemoval` (for the cleanup when `Due`), `CheckHold`, `DeleteRow`, `UnlinkFile`, `RemovalDies` |
| | legal holds, `retention_until` | `held`, `expired`; `PlaceHold`, `ReleaseHold`, `RetentionEnds` |
| | retention policies, age of the row | `policy`: none is enforced, or the evidence is younger or older than the strictest; `PolicyChanges` |
| `IncidentResponse` | status and phase times; a time is a transaction's number | `incident`, `BeginChange`, `ApplyStatusChange`, `RollbackChange` |
| `Indicators` | thresholds, measurements, latest copy | `Tune`, `RecordMeasurement`, with `EvaluateBreach` |
| `Obligations` | `next_due_date` in a calendar with leap years | `EditObligation`, `Attest`, `DaysPass`, with `AdvanceDueDate` |
| `AccessReview` | campaign, items, evidence rows | `Activate`, `CancelCampaign`, `BeginDecision`, `RecordDecision`; `BeginCompletion`, `CountDecisions`, `ListDecisions`, `CommitCompletion` |
| `Questionnaire` | status, `access_token`, responses | `BeginSend`/`BeginReminder`, `MailLink`, `RecordSent`; `BeginAnswer`, `WriteAnswers`; `EditForm`, `DeleteForm` |

`DecideOnce` is what an approval queue promises: a request is opened once, decided
once (approved, rejected or expired), and the decision stands.
`PlatformApprovals` implements it with `decision[a]` mapped to the row's status:
executing, calling Stripe and failing stutter.

## 3. What the runs check

The longest run, `registers`, takes about three minutes with two workers.

| run | instance | checks | states |
|---|---|---|---|
| `crosswalk_requests` | *serial:* s1, s2, goal mapped to each other; 1 request at a time of PUT, PATCH, ensure; six statuses.  *overlap:* two sources, three common targets; 2 requests at a time on different controls, two statuses | `CreditsAreTraced`, `SerialKeptUntilLastLapses` | 298,512 |
| `crosswalk_any_order` | one pair; 2 requests, on the same control too; all ten operations; failures | `TypeOK`, `HumanWorkStands`, `LedgerRemembersNoCredit`, refinement of `CrosswalkPosture` | 1,660,021 |
| `operations` | *audit:* 3 connections, 5 transactions.  *jobs:* 2 processing requests at a time, 3 in all, 2 jobs of 2 attempts.  *reports:* 2 servers, 2 reports, a job.  Failures and crashes in all | `IntactVerifies`, `OneGenesis`, `RetriesEnd`, `MailedOnce`, `OperationsTypeOK`; liveness `EveryTransactionEnds`, `ProcessingEnds`, `ReportsAreRun` | 142,629 |
| `registers` | 13 parts, below | 23 invariants, `KeptWhileProtected`, `FirstDateAhead`, refinement of `DecideOnce` | 1,215,111 |

The parts of `registers`, with their own sizes:

| part | instance | what holds | states |
|---|---|---|---|
| `poam_serial` | 2 users, items and requests on file 4 in sum; one request at a time; six statuses, set by people too; failures | every round of review that the gate or a submission opens has its request; in it nobody decides about an own request | 245,126 |
| `poam_overlap` | 2 users, items and requests (on file or being filed) 3 in sum; overlapping; four statuses, set by people too; failures | an item that the gate or a submission has put before the auditor has a request | 232,149 |
| `approvals` | 2 owners, a tenant, 2 rows, 2 failures | `ApprovedByAnother`, `LiveIsKnown`, `DecidesOnce` | 95,839 |
| `suggestions` | 2 rows, an auditor and another reviewer | `VerifiedByAuditor`, `RejectedNotApplied`, `RecordIsWhatWasApplied` | 553 |
| `pending_evidence` | 2 items, 2 reviewers, 2 failures | `PromotedOnce` | 1,278 |
| `evidence` | 2 editors, a cleanup, a DELETE, 3 versions, 3 files, a failure, every change of policy | `HistoryComplete`, `FilesKept`, `RemovedFileIsGone`, `KeptWhileProtected` | 99,573 |
| `collection` | a rule, 2 requests, a death | `ScheduledHasNext`, `CollectedOnce` | 142,415 |
| `webhooks` | 2 deliveries, 2 flushes at a time, 3 in all; failures | `AttemptsAccount`, `AcknowledgedOnce` | 68,798 |
| `incident` | 2 requests at a time, 6 in all | `PhasesInOrder` | 87,457 |
| `indicator` | 3 values, 2 points in time, every threshold and direction | `LatestIsNewest`, `WorseIsNotMilder` | 2,420 |
| `obligation` | weekly, monthly, annual, from the 15th or 31st, attested early or up to a year late | `FirstDateAhead` | 58,728 |
| `access_review` | 2 subjects who review, one of them administrator; 2 completions; 3 decisions | `ReviewIsEvidenced` | 38,491 |
| `questionnaire` | 2 senders, 2 tabs, 2 tokens, 3 saves | `MailedLinkWorks`, `SubmissionStands` | 142,284 |

*Why several components in one run.*  They share no variable, so the product of their
state spaces would say nothing more than their sum.  A constant of the behaviour,
`part`, chosen in the initial state, selects the component that moves while the others
rest; a property of one of them is checked in every behaviour, and is about its own.
In `crosswalk_requests` the control of the first request decides instead: the two
catalogues do not map to each other, and only the one it belongs to moves (`Alone`).

*Why the bounds are enough.*  `KeptUntilLastLapses` needs two sources of one
target, a deadlock two sources with two common targets, and a withdrawal that has
passed one target over before it deadlocks about the others a third; all are there.  A target that is itself a source (credit through credit) is in
the diamond of the serial part.  The ledger reorders rows when a source
credits again, which two sources show.  A review round ends and a second begins
with two or three requests on file, and a duplicate item with two items.  Of the
statuses, `pending_review` is left out, which the handlers treat as `in_progress`, and
`risk_accepted`, which they treat as `closed`; the overlapping part leaves out `closed`
and `auditor_rejected` too.  Where there is a second item it comes from the gate, and
each of the two is open, awaits review or is approved (`SmallRegister`).  A purge
needs an expired row, a kept row and its own record, and two purges plus a writer
between them fit in five transactions.  A retried job or delivery needs two
attempts and three processings, one of them after a failure that was not written.
Reports need a second server to find a claim whose server has died.  Two approvals
of two owners are the smallest with an approval, a rejection and an expiry that
race; two failures let the Stripe call succeed and its UPDATE fail twice.  Three
versions are a superseded one of a superseded one.  Six changes take an incident
through all phases, reopen it and go on.  Weekly, monthly and annual periods from
the 15th and the 31st, attested up to thirteen months late, meet short months, a
leap day and the turn of the year.  The
bounds are the constants whose names begin with `Max`, `LastMonth`, and the sets of
requests and rows; crosswalk needs none, its state is finite.

*Views and symmetry.*  `crosswalk_any_order` uses `VIEW Effects`, which hides the
history variables `by` and `filed`: no other variable depends on them, and no
property of that run reads them.  People and rows, handlers, and sources with the
same mappings are symmetric in the runs without liveness; `operations`, which
checks liveness, uses no symmetry.

*Deadlock* is checked in the crosswalk and POA&M runs and in `collection_twice`.
It is off in `operations`, `registers`, `audit_fork` and `approval_executed`, where
nothing can happen once a bound (transactions begun, rows made, saves written) is
reached; that a request in flight always goes on is what the liveness of
`operations` shows for transactions, jobs and reports.

### Findings

Eight runs end in a violation, each of a sentence the repository states about
itself; `PROJECT.json` quotes the lines.

1. `crosswalk_race`: a withdrawal between the crediting of a target and the
   recording of that credit takes back a credit that another implemented source
   justifies (`routes/controls.js:262` and `:327`).
2. `crosswalk_finding`: a vulnerability finding moves a source to `needs_review`
   without withdrawing what it credits (`routes/vulnerabilities.js:332`); so do the
   review endpoint and approved suggestions.
3. `crosswalk_gate`: `not_applicable -> implemented` is no compliance transition,
   so the claim passes with no approval request (`services/poamGateService.js:34`).
4. `poam_submitter`: a user creates an item as `pending_auditor_review`
   (`routes/poam.js:635`) and approves it: nobody is on record as its submitter, and
   separation of duties then excludes nobody (`routes/poam.js:1240`,
   `middleware/sod.js:40`).  A second way: PATCH takes
   `auditor_approved` from the submitter (`routes/poam.js:930-942`), where PostgreSQL
   accepts its UPDATE (see the note on three statements below).
5. `poam_separation`: with overlapping submissions, the user whose approval request
   is the latest may decide about it (`routes/poam.js:1126`, `:1240`).
6. `audit_fork`: transactions that append in another order than they began leave
   two rows with one predecessor and a trail reported as BROKEN
   (`migrations/155_audit_log_hash_chain.sql:106`).
7. `collection_twice`: the claim of the evidence collection rules leaves
   `next_run_at` in the past, so that a second worker claims the same rules as soon as
   the first claim has committed (`services/jobService.js:407`).
8. `approval_executed`: a staged action is executed before its approval is marked; an
   owner who rejects it, or its expiry, in between leaves a rejected row whose
   action was carried out (`routes/platformAdmin.js:1368`).

Each passing run states under which restriction the property does hold: one
request at a time or no two on one control, no findings, rounds of review that the
gate or a submission opened (`~declared`), rows chained in the order of their
timestamps, requests that do not overlap.  In the properties with a
history variable (`~collectOverlap => ..`) the exception is what the code does not
guard against: two flushes send an event twice, two collections store evidence
twice, two approvals apply a suggestion that a third person has changed, changes of
an incident that wait for each other stamp times in the other order, a cleanup
removes what was put on hold after it looked, overlapping sends leave a dead link.

One more disagreement is visible in the overlapping part of `crosswalk_requests`,
where TLC refutes `CreditHasSource`: two sources of three targets lapse at the same
time, the second withdrawal passes one target over because the first source has not
been written yet, and the deadlock about the other two targets aborts the first
withdrawal (`services/crosswalkCreditService.js:118`, `:170`).  The target stays
credited by a source that has lapsed.  What does hold, with any number of controls
and requests, is `CreditHasRow`: the credit keeps a row in the ledger, so that a
later withdrawal of its source takes it back.  `CreditsAreTraced` is both: the
row with overlapping requests, the crediting source with one at a time.

Two disagreements with the documentation were met in the source and have no run,
because one statement decides them.  The approval request never gets the auditor's
decision: `UPDATE .. ORDER BY .. LIMIT` is no PostgreSQL statement
(`routes/poam.js:1275`), so that the review answers 500 after it has changed the item.
And the cleanup removes evidence whose `retention_until` is still ahead once it is
older than the strictest enforced policy (`services/jobService.js:53-56`), while
`docs/guides/EVIDENCE.md:28` says that `retention_until` "records how long the document
must be kept".  `EvidenceRecords` has that behaviour: `Due` is the condition of the
code, and `KeptWhileProtected` claims no more than it.

Three limits of single statements are in no property: from the 31st, the end of
February becomes the day of an obligation's later periods
(`services/obligationService.js:54`); an obligation attested twice skips a period
(`routes/obligations.js:460`); a decision between the count and the list of a
completion makes the two disagree (`services/accessGovernanceService.js:335`, `:349`).

Three statements of the code deserve a note.  `PATCH /poam/:id`
(`routes/poam.js:941-958`) and the work-item updates
(`routes/vulnerabilities.js:1688-1693`, `:1715-1717`) use one parameter both as the
`VARCHAR` status and in a comparison with text; PostgreSQL deduces two types for it
and may refuse the statement when it is prepared ("inconsistent types deduced for
parameter"), as the casts `$3::text` in `routes/controls.js` avoid.
`services/jobService.js:597-601` has the same form.  `JobQueue` has both outcomes
(`RecordFailure`, `FailureRefused`); the other models let these writes happen.  If
they do not, those systems have fewer behaviours: what is checked and proved holds
all the same, and no violation above needs them (`poam_submitter` is violated
through POST and a review).

## 4. Fairness

`AuditChain`: strong fairness of each connection's `DatabaseStep`.  It is justified by
PostgreSQL, which queues waiters for an advisory lock and for a table lock in the
order of their requests, and by the handlers, which run their next statement without
waiting for a client.  Weak fairness would not do: the lock is free and taken again
between any two steps of a waiter.  Nothing is assumed about `Begin` (clients) or
`Rollback` (failures).

`JobQueue`: weak fairness of each processing request's `ProcessorStep`.  It is one
asynchronous function, whose next statement is always enabled; that a job's own code
returns or throws is part of it (`RunJob`).  Nothing is assumed about who calls it:
`ProcessingEnds` is about the request, not about a job being taken up.

`ReportSweep`: weak fairness of each server's `SweepStep`, which includes `Claim`
(`setInterval` starts a sweep again and again on every server, and one that has
restarted too), and of `HourPasses` (the clock).  Failures, crashes and the period of
a schedule have none; `DueIsRun` holds because failures are finitely many in a run.

The other specifications have no fairness and only safety is claimed of them: an
error of a crediting or a withdrawal is logged and swallowed, and registers wait
for people, so that no promise of completion could hold.

## 5. What is proved

The theorems hold for every value of the constants: any number of controls and
mappings, of requests in flight, users, items, connections and transactions.

*`CrosswalkCredits_proofs`* assumes `Parameters` and `NoneIsNoStatus` (the shape of
the constants).  The inductive invariant is `IInv`: `TypeOK`; `RequestsSound`, which
ties the local variables to the phase (a request that is about to record credits
holds previous statuses that are no credits, and so does one that restores);
`LocksHold`, that a row a withdrawal has rewritten was credited, is still, and is
rewritten by that withdrawal alone; and the two properties themselves.
`HumanWorkStands` is not inductive alone: it is `LocksHold` that makes the commit
of a withdrawal change only rows that are *still* credited, although the check was
many statements ago.  `LedgerRemembersNoCredit` and `RequestsSound` need each other,
because the previous status travels from the ledger through a request's variables
and back.  `Refinement` follows: every step from a state with `IInv` is a step of
`CrosswalkPosture` or a stutter.

That a credit has its source is proved in three steps.  `CreditHasRow` is proved
under `Orderly`: clients set, patch and ensure statuses and wait for an answer before
they edit the same control again, and no statement fails.  It says that a control
which is credited when all is quiet has a row in the ledger, and its invariant
`CreditIInv` has to account for every half-done request: no two are about one control
(`OwnControls`), a ledger has at most one row for a source and remembers nothing but
`not_started` (`LedgerTidy`), a request that withdraws is about a control that no longer
justifies credit (`TidyRequest`), and a credited control has a row that no withdrawal
has passed over (`Stays`), or a request that has credited it and is about to record it
(`Recording`): that is `CreditAccounted`.  A deadlock aborts a withdrawal as a whole,
which is why the invariant survives it.
With one request at a time, `SerialIInv` adds what can then be relied on: every
source justifies its credit but for the one whose lapse is being worked off
(`SourcesJustify`), a restored control has no source (`RestoredHasNone`), and what a
request has read is so (`Reliable`).  From that follow `CreditHasSource` and
`KeptUntilLastLapses` of a server with a single handler.  `RequestsIInv` joins both for
the clients of `MCCrosswalkRequests`: as long as only the first catalogue has been used
there is one request at a time, and afterwards `CreditIInv` is what remains
(`FirstCatalogue` says that the controls of that catalogue are controls).

*`Registers_proofs`* proves `TypeOK` and `AwaitingHasRequest` of the POA&M register
with overlapping requests and failures, whatever statuses people set, from no
assumption but the shape of the constants.  `IInv` adds that every request in flight
is `Sound`: one that has an item in hand has an existing one, one about to mark an
item has filed its request, and one that will write `pending_auditor_review` has an
`Accounted` item (a request is on file for it, or a person has declared its status)
or will declare it.  With one request at a time (`~Overlap`) `AwaitingHasFreshRequest` and
`DecidedByAnother` are proved, and for a finite set of users the same of a server
whose clients happen to send one request at a time.  The core of `SerialIInv`
is `LatestBy`: the latest request filed for an item that awaits review is by who
submitted it, and of one that was decided by another than who decided.  `ItemInOrder`
says it of items that are not `declared`, together with `Fresh` (a request was filed
since the last decision), and `WorkInOrder` of the request in flight, which may have
filed and not marked.  An item stays outside `ItemInOrder`
from the moment a person declares it in review until the gate or a submission opens
the next round, and the invariant shows that this round is then in order whatever was
declared before.  `RegistersIInv` restricts it to the part of `MCRegisters` with
one request at a time.  `RegistersAreTheirs` shows that the composition of the
registers implies the specification of each of them, so that every theorem below
about a register holds in the run, and `RegistersTyped` that all their types do.

*`Operations_proofs`* proves `TypeOK`, `OneGenesis` and `IntactVerifies` of the audit
trail.  The core of `IInv` is `Linked`: every row is chained to the latest (by
`created_at`) of the rows appended before it that are still there, if there are any.
That survives a purge, because a purge removes the oldest rows and so the latest of
some rows only with all of them.  The other parts make it inductive: at most one
transaction has an uncommitted row (`OneWrites`), and that row is linked to what its
commit will leave (`RowsWritten`); expired rows have a latest, which is the boundary
noted (`HasLatest`); times are distinct and in the past (`RowsDiffer`, `InThePast`);
and a purge in flight expires nothing as young as the transactions in flight
(`Retained`).
For the jobs it proves `RetriesEnd`: `RetriesCounted` says that, as long as requests
do not overlap, the attempts in a request's hand are those of the rows, one fewer for
the job it has started, and that what is queued may be started.  For the reports it
assumes `~Slow`: no sweep takes longer than the hour its claim buys.  Then no two
sweeps have a report in hand (`ClaimedByOne`), and from that and what the mails and
failures so far account for, `MailedOnce`; the types hold for slow sweeps too.
`OperationsTyped` is about the three side by side.

*`PlatformApprovals_proofs`* proves the types, `ApprovedByAnother`, `LiveIsKnown` and
`DecidesOnce`.  `ApprovalsIInv` adds to the types what a request in flight has
established: one that is approving is not by who staged it (which no later statement
checks again), one about to confirm has executed the action, and one about to clear
the subscription has cancelled it at Stripe.  The refinement needs no more than the
conditional UPDATEs, which is why the decision stands although everything before
them races.

*`Evidence_proofs`* proves `HistoryComplete`, `FilesKept`, `RemovedFileIsGone` and
`KeptWhileProtected` of the records.  `EvidenceIInv` adds that the lock's holder has
filed the row as it is (`LockSound`), that uploads in flight have their files, that a
removal unlinks only once the row is gone (`UnlinkedLast`), and that what a removal
decided about holds and retention is still right unless it was raced
(`DecisionsHold`): a hold placed, or a cleanup whose condition `Due` an edit of
`retention_until` or of the policies has made false.  Of the collection rules it proves `ScheduledHasNext` and
`CollectedOnce`: without overlap, what a collector has read of a rule is up to date
(`UpToDate`), and a rule that is due has not been collected since it came due but by
requests that died (`InOrder`).

*`Measures_proofs`* proves `LatestIsNewest`, `WorseIsNotMilder` (for all integers as
values and thresholds) and `PhasesInOrder`, whose invariant says in which statuses
which phases must have a time: it is because an incident reaches `eradicated` only
from `contained`, and keeps first times when it is reopened, that the order holds.
Of the webhooks it proves `AttemptsAccount` and `AcknowledgedOnce`: no flush has read a
count that runs ahead of the POSTs (`NoneAhead`), and without overlap what a flush has
in hand is up to date and not delivered, and what was acknowledged and is not written
is counted (`FlushInOrder`).
Of the obligations it proves `FirstDateAhead` for every frequency and a calendar of
any length.  The proof numbers the days of the calendar as `OnSchedule` does
(`DaysAreCounted`, `InOrderOfNumbers`), shows that one period on is the next date of the
schedule (`PeriodMovesOn`) and that the walk of `advanceDueDate` exists and ends at the
first date ahead (`WalkExists`, `WalkEnds`).  The invariant is `OnAnchor`: a due date is on
the schedule of the date somebody set last, whatever was attested to since.  It is
about days that every month has (`Steady`); the days from the 29th on are the third
limit noted under "Findings".

*`Reviews_proofs`* proves `VerifiedByAuditor`, `RejectedNotApplied`,
`RecordIsWhatWasApplied` and `PromotedOnce` of suggested statuses and evidence, whose
invariants relate the row as it was read to the row as it is: unless something has
meddled, they are the same.  Of a campaign of access reviews it proves
`ReviewIsEvidenced`, for a finite set of subjects: only administrators decide about
themselves (`Separate`), a completion has counted and listed what is on record unless a
decision was revised meanwhile (`CompletionSound`), and so has the evidence of a completed
campaign (`EvidenceSound`).  Of a questionnaire it proves
`MailedLinkWorks` and `SubmissionStands`, from `TokensAgree`, that no mail in flight has
another token than the row unless sends overlapped, and `NothingBehind`, that no answer
of the vendor's is in flight when a submission stands.

*`CountLemmas`* has what the others need of natural numbers.  The prover cannot
instantiate the library's induction theorems; where an argument goes along the
attempts, the months or the rest of a calendar, the proof takes a least
counterexample (`LeastNumber`, from `WFMin`) and shows that there is a smaller one.

*Only model-checked:* liveness (`EveryTransactionEnds`, `ProcessingEnds`,
`ReportsAreRun`), because fairness and `ENABLED` are out of the prover's reach.

## 6. Assumptions and what is left out

- Compliance claims carry the justification the gate requires; `minSimilarity` of
  inherit is the organization's threshold.
- Users are no administrators: the override of separation of duties is left out.
- Audit transactions begin in distinct microseconds, write one record each, and
  none in flight is older than the 90 days below which retention cannot be set.
  Hashes do not collide.  Rows from before migration 155 and legal holds are left
  out, and the verification reads one committed state rather than batches.
- The control-answers import (`routes/organizations.js:2430`) writes a batch of
  statuses in one transaction and is not modelled.  People raise no item whose
  source is a gap by hand.
- Timeline, milestones, links, notes, notifications and wording are data.
- Orphaned credits after a failure of `recordCredits` (the catch block in
  `routes/controls.js:333`) are visible in the model with `Faults` and are why
  `CreditsAreTraced` is checked and proved without failures.

- `JobQueue` leaves out what jobs do; the retention purge, the cleanup, the
  collection and the report job are in their own modules.
- `ReportSweep` is checked and proved for sweeps of less than an hour.
- `EvidenceCollection` leaves out the deletion of a rule, and takes the evidence of
  one run as one row.  `EvidenceRecords` has one piece of evidence; that a file of a
  superseded version, or of an upload whose record was not found, stays on disk for
  ever is visible in it and in no property.
- `PlatformApprovals` has one organization and one flag.  Stripe cancels, or refuses
  and leaves the subscription alone; repeating a cancellation is refused.
- `IncidentResponse` takes a time to be the number of the transaction: no two begin in
  the same microsecond.
- `Obligations` takes the server's clock to be UTC: with another time zone a `DATE` is
  read as local midnight and written in UTC, which may move it by a day.  The walk
  over missed periods is bounded by the calendar, not by the 500 steps of the code.
- `Indicators` takes values as they are stored; that `numeric(18,4)` rounds a value
  after it was classified is left out.
- `Questionnaire` leaves out uploads, and the token's expiry, which the code has not.

## 7. Plan

Done: the components of section 1 that name a module.  What would come next:

1. `Rmf`: packages with a unique system per organization, steps and authorization
   decisions; a decision `dato` is stored as authorized (`routes/rmf.js:519`)
   while the frontend calls it a denial.
2. `Policies`: the read-and-write-back of PATCH (`routes/policies.js:338`) against
   review and publication.
3. `Sessions`: limit, rotation of refresh tokens, logout.
4. A verification of the audit trail that runs in batches against a purge, and legal
   holds on it.
5. Composition of the gate and the crosswalk: `Gate` of `CrosswalkCredits` as
   `GateRead`/`GateWrite` of `PoamWorkflow`, and `ClaimsAreFiled` under failures.
6. Proofs: `HumanWorkStands` and the refinement with the gate composed in;
   `ReportSweep` with slow sweeps, where a mail is bounded by the claims; and what
   `CrosswalkCredits` keeps when statements fail.
