\* The registers, one at a time: requests of two people overlap and may fail half-way.
\* Where a system stops, a bound has been reached.
CONSTANTS
  None = None
  User = {ann, bob}
  Control = {ctl}
  Overlap = TRUE
  Faults = TRUE
  MaxItems = 2
  MaxRequests = 3
  Owner = {ann, bob}
  Tenant = tenant
  Approval = {row1, row2}
  MaxApprovalFaults = 2
  Nobody = Nobody
  NoApproval = NoApproval
  Suggestion = {row1, row2}
  SuggestedStatus = {"verified", "implemented"}
  StatusReviewer = {aud, rev}
  Auditor = {aud}
  NoSuggestion = NoSuggestion
  PendingItem = {row1, row2}
  EvidenceReviewer = {ann, bob}
  MaxReviewFaults = 2
  NoItem = NoItem
  Editor = {ann, bob}
  Sweeper = {sweeper}
  Deleter = {deleter}
  MaxVersions = 3
  MaxFiles = 3
  MaxEvidenceFaults = 1
  NoEditor = NoEditor
  Rule = {rule}
  Collector = {ann, bob}
  CollectFaults = TRUE
  MaxCollectFailures = 1
  NoRule = NoRule
  Flusher = {ann, bob}
  FlushLimit = 2
  FlushFaults = TRUE
  MaxDeliveries = 2
  MaxFlushes = 3
  Responder = {ann, bob}
  MaxChanges = 6
  NoChange = NoChange
  Value = {1, 2, 3}
  Time = {1, 2}
  NoValue = NoValue
  Frequency = {"weekly", "monthly", "annual"}
  DueMonths = {0, 1}
  DueDays = {15, 31}
  EventMonths = {0, 2, 13}
  EventDays = {15}
  LastMonth = 39
  NoDate = NoDate
  Subject = {aud, rev}
  AccessReviewer = {aud, rev}
  Administrator = {aud}
  Completer = {ann, bob}
  MaxDecisions = 3
  NoSubject = NoSubject
  Staff = {ann, bob}
  VendorTab = {tab1, tab2}
  MaxTokens = 2
  MaxSaves = 3
  NoToken = NoToken
SPECIFICATION RegistersSpec
CHECK_DEADLOCK FALSE
SYMMETRY Symmetry
INVARIANTS
  AwaitingHasRequest
  SerialRoundsAreFiled
  SerialSeparation
  RegistersTypeOK
  ApprovedByAnother
  LiveIsKnown
  VerifiedByAuditor
  RejectedNotApplied
  RecordIsWhatWasApplied
  PromotedOnce
  HistoryComplete
  FilesKept
  RemovedFileIsGone
  ScheduledHasNext
  CollectedOnce
  AttemptsAccount
  AcknowledgedOnce
  PhasesInOrder
  LatestIsNewest
  WorseIsNotMilder
  ReviewIsEvidenced
  MailedLinkWorks
  SubmissionStands
PROPERTIES
  DecidesOnce
  KeptWhileProtected
  FirstDateAhead
