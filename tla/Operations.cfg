\* The audit trail, the jobs and the reports, one at a time: three connections, two
\* processing requests and two servers, any of which may fail.  Where a system
\* stops, a bound has been reached.
CONSTANTS
  Writer = {w1, w2, w3}
  Faults = TRUE
  MaxTransactions = 5
  Processor = {p1, p2}
  BatchLimit = 2
  MaxAttempts = 2
  JobFaults = TRUE
  MaxJobs = 2
  MaxProcessings = 3
  Report = {daily, weekly}
  Server = {s1, s2}
  Slow = FALSE
  MaxFailures = 2
  MaxJobRuns = 1
  NoReport = NoReport
SPECIFICATION OperationsSpec
CHECK_DEADLOCK FALSE
INVARIANTS
  IntactVerifies
  OneGenesis
  OperationsTypeOK
  RetriesEnd
  MailedOnce
PROPERTIES
  EveryTransactionEnds
  ProcessingEnds
  ReportsAreRun
