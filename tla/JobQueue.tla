------------------------------ MODULE JobQueue ------------------------------
(***************************************************************************)
(* One organization's background jobs: the rows of platform_jobs, and the  *)
(* requests that process them (POST /ops/jobs/process, the only caller of  *)
(* processPendingJobs).                                                    *)
(*                                                                         *)
(* A processing request reads the queued rows once and then works through  *)
(* them in the order of created_at, with a statement of its own for each   *)
(* change of status: rows are not claimed, so that two requests may have   *)
(* the same row in hand.  What a job does is left out but for whether it   *)
(* returns or throws.  Payloads, results and times are left out; a row's   *)
(* run_after is either in the future or due.                               *)
(***************************************************************************)
EXTENDS Naturals, FiniteSetsExt, Sequences

CONSTANTS
  Processor,       \* processing requests in flight at once
  BatchLimit,      \* the largest limit that a request asks for
  MaxAttempts,     \* platform_jobs.max_attempts
  JobFaults,       \* TRUE: a job may throw and the server may crash
  MaxJobs,         \* bound: jobs ever enqueued
  MaxProcessings   \* bound: processing requests ever made

ASSUME JobParameters ==
  /\ BatchLimit \in Nat \ {0} /\ MaxAttempts \in Nat \ {0}
  /\ MaxJobs \in Nat /\ MaxProcessings \in Nat

VARIABLES
  jobs,         \* platform_jobs, in the order of created_at
  processing,   \* [Processor -> the request in flight and its local variables]
  processings,  \* how many processing requests have been made
  jobsOverlap   \* history: two requests have been in flight at the same time

jobVars == <<jobs, processing, processings, jobsOverlap>>

Job == [status : {"queued", "running", "completed", "failed"}, due : BOOLEAN,
        attempts : Nat]

\* phase: the statement that comes next for the first row in hand; rows: the
\* attempts, as they were read, of the rows in hand.
NotProcessing == [phase |-> "idle", rows |-> <<>>]

JobsInit ==
  /\ jobs = <<>>
  /\ processing = [p \in Processor |-> NotProcessing]
  /\ processings = 0
  /\ jobsOverlap = FALSE

Ready == {i \in DOMAIN jobs : jobs[i].status = "queued" /\ jobs[i].due}

\* ORDER BY created_at LIMIT n
Batch(limit) == {i \in Ready : Cardinality({k \in Ready : k < i}) < limit}

InHand(p) == DOMAIN processing[p].rows
Current(p) == Min(InHand(p))

Proceed(p, phase) == processing' = [processing EXCEPT ![p].phase = phase]

\* The loop goes on to the next row of the batch, or the request ends.
NextJob(p) ==
  LET rest == InHand(p) \ {Current(p)} IN
  processing' = [processing EXCEPT ![p] =
    IF rest = {} THEN NotProcessing
    ELSE [phase |-> "start", rows |-> [i \in rest |-> processing[p].rows[i]]]]

StopProcessing(p) == processing' = [processing EXCEPT ![p] = NotProcessing]
-----------------------------------------------------------------------------
\* enqueueJob: an INSERT.
EnqueueJob(due) ==
  /\ Len(jobs) < MaxJobs
  /\ jobs' = Append(jobs, [status |-> "queued", due |-> due, attempts |-> 0])
  /\ UNCHANGED <<processing, processings, jobsOverlap>>

\* run_after passes.
JobComesDue(i) ==
  /\ jobs[i].status = "queued" /\ ~jobs[i].due
  /\ jobs' = [jobs EXCEPT ![i].due = TRUE]
  /\ UNCHANGED <<processing, processings, jobsOverlap>>

\* Mutant of ReadQueue: a request goes on although no row is ready.
ReadQueueEmpty(p, limit) ==
  /\ processing[p].phase = "idle" /\ processings < MaxProcessings
  /\ processing' = [processing EXCEPT ![p] =
       [phase |-> "start", rows |-> [i \in Batch(limit) |-> jobs[i].attempts]]]
  /\ processings' = processings + 1
  /\ jobsOverlap' = (jobsOverlap \/ \E q \in Processor : processing[q].phase # "idle")
  /\ UNCHANGED jobs

\* The SELECT of processPendingJobs; nothing is left to do without rows.
ReadQueue(p, limit) ==
  /\ processing[p].phase = "idle" /\ processings < MaxProcessings
  /\ Ready # {}
  /\ processing' = [processing EXCEPT ![p] =
       [phase |-> "start", rows |-> [i \in Batch(limit) |-> jobs[i].attempts]]]
  /\ processings' = processings + 1
  /\ jobsOverlap' = (jobsOverlap \/ \E q \in Processor : processing[q].phase # "idle")
  /\ UNCHANGED jobs

\* By id alone, whatever has become of the row since it was read.
StartJob(p) ==
  /\ processing[p].phase = "start"
  /\ jobs' = [jobs EXCEPT ![Current(p)].status = "running",
                          ![Current(p)].attempts = @ + 1]
  /\ Proceed(p, "run")
  /\ UNCHANGED <<processings, jobsOverlap>>

\* runJob returns, or it throws.
RunJob(p) ==
  /\ processing[p].phase = "run"
  /\ \E next \in {"complete"} \cup (IF JobFaults THEN {"fail"} ELSE {}) : Proceed(p, next)
  /\ UNCHANGED <<jobs, processings, jobsOverlap>>

\* Mutant of CompleteJob: the loop stays at the row.
CompleteJobStay(p) ==
  /\ processing[p].phase = "complete"
  /\ jobs' = [jobs EXCEPT ![Current(p)].status = "completed"]
  /\ UNCHANGED <<processing, processings, jobsOverlap>>

CompleteJob(p) ==
  /\ processing[p].phase = "complete"
  /\ jobs' = [jobs EXCEPT ![Current(p)].status = "completed"]
  /\ NextJob(p)
  /\ UNCHANGED <<processings, jobsOverlap>>

\* Mutant of AfterFailure: one attempt too many.
AfterFailureLate(seen) == IF seen >= MaxAttempts THEN "failed" ELSE "queued"

\* seen: the attempts as they were when the row was read.
AfterFailure(seen) == IF seen + 1 >= MaxAttempts THEN "failed" ELSE "queued"

\* The UPDATE of the catch block.  It sets a VARCHAR to the parameter that it also
\* compares with text, which PostgreSQL refuses (FailureRefused); where the
\* parameter has a declared type, it is written.
RecordFailure(p) ==
  LET i == Current(p)
      next == AfterFailure(processing[p].rows[i]) IN
  /\ processing[p].phase = "fail"
  /\ jobs' = [jobs EXCEPT ![i].status = next,
                          ![i].due = IF next = "queued" THEN FALSE ELSE @]
  /\ NextJob(p)
  /\ UNCHANGED <<processings, jobsOverlap>>

\* The exception leaves the loop: the row stays running and the rest of the batch
\* is not taken up.
FailureRefused(p) ==
  /\ processing[p].phase = "fail"
  /\ StopProcessing(p)
  /\ UNCHANGED <<jobs, processings, jobsOverlap>>

\* The server dies, or a statement outside the try block fails.
ProcessorDies(p) ==
  /\ JobFaults
  /\ processing[p].phase # "idle"
  /\ StopProcessing(p)
  /\ UNCHANGED <<jobs, processings, jobsOverlap>>

ProcessorStep(p) ==
  StartJob(p) \/ RunJob(p) \/ CompleteJob(p) \/ RecordFailure(p) \/ FailureRefused(p)

JobsNext ==
  \/ \E due \in BOOLEAN : EnqueueJob(due)
  \/ \E i \in DOMAIN jobs : JobComesDue(i)
  \/ \E p \in Processor, limit \in 1 .. BatchLimit : ReadQueue(p, limit)
  \/ \E p \in Processor : ProcessorStep(p) \/ ProcessorDies(p)

JobsSpec ==
  /\ JobsInit /\ [][JobsNext]_jobVars
  /\ \A p \in Processor : WF_jobVars(ProcessorStep(p))
-----------------------------------------------------------------------------
\* Type correctness: the queue holds jobs, and a request in flight has existing
\* rows in hand and only then.
JobsTypeOK ==
  /\ jobs \in Seq(Job)
  /\ DOMAIN processing = Processor
  /\ \A p \in Processor :
       /\ processing[p].phase \in {"idle", "start", "run", "complete", "fail"}
       /\ processing[p].phase = "idle" <=> InHand(p) = {}
       /\ InHand(p) \subseteq DOMAIN jobs
  /\ processings \in Nat /\ jobsOverlap \in BOOLEAN

\* Retries end: as long as requests do not overlap, a job is not started more
\* often than max_attempts says, whatever throws or dies.
RetriesEnd ==
  ~jobsOverlap => \A i \in DOMAIN jobs : jobs[i].attempts <= MaxAttempts

\* Every processing request ends, whatever its jobs do and whatever other requests
\* do to the same rows.
ProcessingEnds ==
  \A p \in Processor : processing[p].phase # "idle" ~> processing[p].phase = "idle"
=============================================================================
