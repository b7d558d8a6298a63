----------------------------- MODULE ReportSweep -----------------------------
(***************************************************************************)
(* The scheduled reports: the sweeps that every server process runs on a   *)
(* timer and when it starts, and the scheduled_report_run job that people  *)
(* ask for (POST /reports/scheduled/:id/run, worked off by a processing    *)
(* request).                                                               *)
(*                                                                         *)
(* A sweep claims the due reports in one statement (FOR UPDATE SKIP        *)
(* LOCKED), which puts next_run_at an hour ahead, and then generates,      *)
(* mails and reschedules one after the other; the job does the same to one *)
(* report without claiming it.  Time is next_run_at: a claim's hour and a  *)
(* schedule's period pass in steps of their own.  Files, recipients and    *)
(* formats are left out.                                                   *)
(***************************************************************************)
EXTENDS Naturals, FiniteSets

CONSTANTS
  Report,      \* active scheduled reports
  Server,      \* server processes, each with its sweep
  Slow,        \* TRUE: a sweep may take longer than the hour of its claim
  MaxFailures, \* bound: servers that die, and statements that fail, in a run
  MaxJobRuns,  \* bound: runs that people ask for
  NoReport

ASSUME ReportParameters ==
  MaxFailures \in Nat /\ MaxJobRuns \in Nat /\ NoReport \notin Report

VARIABLES
  nextRun,  \* [Report -> next_run_at: past, a claim's hour, or a period ahead]
  sweep,    \* [Server -> the sweep in progress]
  jobRun,   \* the scheduled_report_run job in progress, if any
  mailed,   \* history: [Report -> mails sent by sweeps since it came due]
  failures, \* servers that have died and statements that have failed
  jobRuns   \* runs people have asked for

reportVars == <<nextRun, sweep, jobRun, mailed, failures, jobRuns>>

\* phase: "run" before the next report is sent, "sent" before it is rescheduled;
\* claimed: the rows in hand.
NoSweep == [phase |-> "idle", claimed |-> {}, current |-> NoReport]

NoJobRun == [phase |-> "idle", current |-> NoReport]

ReportsInit ==
  /\ nextRun = [r \in Report |-> "due"]
  /\ sweep = [s \in Server |-> NoSweep]
  /\ jobRun = NoJobRun
  /\ mailed = [r \in Report |-> 0]
  /\ failures = 0
  /\ jobRuns = 0

Due == {r \in Report : nextRun[r] = "due"}

InSweep(r) == {s \in Server : r \in sweep[s].claimed}
InRun(r) == InSweep(r) # {} \/ jobRun.current = r
-----------------------------------------------------------------------------
\* Mutant of Claim: the placeholder is left out, as in the claim of the evidence
\* collection rules.
ClaimInPlace(s) ==
  /\ sweep[s].phase = "idle"
  /\ Due # {}
  /\ sweep' = [sweep EXCEPT ![s] = [NoSweep EXCEPT !.phase = "run", !.claimed = Due]]
  /\ UNCHANGED <<nextRun, jobRun, mailed, failures, jobRuns>>

\* isSweeping keeps a server's sweeps apart; the claim is one statement.
Claim(s) ==
  /\ sweep[s].phase = "idle"
  /\ Due # {}
  /\ sweep' = [sweep EXCEPT ![s] = [NoSweep EXCEPT !.phase = "run", !.claimed = Due]]
  /\ nextRun' = [r \in Report |-> IF r \in Due THEN "claimed" ELSE nextRun[r]]
  /\ UNCHANGED <<jobRun, mailed, failures, jobRuns>>

\* generateReportFile and sendReportEmail; an error of theirs is noted and the
\* report is rescheduled all the same.
Send(s) ==
  /\ sweep[s].phase = "run"
  /\ \E r \in sweep[s].claimed, sent \in {0, 1} :
       /\ sweep' = [sweep EXCEPT ![s].phase = "sent", ![s].current = r]
       /\ mailed' = [mailed EXCEPT ![r] = @ + sent]
  /\ UNCHANGED <<nextRun, jobRun, failures, jobRuns>>

\* The loop goes on to the next row, or the sweep ends.
Leave(s) ==
  LET rest == sweep[s].claimed \ {sweep[s].current} IN
  sweep' = [sweep EXCEPT ![s] =
    IF rest = {} THEN NoSweep ELSE [NoSweep EXCEPT !.phase = "run", !.claimed = rest]]

\* Mutant of Reschedule: a report keeps the placeholder.
RescheduleInAnHour(s) ==
  /\ sweep[s].phase = "sent"
  /\ Leave(s)
  /\ UNCHANGED <<nextRun, jobRun, mailed, failures, jobRuns>>

Reschedule(s) ==
  /\ sweep[s].phase = "sent"
  /\ nextRun' = [nextRun EXCEPT ![sweep[s].current] = "scheduled"]
  /\ Leave(s)
  /\ UNCHANGED <<jobRun, mailed, failures, jobRuns>>

\* The UPDATE throws: the report keeps its placeholder, and the sweep goes on.
RescheduleFails(s) ==
  /\ sweep[s].phase = "sent"
  /\ failures < MaxFailures
  /\ failures' = failures + 1
  /\ Leave(s)
  /\ UNCHANGED <<nextRun, jobRun, mailed, jobRuns>>

\* The server dies and starts again: its sweep and its isSweeping are gone.
ServerCrash(s) ==
  /\ sweep[s].phase # "idle"
  /\ failures < MaxFailures
  /\ failures' = failures + 1
  /\ sweep' = [sweep EXCEPT ![s] = NoSweep]
  /\ UNCHANGED <<nextRun, jobRun, mailed, jobRuns>>

\* The job, on whichever server: mails and reschedules by id.
JobStart(r) ==
  /\ jobRun.phase = "idle" /\ jobRuns < MaxJobRuns
  /\ jobRun' = [phase |-> "run", current |-> r]
  /\ jobRuns' = jobRuns + 1
  /\ UNCHANGED <<nextRun, sweep, mailed, failures>>

JobReschedule ==
  /\ jobRun.phase = "run"
  /\ nextRun' = [nextRun EXCEPT ![jobRun.current] = "scheduled"]
  /\ jobRun' = NoJobRun
  /\ UNCHANGED <<sweep, mailed, failures, jobRuns>>

\* The job dies with its server, or its UPDATE throws.
JobDies ==
  /\ jobRun.phase = "run"
  /\ failures < MaxFailures
  /\ failures' = failures + 1
  /\ jobRun' = NoJobRun
  /\ UNCHANGED <<nextRun, sweep, mailed, jobRuns>>

\* The hour of a claim passes: the sweep that made it is over by then, unless it
\* is slow.
HourPasses(r) ==
  /\ nextRun[r] = "claimed"
  /\ Slow \/ InSweep(r) = {}
  /\ nextRun' = [nextRun EXCEPT ![r] = "due"]
  /\ UNCHANGED <<sweep, jobRun, mailed, failures, jobRuns>>

\* A day, a week, a month or a quarter passes; no run takes that long.
PeriodPasses(r) ==
  /\ nextRun[r] = "scheduled"
  /\ ~InRun(r)
  /\ nextRun' = [nextRun EXCEPT ![r] = "due"]
  /\ mailed' = [mailed EXCEPT ![r] = 0]
  /\ UNCHANGED <<sweep, jobRun, failures, jobRuns>>

SweepStep(s) == Claim(s) \/ Send(s) \/ Reschedule(s)

ReportsNext ==
  \/ \E s \in Server : SweepStep(s) \/ RescheduleFails(s) \/ ServerCrash(s)
  \/ \E r \in Report : JobStart(r) \/ HourPasses(r) \/ PeriodPasses(r)
  \/ JobReschedule \/ JobDies

\* The timer starts a sweep again and again, and time passes.
ReportsSpec ==
  /\ ReportsInit /\ [][ReportsNext]_reportVars
  /\ \A s \in Server : WF_reportVars(SweepStep(s))
  /\ \A r \in Report : WF_reportVars(HourPasses(r))
-----------------------------------------------------------------------------
\* Type correctness: a sweep in progress has claimed reports in hand, and the one
\* that was sent is among them.
ReportsTypeOK ==
  /\ nextRun \in [Report -> {"due", "claimed", "scheduled"}]
  /\ DOMAIN sweep = Server
  /\ \A s \in Server :
       /\ sweep[s].claimed \subseteq Report
       /\ sweep[s].phase \in {"idle", "run", "sent"}
       /\ sweep[s].phase = "idle" <=> sweep[s].claimed = {}
       /\ sweep[s].phase = "sent" => sweep[s].current \in sweep[s].claimed
  /\ jobRun.phase = "idle" <=> jobRun.current = NoReport
  /\ mailed \in [Report -> Nat] /\ failures \in Nat /\ jobRuns \in Nat

\* Servers do not send the same report at the same time: what one sweep has
\* claimed no other has.
ClaimedByOne == \A r \in Report : Cardinality(InSweep(r)) <= 1

\* Once a period: a report that came due is mailed by a sweep once, and once more
\* for each failure that kept it from being rescheduled.
MailedOnce == \A r \in Report : mailed[r] <= 1 + failures

\* A report that is due is run and rescheduled, although servers may die, and
\* statements fail, with it in hand.
DueIsRun == \A r \in Report : nextRun[r] # "scheduled" ~> nextRun[r] = "scheduled"
=============================================================================
