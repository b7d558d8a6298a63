---------------------------- MODULE MCOperations ----------------------------
(***************************************************************************)
(* Instances for TLC of what has to come to an end: transactions on the    *)
(* audit trail, requests that process jobs, and reports that are due.      *)
(*                                                                         *)
(* The components share no variable.  A behaviour is one of one component, *)
(* part, while the others rest, so that a run covers the sum of their      *)
(* state spaces and not the product.                                       *)
(***************************************************************************)
EXTENDS AuditChain, JobQueue, ReportSweep

VARIABLE part

allVars == <<vars, jobVars, reportVars, part>>

Rest(others) == UNCHANGED <<others, part>>

OperationsInit ==
  /\ part \in {"audit", "jobs", "reports"}
  /\ Init /\ JobsInit /\ ReportsInit

OperationsNext ==
  \/ part = "audit" /\ Next /\ Rest(<<jobVars, reportVars>>)
  \/ part = "jobs" /\ JobsNext /\ Rest(<<vars, reportVars>>)
  \/ part = "reports" /\ ReportsNext /\ Rest(<<vars, jobVars>>)

\* The fairness of each component, for the behaviours that are its own.
OperationsSpec ==
  /\ OperationsInit /\ [][OperationsNext]_allVars
  /\ \A w \in Writer : SF_vars(part = "audit" /\ DatabaseStep(w))
  /\ \A p \in Processor : WF_jobVars(part = "jobs" /\ ProcessorStep(p))
  /\ \A s \in Server : WF_reportVars(part = "reports" /\ SweepStep(s))
  /\ \A r \in Report : WF_reportVars(part = "reports" /\ HourPasses(r))
-----------------------------------------------------------------------------
\* Type correctness of the trail, the queue and the sweeps: what is in hand exists, and is in
\* the hand of something in flight.
OperationsTypeOK == TypeOK /\ JobsTypeOK /\ ReportsTypeOK

\* DueIsRun, in the behaviours of reports: what is due is run and rescheduled
\* although servers may die, and statements fail, with it in hand.
ReportsAreRun == part = "reports" => DueIsRun
=============================================================================
