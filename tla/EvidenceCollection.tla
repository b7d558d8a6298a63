-------------------------- MODULE EvidenceCollection --------------------------
(***************************************************************************)
(* The rules that collect evidence from outside sources: when they are     *)
(* due, the requests and jobs that run them, and the edits people make to  *)
(* them meanwhile.                                                         *)
(*                                                                         *)
(* A scheduled run (POST /auto-evidence/process-scheduled, and the         *)
(* evidence_auto_collect job) claims the due rules in one statement, which *)
(* marks them running and leaves next_run_at alone, and then collects and  *)
(* reschedules one rule after the other.  POST /auto-evidence/rules/:id/run *)
(* runs one rule; PATCH reads a rule and writes next_run_at in a later     *)
(* statement, computed from what it has read.  Sources, contents, tags and *)
(* links are left out.                                                     *)
(***************************************************************************)
EXTENDS Naturals, FiniteSets

CONSTANTS
  Rule,               \* evidence collection rules of the organization
  Collector,          \* requests and jobs in flight at once
  CollectFaults,      \* TRUE: sources and statements may fail, the server may crash
  MaxCollectFailures, \* bound: failures that keep a run from being written down
  NoRule

ASSUME CollectParameters == MaxCollectFailures \in Nat /\ NoRule \notin Rule

VARIABLES
  rules,           \* evidence_collection_rules
  collecting,      \* [Collector -> the request in flight and its local variables]
  stored,          \* history: [Rule -> evidence stored by scheduled runs since due]
  collectFailures, \* runs that died
  collectOverlap   \* history: two requests have been in flight at the same time

collectVars == <<rules, collecting, stored, collectFailures, collectOverlap>>

\* schedule "timed" is daily, weekly or monthly; next is next_run_at: NULL, past or
\* in the future.
RuleRow == [schedule : {"manual", "timed"}, enabled : BOOLEAN, next : {"none", "due", "later"}]

Timed == [schedule |-> "timed", enabled |-> TRUE, next |-> "later"]

\* kind: which operation; phase: the statement that comes next; rows: the rules in
\* hand; current: the one that was collected last; seen: the rule as it was read;
\* patch: the fields the caller sends.
Patch == [schedule : {"manual", "timed", "same"}, enabled : {"on", "off", "same"}]
Unpatched == [schedule |-> "same", enabled |-> "same"]
NotCollecting ==
  [kind |-> "none", phase |-> "idle", rows |-> {}, current |-> NoRule, seen |-> Timed,
   patch |-> Unpatched]

CollectInit ==
  /\ rules \in [Rule -> {Timed, [Timed EXCEPT !.schedule = "manual", !.next = "none"]}]
  /\ collecting = [c \in Collector |-> NotCollecting]
  /\ stored = [r \in Rule |-> 0]
  /\ collectFailures = 0
  /\ collectOverlap = FALSE

DueRules ==
  {r \in Rule : rules[r].enabled /\ rules[r].schedule = "timed" /\ rules[r].next = "due"}

NextRunAt(schedule) == IF schedule = "manual" THEN "none" ELSE "later"

\* The bookkeeping of a request that begins.
StartCollecting(c, work) ==
  /\ collecting[c].phase = "idle"
  /\ collecting' = [collecting EXCEPT ![c] = work]
  /\ collectOverlap' = (collectOverlap \/ \E d \in Collector : collecting[d].phase # "idle")
  /\ UNCHANGED <<rules, stored, collectFailures>>

StopCollecting(c) == collecting' = [collecting EXCEPT ![c] = NotCollecting]
-----------------------------------------------------------------------------
PatchRead(c, r, patch) ==
  StartCollecting(c, [NotCollecting EXCEPT !.kind = "patch", !.phase = "write",
                        !.rows = {r}, !.seen = rules[r], !.patch = patch])

\* Mutant of PatchedNext: a new schedule keeps the time of the old one.
PatchedNextKept(seen, patch) == IF patch.schedule = "manual" THEN "none" ELSE seen.next

\* next_run_at is computed anew when the schedule changes and when a rule without a
\* time ahead is enabled; otherwise the time that was read is written back.
PatchedNext(seen, patch) ==
  LET schedule == IF patch.schedule = "same" THEN seen.schedule ELSE patch.schedule IN
  IF \/ schedule # seen.schedule
     \/ patch.enabled = "on" /\ ~seen.enabled /\ seen.next # "later"
  THEN NextRunAt(schedule) ELSE seen.next

PatchWrite(c) ==
  LET w == collecting[c] IN
  /\ w.phase = "write"
  /\ \E r \in w.rows :
       rules' = [rules EXCEPT
         ![r] = [schedule |-> IF w.patch.schedule = "same" THEN @.schedule ELSE w.patch.schedule,
                 enabled |-> IF w.patch.enabled = "same" THEN @.enabled ELSE w.patch.enabled = "on",
                 next |-> PatchedNext(w.seen, w.patch)]]
  /\ StopCollecting(c)
  /\ UNCHANGED <<stored, collectFailures, collectOverlap>>

\* POST /auto-evidence/rules/:id/run; last_run_status is left out.
RunNow(c, r) ==
  StartCollecting(c, [NotCollecting EXCEPT !.kind = "now", !.phase = "collect",
                        !.rows = {r}, !.seen = rules[r]])

\* The claim: one UPDATE, of the rows that no other statement has locked.
ClaimRules(c) ==
  /\ DueRules # {}
  /\ StartCollecting(c, [NotCollecting EXCEPT !.kind = "scheduled", !.phase = "collect",
                           !.rows = DueRules])

\* Bound: the history counts no further than to what CollectedOnce rules out.
Capped(n) == IF n > MaxCollectFailures + 2 THEN MaxCollectFailures + 2 ELSE n

\* executeCollectionRule stores evidence, or it throws.
CollectRule(c) ==
  /\ collecting[c].phase = "collect"
  /\ \E r \in collecting[c].rows, ok \in {TRUE, ~CollectFaults} :
       /\ collecting' = [collecting EXCEPT ![c].phase = IF ok THEN "success" ELSE "error",
                                           ![c].current = r]
       /\ stored' = [stored EXCEPT ![r] =
            IF ok /\ collecting[c].kind = "scheduled" THEN Capped(@ + 1) ELSE @]
  /\ UNCHANGED <<rules, collectFailures, collectOverlap>>

\* What a run leaves in next_run_at.
AfterRun(w) ==
  IF w.phase = "error" /\ w.seen.schedule = "manual" THEN w.seen.next
  ELSE NextRunAt(w.seen.schedule)

\* Mutant of FinishRule: only a successful run moves next_run_at.
FinishRuleOnSuccess(c) ==
  LET w == collecting[c]
      rest == w.rows \ {w.current} IN
  /\ w.phase \in {"success", "error"}
  /\ rules' = [rules EXCEPT ![w.current].next =
       IF w.phase = "success" /\ w.kind = "now" THEN AfterRun(w) ELSE @]
  /\ collecting' = [collecting EXCEPT ![c] =
       IF rest = {} THEN NotCollecting
       ELSE [w EXCEPT !.phase = "collect", !.rows = rest, !.current = NoRule]]
  /\ UNCHANGED <<stored, collectFailures, collectOverlap>>

\* The run is written down by id, and the loop goes on to the next rule.
FinishRule(c) ==
  LET w == collecting[c]
      rest == w.rows \ {w.current} IN
  /\ w.phase \in {"success", "error"}
  /\ rules' = [rules EXCEPT ![w.current].next = AfterRun(w)]
  /\ collecting' = [collecting EXCEPT ![c] =
       IF rest = {} THEN NotCollecting
       ELSE [w EXCEPT !.phase = "collect", !.rows = rest, !.current = NoRule]]
  /\ UNCHANGED <<stored, collectFailures, collectOverlap>>

\* The server dies, or the UPDATE of the catch block throws.
CollectorDies(c) ==
  /\ CollectFaults /\ collectFailures < MaxCollectFailures
  /\ collecting[c].phase # "idle"
  /\ collectFailures' = collectFailures + 1
  /\ StopCollecting(c)
  /\ UNCHANGED <<rules, stored, collectOverlap>>

\* next_run_at passes, for those who have read it too.
RuleComesDue(r) ==
  /\ rules[r].next = "later"
  /\ rules' = [rules EXCEPT ![r].next = "due"]
  /\ collecting' = [c \in Collector |->
       IF r \in collecting[c].rows /\ collecting[c].seen.next = "later"
          /\ collecting[c].kind # "scheduled"
       THEN [collecting[c] EXCEPT !.seen.next = "due"] ELSE collecting[c]]
  /\ stored' = [stored EXCEPT ![r] = 0]
  /\ UNCHANGED <<collectFailures, collectOverlap>>

CollectNext ==
  \/ \E r \in Rule : RuleComesDue(r)
  \/ \E c \in Collector :
       \/ \E r \in Rule : RunNow(c, r) \/ \E patch \in Patch : PatchRead(c, r, patch)
       \/ ClaimRules(c) \/ PatchWrite(c) \/ CollectRule(c) \/ FinishRule(c)
       \/ CollectorDies(c)

CollectSpec == CollectInit /\ [][CollectNext]_collectVars
-----------------------------------------------------------------------------
\* Type correctness: rules have a schedule, a switch and a time, and a request in
\* flight has rules in hand and only then.
CollectTypeOK ==
  /\ rules \in [Rule -> RuleRow]
  /\ DOMAIN collecting = Collector
  /\ \A c \in Collector :
       LET w == collecting[c] IN
       /\ w.phase \in {"idle", "write", "collect", "success", "error"}
       /\ w.rows \subseteq Rule /\ w.seen \in RuleRow /\ w.patch \in Patch
       /\ w.phase = "idle" <=> w.rows = {}
       /\ w.phase \in {"success", "error"} => w.current \in w.rows
  /\ stored \in [Rule -> Nat] /\ collectFailures \in Nat /\ collectOverlap \in BOOLEAN

\* A rule with a schedule has a time to run at: as long as requests do not overlap,
\* no edit, run or failure leaves it without one, to be never due again.
ScheduledHasNext ==
  ~collectOverlap => \A r \in Rule : rules[r].schedule = "timed" => rules[r].next # "none"

\* Once a period: as long as requests do not overlap, scheduled runs store the
\* evidence of a rule that came due once, and once more for each run that died.
CollectedOnce ==
  ~collectOverlap => \A r \in Rule : stored[r] <= 1 + collectFailures

\* Concurrent workers do not process the same rule: what one scheduled run has in
\* hand no other has.
RuleInOneRun ==
  \A r \in Rule :
    Cardinality({c \in Collector : collecting[c].kind = "scheduled" /\ r \in collecting[c].rows}) <= 1
=============================================================================
