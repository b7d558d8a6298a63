-------------------------- MODULE CrosswalkCredits --------------------------
(***************************************************************************)
(* One organization's control statuses, the crosswalk credit ledger, and   *)
(* the requests that work on both at once.                                 *)
(*                                                                         *)
(* Every SQL statement is atomic and autocommitted, except those of a      *)
(* withdrawal, which run in one READ COMMITTED transaction: its effects    *)
(* are kept in the request's own record until Commit, and the rows it has  *)
(* rewritten stay locked until then.  Between two statements of a request  *)
(* the event loop may run statements of any other request.                 *)
(*                                                                         *)
(* A request that is turned away (400, 403, 404) changes nothing and is    *)
(* left out; compliance claims are taken to carry their justification.     *)
(* Evidence links, notes, notifications and audit rows are left out.       *)
(***************************************************************************)
EXTENDS ControlStatus, Sequences, SequencesExt

CONSTANTS
  Control,    \* controls of the framework catalog
  Mapped,     \* [Control -> SUBSET Control]: strict mappings above the org's
              \* threshold whose far end is in an activated framework
  Handler,    \* requests the server works on at the same time
  Endpoints,  \* which operations clients use
  Asked,      \* which statuses clients ask for
  Exclusive,  \* TRUE: clients never have two requests on one control in flight
  Faults      \* TRUE: statements may fail and the server may crash

MappedType == Mapped \in [Control -> SUBSET Control]
NoSelfMapping == \A c \in Control : c \notin Mapped[c]
AskedType == Asked \subseteq Status
NoneIsNoControl == None \notin Control

ASSUME Parameters == MappedType /\ NoSelfMapping /\ AskedType /\ NoneIsNoControl

VARIABLES
  status,   \* [Control -> Status or None]: control_implementations.status
  credits,  \* [Control -> ledger rows of that target, oldest created_at first]
  work,     \* [Handler -> the request in flight and its local variables]
  asked,    \* history: the status a person last asked for, or None
  by,       \* history: what wrote the status last
  filed     \* history: controls with an approval request on file since they
            \* last were not compliant

vars == <<status, credits, work, asked, by, filed>>

Row == [source : Control, previous : Status]

Phase == {"idle", "write", "gate", "credit", "inherit", "overwrite",
          "record", "withdraw", "check", "restore", "direct"}

NoneKept == [c \in Control |-> None]

Idle == [phase |-> "idle", kind |-> None, control |-> None, to |-> None,
         seen |-> None, todo |-> {}, kept |-> NoneKept, target |-> None,
         restored |-> {}]

\* phase: the statement that comes next; seen: the status read last; todo:
\* targets the loop has left; kept: per target, the previous status of the
\* credit applied or withdrawn; target: the target in hand; restored: rows the
\* open transaction has rewritten.
Work == [phase : Phase,
         kind : {"put", "patch", "inherit", "inherit_all", "finding", "work_item", None},
         control : Control \cup {None}, to : Status \cup {None},
         seen : Status \cup {None}, todo : SUBSET Control,
         kept : [Control -> Status \cup {None}],
         target : Control \cup {None}, restored : SUBSET Control]

Init ==
  /\ status = [c \in Control |-> None]
  /\ credits = [c \in Control |-> <<>>]
  /\ work = [h \in Handler |-> Idle]
  /\ asked = [c \in Control |-> None]
  /\ by = [c \in Control |-> "nobody"]
  /\ filed = {}
----------------------------------------------------------------------------
(***************************************************************************)
(* Rows, locks and what a statement sees                                   *)
(***************************************************************************)

\* No other open transaction has rewritten the row of control c.
Unlocked(h, c) == \A g \in Handler \ {h} : c \notin work[g].restored
FreeOfLocks(c) == \A g \in Handler : c \notin work[g].restored

InTransaction(h) == work[h].phase \in {"check", "restore"}

\* No other open transaction has deleted the ledger row (target t, source s).
RowUnlocked(h, t, s) ==
  \A g \in Handler \ {h} :
    ~(InTransaction(g) /\ work[g].control = s /\ work[g].kept[t] # None)

\* Statements of h's transaction see its own rewrites and what is committed.
View(h, c) == IF c \in work[h].restored THEN work[h].kept[c] ELSE status[c]

\* The positions of source s's rows: at most one, by the unique constraint.
RowsOf(rows, s) == {i \in DOMAIN rows : rows[i].source = s}
RowOf(rows, s) == CHOOSE i \in RowsOf(rows, s) : TRUE

Without(rows, s) ==
  IF RowsOf(rows, s) = {} THEN rows ELSE RemoveAt(rows, RowOf(rows, s))

\* The status a person asked for is written: by a gated endpoint or directly.
SetByPerson(c, s, way) ==
  /\ status' = [status EXCEPT ![c] = s]
  /\ asked' = [asked EXCEPT ![c] = s]
  /\ by' = [by EXCEPT ![c] = way]
  /\ filed' = IF s \in Compliant THEN filed ELSE filed \ {c}

Finish(h) == work' = [work EXCEPT ![h] = Idle]

\* Under Exclusive, clients wait for the answer before they edit a control again.
MayStart(h, c) ==
  /\ work[h].phase = "idle"
  /\ Exclusive => \A g \in Handler : work[g].control # c
----------------------------------------------------------------------------
(***************************************************************************)
(* PUT /controls/:id/implementation and PATCH /implementations/:id/status  *)
(***************************************************************************)

Begin(h, kind, c, s) ==
  work' = [work EXCEPT ![h] = [Idle EXCEPT !.phase = "write", !.kind = kind,
                                           !.control = c, !.to = s,
                                           !.seen = Had(status[c])]]

\* The status is read before it is overwritten, by separate statements.
PutBegin(h, c, s) ==
  /\ "put" \in Endpoints
  /\ MayStart(h, c)
  /\ Begin(h, "put", c, s)
  /\ UNCHANGED <<status, credits, asked, by, filed>>

\* PATCH needs the row to exist and refuses to move backward.
PatchBegin(h, c, s) ==
  /\ "patch" \in Endpoints
  /\ MayStart(h, c)
  /\ status[c] # None
  /\ ~IsBackward(status[c], s)
  /\ Begin(h, "patch", c, s)
  /\ UNCHANGED <<status, credits, asked, by, filed>>

\* Mutant of Continue: a source that was verified is not seen to lapse.
ContinueForgettingVerified(h) ==
  LET w == work[h] IN
  IF w.kind = "put" /\ w.to = "implemented"
  THEN work' = [work EXCEPT ![h].phase = "credit",
                            ![h].todo = Mapped[w.control]]
  ELSE IF w.seen = "implemented" /\ w.to \notin Crediting
  THEN work' = [work EXCEPT ![h].phase = "withdraw"]
  ELSE Finish(h)

\* What follows the status write and the gate.  Only PUT credits mapped
\* controls; a source that had been crediting and no longer is withdraws.
Continue(h) ==
  LET w == work[h] IN
  IF w.kind = "put" /\ w.to = "implemented"
  THEN work' = [work EXCEPT ![h].phase = "credit",
                            ![h].todo = Mapped[w.control]]
  ELSE IF w.seen \in Crediting /\ w.to \notin Crediting
  THEN work' = [work EXCEPT ![h].phase = "withdraw"]
  ELSE Finish(h)

Write(h) ==
  LET w == work[h] IN
  /\ w.phase = "write"
  /\ Unlocked(h, w.control)
  /\ SetByPerson(w.control, w.to, "gated")
  /\ IF IsComplianceTransition(w.seen, w.to)
     THEN work' = [work EXCEPT ![h].phase = "gate"]
     ELSE Continue(h)
  /\ UNCHANGED credits

\* The POA&M and its approval request, in a transaction of their own.
Gate(h) ==
  /\ work[h].phase = "gate"
  /\ filed' = filed \cup {work[h].control}
  /\ Continue(h)
  /\ UNCHANGED <<status, credits, asked, by>>
----------------------------------------------------------------------------
(***************************************************************************)
(* Crediting: the loop of PUT, and recordCredits                           *)
(***************************************************************************)

\* Mutant of Credited: anything short of implemented is overwritten.
CreditedEagerly(s) == IF s \in Crediting THEN s ELSE Swc

Credited(s) == IF s \in {None, "not_started"} THEN Swc ELSE s

\* One statement reads the target's prior status and rewrites it.  A target
\* that was satisfied through another source already is credited again.
CreditTarget(h, t) ==
  /\ work[h].phase = "credit"
  /\ t \in work[h].todo
  /\ Unlocked(h, t)
  /\ status' = [status EXCEPT ![t] = Credited(@)]
  /\ by' = [by EXCEPT ![t] = IF Credited(status[t]) = status[t]
                             THEN @ ELSE "credit"]
  /\ work' = [work EXCEPT
       ![h].todo = @ \ {t},
       ![h].kept[t] = IF Credited(status[t]) = Swc THEN Had(status[t]) ELSE None]
  /\ UNCHANGED <<credits, asked, filed>>

\* Mutant of EarliestPrevious: the wrong column of the row is read.
EarliestSource(t) ==
  IF credits[t] = <<>> THEN "not_started" ELSE credits[t][1].source

EarliestPrevious(t) ==
  IF credits[t] = <<>> THEN "not_started" ELSE credits[t][1].previous

\* Mutant of Resolved: what was observed is recorded as it is.
ResolvedAsSeen(t, observed) == observed

Resolved(t, observed) ==
  IF observed = Swc THEN EarliestPrevious(t) ELSE observed

\* recordCredits, first statement: a target seen as credited already keeps the
\* previous status of its earliest credit.
ResolvePrevious(h) ==
  LET w == work[h] IN
  /\ w.phase \in {"credit", "inherit"}
  /\ w.todo = {}
  /\ IF w.kept = NoneKept
     THEN Finish(h)
     ELSE work' = [work EXCEPT
            ![h].phase = "record",
            ![h].kept = [t \in Control |-> Resolved(t, w.kept[t])]]
  /\ UNCHANGED <<status, credits, asked, by, filed>>

\* INSERT .. ON CONFLICT: an existing row keeps its previous_status and moves
\* to the end of the order, because created_at is renewed.
Recorded(rows, s, previous) ==
  Append(Without(rows, s),
         [source   |-> s,
          previous |-> IF RowsOf(rows, s) = {} THEN previous
                       ELSE rows[RowOf(rows, s)].previous])

\* recordCredits, second statement: one INSERT for all the targets.
RecordCredits(h) ==
  LET w == work[h] IN
  /\ w.phase = "record"
  /\ \A t \in Control : w.kept[t] # None => RowUnlocked(h, t, w.control)
  /\ credits' = [t \in Control |->
                   IF w.kept[t] = None THEN credits[t]
                   ELSE Recorded(credits[t], w.control, w.kept[t])]
  /\ Finish(h)
  /\ UNCHANGED <<status, asked, by, filed>>
----------------------------------------------------------------------------
(***************************************************************************)
(* Withdrawing: handleSourceStatusChange and withdrawCredits               *)
(***************************************************************************)

\* BEGIN and DELETE .. RETURNING: the rows of this source, remembered in kept.
\* A row another transaction has deleted is waited for.
DeleteCredits(h) ==
  LET w == work[h]
      targets == {t \in Control : RowsOf(credits[t], w.control) # {}}
  IN
  /\ w.phase = "withdraw"
  /\ \A t \in targets : RowUnlocked(h, t, w.control)
  /\ work' = [work EXCEPT
       ![h].phase = "check",
       ![h].todo = targets,
       ![h].kept = [t \in Control |->
          IF t \in targets
          THEN credits[t][RowOf(credits[t], w.control)].previous
          ELSE None]]
  /\ UNCHANGED <<status, credits, asked, by, filed>>

\* Mutant of StillCredited: a verified source is not taken to justify credit.
StillImplemented(h, t) ==
  \E i \in DOMAIN credits[t] :
    /\ credits[t][i].source # work[h].control
    /\ View(h, credits[t][i].source) = "implemented"

\* Another source has a row for t and is in a crediting status now.
StillCredited(h, t) ==
  \E i \in DOMAIN credits[t] :
    /\ credits[t][i].source # work[h].control
    /\ View(h, credits[t][i].source) \in Crediting

CheckTarget(h, t) ==
  /\ work[h].phase = "check"
  /\ t \in work[h].todo
  /\ IF StillCredited(h, t)
     THEN work' = [work EXCEPT ![h].todo = @ \ {t}]
     ELSE work' = [work EXCEPT ![h].phase = "restore", ![h].target = t]
  /\ UNCHANGED <<status, credits, asked, by, filed>>

\* Mutant of IsRestorable: the WHERE clause without its status condition.
AlwaysRestorable(h, t) == View(h, t) # None

IsRestorable(h, t) == View(h, t) = Swc

\* UPDATE .. WHERE status = 'satisfied_via_crosswalk': takes the row's lock.
RestoreTarget(h) ==
  LET t == work[h].target
      hit == IsRestorable(h, t)
  IN
  /\ work[h].phase = "restore"
  /\ hit => Unlocked(h, t)
  /\ work' = [work EXCEPT
       ![h].phase = "check",
       ![h].todo = @ \ {t},
       ![h].target = None,
       ![h].restored = IF hit THEN @ \cup {t} ELSE @]
  /\ UNCHANGED <<status, credits, asked, by, filed>>

CommitWithdrawal(h) ==
  LET w == work[h]
      Remaining(t) == IF w.kept[t] = None THEN credits[t]
                      ELSE Without(credits[t], w.control)
  IN
  /\ w.phase = "check"
  /\ w.todo = {}
  /\ credits' = [t \in Control |-> Remaining(t)]
  /\ status' = [c \in Control |-> View(h, c)]
  /\ by' = [c \in Control |-> IF c \in w.restored THEN "restored" ELSE by[c]]
  /\ filed' = filed \ {c \in w.restored : w.kept[c] \notin Compliant}
  /\ Finish(h)
  /\ UNCHANGED asked

\* Two withdrawals wait for each other's rows: the database aborts one, and
\* the error is logged and swallowed.
DeadlockAbort(h) ==
  /\ work[h].phase = "restore"
  /\ \E g \in Handler \ {h} :
       /\ work[h].target \in work[g].restored
       /\ work[g].phase = "restore"
       /\ work[g].target \in work[h].restored
  /\ Finish(h)
  /\ UNCHANGED <<status, credits, asked, by, filed>>
----------------------------------------------------------------------------
(***************************************************************************)
(* POST /controls/:id/inherit                                              *)
(***************************************************************************)

\* The status the targets will get: the one the client names, or else credit
\* from an implemented source, or else the source's own status.
InheritedFrom(c) ==
  IF status[c] = "implemented" THEN Swc
  ELSE IF status[c] = None THEN "in_progress" ELSE status[c]

\* minSimilarity is taken to be the organization's own threshold.
InheritBegin(h, c, s, kind) ==
  /\ kind \in Endpoints
  /\ MayStart(h, c)
  /\ s \in Asked \cup {InheritedFrom(c)}
  /\ work' = [work EXCEPT ![h] = [Idle EXCEPT !.phase = "inherit",
                                             !.kind = kind, !.control = c,
                                             !.to = s, !.todo = Mapped[c]]]
  /\ UNCHANGED <<status, credits, asked, by, filed>>

\* Implemented and verified targets are skipped unless the client wants all.
InheritRead(h, t) ==
  /\ work[h].phase = "inherit"
  /\ t \in work[h].todo
  /\ IF work[h].kind = "inherit" /\ status[t] \in Crediting
     THEN work' = [work EXCEPT ![h].todo = @ \ {t}]
     ELSE work' = [work EXCEPT ![h].phase = "overwrite", ![h].target = t,
                               ![h].seen = Had(status[t])]
  /\ UNCHANGED <<status, credits, asked, by, filed>>

\* The upsert writes whatever the row holds by now.
InheritWrite(h) ==
  LET w == work[h]
      t == w.target
  IN
  /\ w.phase = "overwrite"
  /\ Unlocked(h, t)
  /\ SetByPerson(t, w.to, IF w.to = Swc THEN "credit" ELSE "direct")
  /\ work' = [work EXCEPT
       ![h].phase = "inherit", ![h].todo = @ \ {t}, ![h].target = None,
       ![h].seen = None,
       ![h].kept[t] = IF w.to = Swc THEN w.seen ELSE None]
  /\ UNCHANGED credits
----------------------------------------------------------------------------
(***************************************************************************)
(* Other writers of the status column: no gate, no crosswalk work          *)
(***************************************************************************)

\* POST /implementations/by-control/:id/ensure
Ensure(c) ==
  /\ "ensure" \in Endpoints
  /\ status[c] = None
  /\ status' = [status EXCEPT ![c] = "not_started"]
  /\ UNCHANGED <<credits, work, asked, by, filed>>

DirectlySet(c, s) ==
  /\ FreeOfLocks(c)
  /\ SetByPerson(c, s, "direct")
  /\ UNCHANGED <<credits, work>>

\* POST /implementations/:id/review
Review(c) ==
  /\ "review" \in Endpoints
  /\ status[c] # None
  /\ DirectlySet(c, "needs_review")

\* A vulnerability finding or work item sets a status that the row, as read,
\* does not have; the row is written by a later statement.
DirectBegin(h, c, s, kind) ==
  /\ kind \in Endpoints
  /\ MayStart(h, c)
  /\ work' = [work EXCEPT ![h] = [Idle EXCEPT !.phase = "direct", !.kind = kind,
                                             !.control = c, !.to = s,
                                             !.seen = status[c]]]
  /\ UNCHANGED <<status, credits, asked, by, filed>>

\* A vulnerability finding is linked to the control.
FlagByFinding(h, c) ==
  /\ status[c] \notin {"needs_review", "in_progress"}
  /\ DirectBegin(h, c, "needs_review", "finding")

\* A vulnerability work item is updated: the control is in doubt or remediated.
\* (Its two statements use one parameter as the VARCHAR status and in a text
\* comparison; where PostgreSQL refuses that, DirectWrite does not happen.)
UpdateWorkItem(h, c, s) ==
  /\ s \in {"needs_review", "implemented"} \ {status[c]}
  /\ DirectBegin(h, c, s, "work_item")

\* INSERT .. ON CONFLICT DO NOTHING where no row was read, UPDATE otherwise.
DirectWrite(h) ==
  LET w == work[h]
      c == w.control
  IN
  /\ w.phase = "direct"
  /\ IF w.seen = None /\ status[c] # None
     THEN UNCHANGED <<status, asked, by, filed>>
     ELSE Unlocked(h, c) /\ SetByPerson(c, w.to, "direct")
  /\ Finish(h)
  /\ UNCHANGED credits

\* POST /pending-control-assessments/:id/approve applies a suggested status.
ApproveSuggestion(c, s) ==
  /\ "suggestion" \in Endpoints
  /\ DirectlySet(c, s)

\* Frameworks are activated: those of their controls that have no row and a
\* crediting mapped control start out satisfied.  No ledger row is written.
\* (The threshold does not apply here; mappings below it are left out.)
Rehydrate(T) ==
  /\ "rehydrate" \in Endpoints
  /\ T # {}
  /\ \A t \in T :
       /\ status[t] = None
       /\ \E s \in Control : t \in Mapped[s] /\ status[s] \in Crediting
  /\ status' = [c \in Control |-> IF c \in T THEN Swc ELSE status[c]]
  /\ by' = [c \in Control |-> IF c \in T THEN "credit" ELSE by[c]]
  /\ UNCHANGED <<credits, work, asked, filed>>
----------------------------------------------------------------------------
\* A statement throws or the server dies: the request ends where it is, and an
\* open transaction is rolled back.
Fail(h) ==
  /\ Faults
  /\ work[h].phase # "idle"
  /\ Finish(h)
  /\ UNCHANGED <<status, credits, asked, by, filed>>

\* What the server does on behalf of a request that has been accepted.
ServerStep(h) ==
  \/ Write(h) \/ Gate(h) \/ ResolvePrevious(h) \/ RecordCredits(h)
  \/ DeleteCredits(h) \/ RestoreTarget(h) \/ CommitWithdrawal(h)
  \/ DeadlockAbort(h) \/ InheritWrite(h) \/ DirectWrite(h)
  \/ \E t \in Control : CreditTarget(h, t) \/ CheckTarget(h, t) \/ InheritRead(h, t)

NewRequest(h, c) ==
  \/ \E s \in Asked : PutBegin(h, c, s) \/ PatchBegin(h, c, s)
  \/ \E s \in Status, kind \in {"inherit", "inherit_all"} : InheritBegin(h, c, s, kind)
  \/ FlagByFinding(h, c)
  \/ \E s \in {"needs_review", "implemented"} : UpdateWorkItem(h, c, s)

OneStatement(c) ==
  \/ Ensure(c) \/ Review(c)
  \/ \E s \in Asked : ApproveSuggestion(c, s)

Next ==
  \/ \E h \in Handler : ServerStep(h) \/ Fail(h)
  \/ \E h \in Handler, c \in Control : NewRequest(h, c)
  \/ \E c \in Control : OneStatement(c)
  \/ \E T \in SUBSET Control : Rehydrate(T)

Spec == Init /\ [][Next]_vars
----------------------------------------------------------------------------
\* Type correctness: whatever requests overlap or die half-way, the status column
\* and the ledger's previous_status only ever hold statuses of the vocabulary,
\* which no constraint of the database enforces.
TypeOK ==
  /\ status \in [Control -> Status \cup {None}]
  /\ credits \in [Control -> Seq(Row)]
  /\ work \in [Handler -> Work]
  /\ asked \in [Control -> Status \cup {None}]
  /\ by \in [Control -> {"nobody", "gated", "direct", "credit", "restored"}]
  /\ filed \subseteq Control

\* The automation never touches human work: a status a person asked for, other
\* than not_started or the credit itself, stands until a person changes it.
HumanWorkStands ==
  \A c \in Control : asked[c] \notin Unworked => status[c] = asked[c]

\* A withdrawal can never hand a control back a status that was itself only
\* crosswalk credit: no ledger row remembers one as the previous status.
LedgerRemembersNoCredit ==
  \A t \in Control : \A i \in DOMAIN credits[t] : credits[t][i].previous # Swc

Quiet == \A h \in Handler : work[h].phase = "idle"

Justifies(s, t) == RowsOf(credits[t], s) # {} /\ status[s] \in Crediting

\* If the source stops being implemented, the credit is withdrawn: with no
\* request in flight, a credited control has a crediting source in the ledger.
CreditHasSource ==
  Quiet => \A t \in Control :
    status[t] = Swc /\ by[t] = "credit" => \E s \in Control : Justifies(s, t)

\* A credit can be taken back: with no request in flight, a credited control has a
\* row in the ledger, of a source whose withdrawal will find it.
CreditHasRow ==
  Quiet => \A t \in Control : status[t] = Swc /\ by[t] = "credit" => credits[t] # <<>>

\* A control credited by more than one source stays satisfied until the last of
\* them lapses: none is restored while a crediting source is in the ledger.
KeptUntilLastLapses ==
  Quiet => \A t \in Control :
    by[t] = "restored" => ~\E s \in Control : Justifies(s, t)

\* Claiming a control is compliant puts an approval request on file: a control
\* that a gated endpoint made compliant has had one since it last was not.
ClaimsAreFiled ==
  Quiet => \A c \in Control :
    status[c] \in Compliant /\ by[c] = "gated" => c \in filed

\* The requests, the ledger and the withdrawal's transaction implement what the
\* automation promises of the statuses: every step credits controls nobody has
\* started, takes credits back, or writes what a person asked for.
Posture == INSTANCE CrosswalkPosture WITH status <- status, asked <- asked
PostureSpec == Posture!Spec
============================================================================
