----------------------------- MODULE AuditChain -----------------------------
(***************************************************************************)
(* One organization's audit trail: the rows of audit_logs, chained by the  *)
(* hash of their predecessor in a BEFORE INSERT trigger, the retention     *)
(* purge that removes the oldest of them, and the verification script.     *)
(*                                                                         *)
(* A record is written inside a transaction.  created_at is NOW(), the     *)
(* time the transaction began; the trigger takes a lock of the             *)
(* organization that is held until the transaction ends, so that at most   *)
(* one transaction has rows that are not committed.  Hashes are taken to   *)
(* be free of collisions and no two transactions to begin in the same      *)
(* microsecond: a row is identified by the time its transaction began.     *)
(* Rows of before the chain, legal holds and the contents of the records   *)
(* are left out, and so is everything tampering with rows would do.        *)
(***************************************************************************)
EXTENDS Naturals, FiniteSetsExt

CONSTANTS
  Writer,          \* connections that write audit records or purge them
  Faults,          \* TRUE: statements may fail and the server may crash
  MaxTransactions  \* bound: transactions that ever begin

ASSUME MaxIsNatural == MaxTransactions \in Nat

VARIABLES
  log,       \* the committed rows of audit_logs
  tx,        \* [Writer -> the transaction it has open]
  clock,     \* how many transactions have begun
  appended   \* history: how many rows the trigger has chained

vars == <<log, tx, clock, appended>>

\* No row: a prev_hash or a boundary that is NULL.
NoHash == 0

\* at: created_at, and the identity that record_hash stands for; boundary: the
\* chain_boundary_hash of a purge record; nr: history, the order of appending.
Row == [at : Nat \ {0}, prev : Nat, boundary : Nat, nr : Nat \ {0}]

NoRow == [at |-> 1, prev |-> NoHash, boundary |-> NoHash, nr |-> 1]

Idle == [phase |-> "idle", at |-> 1, cutoff |-> 0, boundary |-> NoHash, row |-> NoRow]

\* cutoff: rows older than this are expired, 0 for a transaction that is no
\* purge; row: what the transaction has inserted once it is "written".
Transaction ==
  [phase : {"idle", "begun", "purge", "counted", "written"}, at : Nat \ {0},
   cutoff : Nat, boundary : Nat, row : Row]

Init ==
  /\ log = {}
  /\ tx = [w \in Writer |-> Idle]
  /\ clock = 0
  /\ appended = 0

Times(rows) == {r.at : r \in rows}
Latest(rows) == IF rows = {} THEN NoHash ELSE Max(Times(rows))

Expired(cutoff) == {r \in log : r.at < cutoff}
Kept(cutoff) == log \ Expired(cutoff)

InFlight == {w \in Writer : tx[w].phase # "idle"}

\* pg_advisory_xact_lock; a purge holds the whole table by then.
LockFree(w) == \A v \in Writer \ {w} : tx[v].phase # "written"

Start(w, phase, cutoff) ==
  /\ tx[w].phase = "idle"
  /\ clock < MaxTransactions
  /\ clock' = clock + 1
  /\ tx' = [tx EXCEPT ![w] = [Idle EXCEPT !.phase = phase, !.at = clock + 1,
                                         !.cutoff = cutoff]]

Finish(w) == tx' = [tx EXCEPT ![w] = Idle]

\* BEGIN, or an INSERT on its own.
Begin(w) ==
  /\ Start(w, "begun", 0)
  /\ UNCHANGED <<log, appended>>

\* Mutant of Chained: the head of the chain is the oldest row.
ChainedToOldest(w, rows) ==
  [at |-> tx[w].at, boundary |-> tx[w].boundary, nr |-> appended + 1,
   prev |-> IF rows = {} THEN NoHash ELSE Min(Times(rows))]

\* audit_log_chain_append: the head of the chain is the row with the latest
\* created_at among those the transaction sees.
Chained(w, rows) ==
  [at |-> tx[w].at, boundary |-> tx[w].boundary, nr |-> appended + 1,
   prev |-> Latest(rows)]

WriteRow(w, rows) ==
  /\ tx' = [tx EXCEPT ![w].phase = "written", ![w].row = Chained(w, rows)]
  /\ appended' = appended + 1

\* Mutant of InsertRecord: the trigger takes no lock.
InsertUnlocked(w) ==
  /\ tx[w].phase = "begun"
  /\ WriteRow(w, log)
  /\ UNCHANGED <<log, clock>>

InsertRecord(w) ==
  /\ tx[w].phase = "begun"
  /\ LockFree(w)
  /\ WriteRow(w, log)
  /\ UNCHANGED <<log, clock>>

\* runAuditLogRetention.  Records are kept for at least 90 days: no transaction
\* in flight is as old as the records that expire.
PurgeBegin(w, cutoff) ==
  /\ \A v \in InFlight : cutoff <= tx[v].at
  /\ Start(w, "purge", cutoff)
  /\ UNCHANGED <<log, appended>>

\* Mutant of PurgeCount: with nothing to purge, the transaction is left open.
PurgeCountOnly(w) ==
  LET old == Expired(tx[w].cutoff) IN
  /\ tx[w].phase = "purge"
  /\ old # {}
  /\ tx' = [tx EXCEPT ![w].phase = "counted", ![w].boundary = Latest(old)]
  /\ UNCHANGED <<log, clock, appended>>

\* The expired rows are counted and the last of them is noted; with none of
\* them the transaction commits right away.
PurgeCount(w) ==
  LET old == Expired(tx[w].cutoff) IN
  /\ tx[w].phase = "purge"
  /\ IF old = {}
     THEN Finish(w)
     ELSE tx' = [tx EXCEPT ![w].phase = "counted", ![w].boundary = Latest(old)]
  /\ UNCHANGED <<log, clock, appended>>

\* ALTER TABLE waits for every uncommitted row and keeps out further ones; the
\* DELETE follows, and the INSERT of the purge's own record.
PurgeWrite(w) ==
  /\ tx[w].phase = "counted"
  /\ LockFree(w)
  /\ WriteRow(w, Kept(tx[w].cutoff))
  /\ UNCHANGED <<log, clock>>

Commit(w) ==
  /\ tx[w].phase = "written"
  /\ log' = Kept(tx[w].cutoff) \cup {tx[w].row}
  /\ Finish(w)
  /\ UNCHANGED <<clock, appended>>

Rollback(w) ==
  /\ Faults
  /\ tx[w].phase # "idle"
  /\ Finish(w)
  /\ UNCHANGED <<log, clock, appended>>

DatabaseStep(w) == InsertRecord(w) \/ PurgeCount(w) \/ PurgeWrite(w) \/ Commit(w)

Next ==
  \E w \in Writer :
    \/ Begin(w)
    \/ \E cutoff \in 1..clock : PurgeBegin(w, cutoff)
    \/ DatabaseStep(w)
    \/ Rollback(w)

\* The database grants locks in the order they are asked for.
Fairness == \A w \in Writer : SF_vars(DatabaseStep(w))

Spec == Init /\ [][Next]_vars /\ Fairness
-----------------------------------------------------------------------------
(***************************************************************************)
(* verify-audit-chain.js                                                   *)
(***************************************************************************)

Boundaries == {r.boundary : r \in log} \ {NoHash}

Before(r) == {q \in log : q.at < r.at}

\* The rows reported as BROKEN: their prev_hash is not the hash of the row that
\* precedes them by created_at, and no purge has recorded it.  The first row is
\* taken as it is.
Broken ==
  {r \in log : Before(r) # {} /\ r.prev # Latest(Before(r)) /\ r.prev \notin Boundaries}
-----------------------------------------------------------------------------
\* Type correctness: rows and open transactions carry a time and a predecessor,
\* and no row is timed before the first transaction.
TypeOK ==
  /\ log \subseteq Row
  /\ tx \in [Writer -> Transaction]
  /\ clock \in Nat
  /\ appended \in Nat

\* The rows were chained in the order of their created_at.
InOrder == \A r, q \in log : r.nr < q.nr => r.at < q.at

\* BROKEN means that records were removed or reordered: nothing is reported in
\* a trail whose rows were chained in the order of their created_at, whatever
\* transactions overlap, fail and purge.
IntactVerifies == InOrder => Broken = {}

\* Whatever the order: a trail has one beginning, because the lock keeps two
\* transactions from both finding it empty.
OneGenesis == \A r, q \in log : r.prev = NoHash /\ q.prev = NoHash => r = q

\* No two rows claim the same predecessor.
NoFork == \A r, q \in log : r.prev = q.prev => r = q

\* Every transaction ends: nobody waits for the lock forever.
EveryTransactionEnds ==
  \A w \in Writer : tx[w].phase # "idle" ~> tx[w].phase = "idle"
=============================================================================
