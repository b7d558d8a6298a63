--------------------------- MODULE Operations_proofs --------------------------
(***************************************************************************)
(* What overlaps, fails and is tried again, for every number of writers,   *)
(* jobs, reports, requests, servers and failures: the audit trail has one  *)
(* beginning and verifies whenever its rows were chained in the order of   *)
(* their created_at; retries end; servers do not have the same report in   *)
(* hand, and a report is mailed once a period but for failures.            *)
(***************************************************************************)
EXTENDS MCOperations, CountLemmas, FiniteSetTheorems, TLAPS

-----------------------------------------------------------------------------
(***************************************************************************)
(* AuditChain: one beginning, and a trail that verifies                    *)
(***************************************************************************)

\* Row r is chained to the latest of the given rows, if there are any.
Follows(r, rows) ==
  rows # {} => \E p \in rows : r.prev = p.at /\ \A q \in rows : q.at <= p.at

Earlier(r) == {q \in log : q.nr < r.nr}

\* The inductive invariant, in parts.  Every row follows the rows that were
\* chained before it; a purge removes the oldest rows, so it removes the latest
\* of some rows only with all of them.
Linked == \A r \in log : Follows(r, Earlier(r))

HasLatest ==
  \A c \in Nat : Expired(c) # {} => \E p \in Expired(c) : \A q \in Expired(c) : q.at <= p.at

OneWrites ==
  \A v, w \in Writer : tx[v].phase = "written" /\ tx[w].phase = "written" => v = w

RowsDiffer ==
  \A r, q \in log : (r.at = q.at => r = q) /\ (r.nr = q.nr => r = q)

InThePast ==
  /\ \A r \in log : r.at <= clock /\ r.nr <= appended
  /\ \A w \in InFlight : tx[w].at <= clock
  /\ \A w \in InFlight, r \in log : tx[w].at # r.at
  /\ \A v, w \in InFlight : tx[v].at = tx[w].at => v = w

Retained ==
  /\ \A v, w \in InFlight : tx[v].cutoff <= tx[w].at
  /\ \A w \in Writer : tx[w].phase = "begun" => tx[w].cutoff = 0

RowsWritten ==
  \A w \in Writer : tx[w].phase = "written" =>
    LET r == tx[w].row IN
    /\ r.at = tx[w].at
    /\ \A q \in log : q.nr < r.nr
    /\ r.nr <= appended
    /\ Follows(r, Kept(tx[w].cutoff))

\* The invariant that every step of every transaction keeps.
IInv ==
  /\ TypeOK /\ Linked /\ HasLatest /\ OneWrites
  /\ RowsDiffer /\ InThePast /\ Retained /\ RowsWritten
-----------------------------------------------------------------------------
\* The head of the chain among rows is the time of a row no other exceeds.
LEMMA LatestIs ==
  ASSUME NEW rows, rows \subseteq Row, NEW p \in rows, \A q \in rows : q.at <= p.at
  PROVE  Latest(rows) = p.at
<1>1. \A q \in rows : q.at \in Nat
  BY DEF Row
<1>2. p.at \in Times(rows) /\ \A t \in Times(rows) : t \in Nat /\ p.at >= t
  BY <1>1 DEF Times
<1>3. \A t \in Times(rows) : (\A u \in Times(rows) : t >= u) => t = p.at
  BY <1>2
<1>4. Max(Times(rows)) = p.at
  BY <1>2, <1>3 DEF Max
<1>5. QED
  BY <1>4 DEF Latest

\* A trail that is not empty has a latest row.
LEMMA LogHasLatest ==
  ASSUME IInv, log # {}
  PROVE  \E p \in log : \A q \in log : q.at <= p.at
<1>1. Expired(clock + 1) = log /\ clock + 1 \in Nat
  BY DEF Expired, IInv, InThePast, TypeOK, Row
<1>2. QED
  BY <1>1 DEF IInv, HasLatest

\* With the latest row of the trail, what a purge leaves has a latest row too.
LEMMA KeptHasLatest ==
  ASSUME IInv, NEW c \in Nat, Kept(c) # {}
  PROVE  \E p \in Kept(c) : \A q \in Kept(c) : q.at <= p.at
<1>1. PICK p \in log : \A q \in log : q.at <= p.at
  BY LogHasLatest DEF Kept
<1>2. PICK q \in Kept(c) : q \in log /\ ~(q.at < c)
  BY DEF Kept, Expired
<1>3. p.at \in Nat /\ q.at \in Nat /\ q.at <= p.at
  BY <1>1, <1>2 DEF IInv, TypeOK, Row
<1>4. p \in Kept(c)
  BY <1>2, <1>3 DEF Kept, Expired
<1>5. QED
  BY <1>1, <1>4 DEF Kept

\* What the trigger writes follows the rows it sees.
LEMMA ChainedFollows ==
  ASSUME IInv, NEW w \in Writer, NEW c \in Nat
  PROVE  /\ Follows(Chained(w, Kept(c)), Kept(c))
         /\ Chained(w, Kept(c)) \in Row
<1>1. Kept(c) \subseteq Row
  BY DEF Kept, IInv, TypeOK
<1>2. CASE Kept(c) = {}
  BY <1>2 DEF Follows, Chained, Latest, NoHash, Row, IInv, TypeOK, Transaction
<1>3. CASE Kept(c) # {}
  <2>1. PICK p \in Kept(c) : \A q \in Kept(c) : q.at <= p.at
    BY <1>3, KeptHasLatest
  <2>2. Latest(Kept(c)) = p.at /\ p.at \in Nat
    BY <1>1, <2>1, LatestIs DEF Row
  <2>3. Chained(w, Kept(c)).prev = p.at
    BY <2>2 DEF Chained
  <2>4. Follows(Chained(w, Kept(c)), Kept(c))
    BY <2>1, <2>3 DEF Follows
  <2>5. Chained(w, Kept(c)) \in Row
    BY <2>2 DEF Chained, Row, IInv, TypeOK, Transaction
  <2>6. QED
    BY <2>4, <2>5
<1>4. QED
  BY <1>2, <1>3
-----------------------------------------------------------------------------
\* The empty trail satisfies the invariant.
LEMMA InitiallyOK == Init => IInv
<1> SUFFICES ASSUME Init PROVE IInv
  OBVIOUS
<1>1. Idle \in Transaction
  BY DEF Idle, Transaction, NoRow, Row, NoHash
<1>2. TypeOK
  BY <1>1 DEF Init, TypeOK
<1>3. InFlight = {}
  BY DEF Init, InFlight, Idle
<1>4. Linked /\ HasLatest /\ RowsDiffer /\ InThePast /\ Retained
  BY <1>3 DEF Init, Linked, HasLatest, RowsDiffer, InThePast, Retained, Idle, Expired
<1>5. OneWrites /\ RowsWritten
  BY DEF Init, OneWrites, RowsWritten, Idle
<1>6. QED
  BY <1>2, <1>4, <1>5 DEF IInv

\* Steps that leave the trail alone keep what only the trail decides.
LEMMA SameLog ==
  ASSUME IInv, log' = log
  PROVE  Linked' /\ HasLatest' /\ RowsDiffer'
BY DEF IInv, Linked, HasLatest, RowsDiffer, Follows, Earlier, Expired

\* One connection changes its transaction: what holds of the others still does.
LEMMA OthersAlone ==
  ASSUME IInv, NEW w \in Writer, NEW t \in Transaction, tx' = [tx EXCEPT ![w] = t]
  PROVE  /\ tx' \in [Writer -> Transaction]
         /\ tx'[w] = t
         /\ \A v \in Writer \ {w} : tx'[v] = tx[v]
BY DEF IInv, TypeOK

\* A transaction begins, with a time of its own that is later than any row.
LEMMA StartStep ==
  ASSUME IInv, NEW w \in Writer, NEW phase \in {"begun", "purge"}, NEW cutoff \in Nat,
         \A v \in InFlight : cutoff <= tx[v].at, cutoff <= clock,
         phase = "begun" => cutoff = 0,
         Start(w, phase, cutoff), UNCHANGED <<log, appended>>
  PROVE  IInv'
<1> DEFINE t == [Idle EXCEPT !.phase = phase, !.at = clock + 1, !.cutoff = cutoff]
<1>1. clock \in Nat /\ clock' = clock + 1
  BY DEF IInv, TypeOK, Start
<1>2. /\ t \in Transaction
      /\ t.phase = phase /\ t.at = clock + 1 /\ t.cutoff = cutoff
  <2>1. Idle \in Transaction
    BY DEF Idle, Transaction, NoRow, Row, NoHash
  <2>2. clock + 1 \in Nat \ {0} /\ phase \in {"begun", "purge"}
    BY <1>1
  <2>3. QED
    BY <2>1, <2>2 DEF Transaction
<1>3. tx' = [tx EXCEPT ![w] = t] /\ tx[w].phase = "idle"
  BY DEF Start
<1>4. PICK n \in Nat : n = clock
  BY <1>1
<1>5. /\ tx' \in [Writer -> Transaction]
      /\ tx'[w] = t
      /\ \A v \in Writer \ {w} : tx'[v] = tx[v]
  BY <1>2, <1>3, OthersAlone
<1>6. /\ tx'[w].phase \notin {"idle", "written"}
      /\ tx'[w].at = n + 1 /\ tx'[w].cutoff = cutoff /\ cutoff <= n
  BY <1>2, <1>4, <1>5
<1> HIDE DEF t
<1>7. InFlight' = InFlight \cup {w} /\ w \notin InFlight
  BY <1>3, <1>5, <1>6 DEF InFlight
<1>8. ASSUME NEW v \in InFlight
      PROVE  /\ tx'[v] = tx[v]
             /\ tx[v].at \in Nat /\ tx[v].at <= n
             /\ tx[v].cutoff \in Nat /\ tx[v].cutoff <= n
             /\ cutoff <= tx[v].at
  <2>1. v \in Writer /\ tx[v] \in Transaction /\ tx'[v] = tx[v]
    BY <1>5, <1>7 DEF InFlight, IInv, TypeOK
  <2>2. tx[v].cutoff <= tx[v].at /\ tx[v].at <= n
    BY <1>4 DEF IInv, Retained, InThePast
  <2>3. QED
    BY <2>1, <2>2 DEF Transaction
<1>9. TypeOK'
  BY <1>1, <1>5 DEF IInv, TypeOK
<1>10. InThePast'
  <2>1. \A r \in log : r.at \in Nat /\ r.at <= n
    BY <1>4 DEF IInv, InThePast, TypeOK, Row
  <2>2. \A r \in log' : r.at <= clock' /\ r.nr <= appended'
    BY <1>1, <1>4, <2>1 DEF IInv, InThePast
  <2>3. ASSUME NEW v \in InFlight' PROVE tx'[v].at <= n + 1
    BY <1>6, <1>7, <1>8
  <2>4. ASSUME NEW v \in InFlight', NEW r \in log' PROVE tx'[v].at # r.at
    <3>1. CASE v = w
      BY <1>6, <2>1, <3>1
    <3>2. CASE v \in InFlight
      BY <1>8, <3>2 DEF IInv, InThePast
    <3>3. QED
      BY <1>7, <3>1, <3>2
  <2>5. ASSUME NEW v \in InFlight', NEW u \in InFlight', tx'[v].at = tx'[u].at
        PROVE  v = u
    <3>1. CASE v = w /\ u \in InFlight
      BY <1>6, <1>8, <2>5, <3>1
    <3>2. CASE u = w /\ v \in InFlight
      BY <1>6, <1>8, <2>5, <3>2
    <3>3. CASE v \in InFlight /\ u \in InFlight
      BY <1>8, <2>5, <3>3 DEF IInv, InThePast
    <3>4. QED
      BY <1>7, <3>1, <3>2, <3>3
  <2>6. QED
    BY <1>1, <1>4, <2>2, <2>3, <2>4, <2>5 DEF InThePast
<1>11. Retained'
  <2>1. ASSUME NEW v \in InFlight', NEW u \in InFlight'
        PROVE  tx'[v].cutoff <= tx'[u].at
    <3>1. CASE u = w
      BY <1>6, <1>7, <1>8, <3>1
    <3>2. CASE u \in InFlight /\ v = w
      BY <1>6, <1>8, <3>2
    <3>3. CASE u \in InFlight /\ v \in InFlight
      BY <1>8, <3>3 DEF IInv, Retained
    <3>4. QED
      BY <1>7, <3>1, <3>2, <3>3
  <2>2. \A v \in Writer : tx'[v].phase = "begun" => tx'[v].cutoff = 0
    BY <1>2, <1>5 DEF IInv, Retained, t
  <2>3. QED
    BY <2>1, <2>2 DEF Retained
<1>12. OneWrites' /\ RowsWritten'
  BY <1>5, <1>6 DEF IInv, OneWrites, RowsWritten, Kept, Expired, Follows
<1>13. QED
  BY <1>9, <1>10, <1>11, <1>12, SameLog DEF IInv

\* A transaction ends and leaves the trail alone, or goes on reading it.
LEMMA QuietStep ==
  ASSUME IInv, NEW w \in Writer, NEW t \in Transaction,
         tx' = [tx EXCEPT ![w] = t], UNCHANGED <<log, clock, appended>>,
         \/ t.phase = "idle"
         \/ /\ tx[w].phase # "idle" /\ t.phase \notin {"begun", "written"}
            /\ t.at = tx[w].at /\ t.cutoff = tx[w].cutoff
  PROVE  IInv'
<1>1. /\ tx' \in [Writer -> Transaction]
      /\ tx'[w] = t
      /\ \A v \in Writer \ {w} : tx'[v] = tx[v]
  BY OthersAlone
<1>2. /\ InFlight' \subseteq InFlight
      /\ \A v \in InFlight' : tx'[v].at = tx[v].at /\ tx'[v].cutoff = tx[v].cutoff
  BY <1>1 DEF InFlight
<1>3. TypeOK'
  BY <1>1 DEF IInv, TypeOK
<1>4. InThePast' /\ Retained'
  <2>1. \A v \in Writer : tx'[v].phase = "begun" => tx'[v] = tx[v]
    BY <1>1
  <2>2. QED
    BY <1>2, <2>1 DEF IInv, InThePast, Retained
<1>5. \A v \in Writer : tx'[v].phase = "written" => tx'[v] = tx[v]
  BY <1>1
<1>6. OneWrites' /\ RowsWritten'
  BY <1>5 DEF IInv, OneWrites, RowsWritten, Kept, Expired, Follows
<1>7. QED
  BY <1>3, <1>4, <1>6, SameLog DEF IInv

\* The lock is granted and the trigger chains the row.
LEMMA WriteStep ==
  ASSUME IInv, NEW w \in Writer, tx[w].phase \in {"begun", "counted"}, LockFree(w),
         WriteRow(w, Kept(tx[w].cutoff)), UNCHANGED <<log, clock>>
  PROVE  IInv'
<1> DEFINE row == Chained(w, Kept(tx[w].cutoff))
           t == [tx[w] EXCEPT !.phase = "written", !.row = row]
<1>1. tx[w] \in Transaction /\ tx[w].cutoff \in Nat
  BY DEF IInv, TypeOK, Transaction
<1>2. PICK c \in Nat : c = tx[w].cutoff
  BY <1>1
<1>3. /\ row \in Row /\ Follows(row, Kept(c))
      /\ row.at = tx[w].at /\ row.nr = appended + 1
  BY <1>2, ChainedFollows DEF Chained
<1> HIDE DEF row
<1>4. t \in Transaction
  BY <1>1, <1>3 DEF Transaction
<1>5. /\ t.phase = "written" /\ t.row = row
      /\ t.at = tx[w].at /\ t.cutoff = tx[w].cutoff
  BY <1>1 DEF Transaction
<1>6. tx' = [tx EXCEPT ![w] = t]
  BY <1>1 DEF WriteRow, row, IInv, TypeOK
<1> HIDE DEF t
<1>7. /\ tx' \in [Writer -> Transaction]
      /\ tx'[w] = t
      /\ \A v \in Writer \ {w} : tx'[v] = tx[v]
  BY <1>4, <1>6, OthersAlone
<1>8. appended \in Nat /\ appended' = appended + 1
  BY DEF WriteRow, IInv, TypeOK
<1>9. TypeOK'
  BY <1>7, <1>8 DEF IInv, TypeOK
<1>10. \A v \in Writer : tx'[v].phase = "written" => v = w
  BY <1>7 DEF LockFree
<1>11. /\ InFlight' = InFlight
       /\ \A v \in InFlight : tx'[v].at = tx[v].at /\ tx'[v].cutoff = tx[v].cutoff
  BY <1>5, <1>7 DEF InFlight
<1>12. InThePast'
  <2>1. \A r \in log : r.nr <= appended'
    BY <1>8 DEF IInv, InThePast, TypeOK, Row
  <2>2. QED
    BY <1>11, <2>1 DEF IInv, InThePast
<1>13. Retained'
  BY <1>5, <1>7, <1>11 DEF IInv, Retained
<1>14. OneWrites'
  BY <1>10 DEF OneWrites
<1>15. RowsWritten'
  <2>1. tx'[w].row = row /\ tx'[w].at = tx[w].at /\ tx'[w].cutoff = c
    BY <1>2, <1>5, <1>7
  <2>2. Kept(c)' = Kept(c)
    BY DEF Kept, Expired
  <2>3. \A q \in log' : q.nr < row.nr
    BY <1>3, <1>8 DEF IInv, InThePast, TypeOK, Row
  <2>4. row.nr <= appended' /\ row.at = tx'[w].at
    BY <1>3, <1>8, <2>1
  <2>5. SUFFICES ASSUME NEW v \in Writer, tx'[v].phase = "written"
                 PROVE  LET r == tx'[v].row IN
                        /\ r.at = tx'[v].at
                        /\ \A q \in log' : q.nr < r.nr
                        /\ r.nr <= appended'
                        /\ Follows(r, Kept(tx[v].cutoff)')
    BY DEF RowsWritten, Follows
  <2>6. QED
    BY <1>3, <1>10, <2>1, <2>2, <2>3, <2>4, <2>5 DEF Kept, Expired
<1>16. QED
  BY <1>9, <1>12, <1>13, <1>14, <1>15, SameLog DEF IInv

\* What a purge leaves of the rows before a row is still what the row follows.
LEMMA KeptFollows ==
  ASSUME IInv, NEW c \in Nat, NEW r \in Kept(c)
  PROVE  Follows(r, Earlier(r) \cap Kept(c))
<1>1. SUFFICES ASSUME Earlier(r) \cap Kept(c) # {}
               PROVE  \E p \in Earlier(r) \cap Kept(c) :
                        r.prev = p.at /\ \A q \in Earlier(r) \cap Kept(c) : q.at <= p.at
  BY DEF Follows
<1>2. PICK p \in Earlier(r) : r.prev = p.at /\ \A q \in Earlier(r) : q.at <= p.at
  BY <1>1 DEF IInv, Linked, Follows, Kept
<1>3. PICK q \in Earlier(r) : q \in log /\ ~(q.at < c)
  BY <1>1 DEF Kept, Expired
<1>4. p \in log /\ p.at \in Nat /\ q.at \in Nat /\ q.at <= p.at
  BY <1>2, <1>3 DEF Earlier, IInv, TypeOK, Row
<1>5. p \in Kept(c)
  BY <1>3, <1>4 DEF Kept, Expired
<1>6. QED
  BY <1>2, <1>5

\* What a transaction wrote joins the trail, and what it purged leaves it.
LEMMA CommitStep ==
  ASSUME IInv, NEW w \in Writer, Commit(w)
  PROVE  IInv'
<1>1. PICK c \in Nat : c = tx[w].cutoff
  BY DEF IInv, TypeOK, Transaction
<1>2. PICK row \in Row : row = tx[w].row
  BY DEF IInv, TypeOK, Transaction
<1>3. /\ tx[w].phase = "written" /\ log' = Kept(c) \cup {row}
      /\ tx' = [tx EXCEPT ![w] = Idle] /\ UNCHANGED <<clock, appended>>
  BY <1>1, <1>2 DEF Commit, Finish
<1>4. /\ row.at = tx[w].at /\ row.nr <= appended
      /\ \A q \in log : q.nr < row.nr
      /\ Follows(row, Kept(c))
  BY <1>1, <1>2, <1>3 DEF IInv, RowsWritten
<1>5. w \in InFlight /\ Kept(c) \subseteq log /\ log \subseteq Row
  BY <1>3 DEF InFlight, Kept, IInv, TypeOK
<1>6. Idle \in Transaction
  BY DEF Idle, Transaction, NoRow, Row, NoHash
<1>7. /\ tx' \in [Writer -> Transaction]
      /\ tx'[w] = Idle
      /\ \A v \in Writer \ {w} : tx'[v] = tx[v]
  BY <1>3, <1>6, OthersAlone
<1>8. InFlight' = InFlight \ {w} /\ Idle.phase = "idle"
  BY <1>7 DEF InFlight, Idle
<1>9. TypeOK'
  BY <1>3, <1>5, <1>7 DEF IInv, TypeOK
<1>10. \A r \in log : r.at # row.at /\ r.nr # row.nr
  <2>1. \A r \in log : r.nr \in Nat /\ row.nr \in Nat
    BY <1>5 DEF Row
  <2>2. QED
    BY <1>4, <1>5, <2>1 DEF IInv, InThePast
<1>11. RowsDiffer'
  BY <1>3, <1>5, <1>10 DEF IInv, RowsDiffer
<1>12. Linked'
  <2>1. ASSUME NEW r \in log' PROVE Follows(r, {q \in log' : q.nr < r.nr})
    <3>1. CASE r = row
      <4>1. {q \in log' : q.nr < r.nr} = Kept(c)
        BY <1>3, <1>4, <1>5, <3>1 DEF Row
      <4>2. QED
        BY <1>4, <3>1, <4>1
    <3>2. CASE r \in Kept(c)
      <4>1. ~(row.nr < r.nr)
        BY <1>4, <1>5, <3>2 DEF Row
      <4>2. {q \in log' : q.nr < r.nr} = Earlier(r) \cap Kept(c)
        BY <1>3, <1>5, <4>1 DEF Earlier
      <4>3. QED
        BY <3>2, <4>2, KeptFollows
    <3>3. QED
      BY <1>3, <3>1, <3>2
  <2>2. QED
    BY <2>1 DEF Linked, Follows, Earlier
<1>13. HasLatest'
  <2> DEFINE Old(k) == {q \in Kept(c) : q.at < k}
             New(k) == {q \in log' : q.at < k}
  <2>1. SUFFICES ASSUME NEW k \in Nat, New(k) # {}
                 PROVE  \E p \in New(k) : \A q \in New(k) : q.at <= p.at
    BY DEF HasLatest, Expired
  <2>2. New(k) = Old(k) \cup {q \in {row} : q.at < k}
    BY <1>3
  <2>3. \A q \in Old(k) \cup {row} : q.at \in Nat
    BY <1>5 DEF Row
  <2>4. CASE Old(k) = {}
    BY <2>1, <2>2, <2>3, <2>4
  <2>5. CASE Old(k) # {}
    <3>1. PICK p \in Expired(k) : \A q \in Expired(k) : q.at <= p.at
      BY <1>5, <2>5 DEF IInv, HasLatest, Expired
    <3>2. PICK q \in Old(k) : q \in Expired(k) /\ ~(q.at < c)
      BY <1>5, <2>5 DEF Kept, Expired
    <3>3. p \in log /\ p.at \in Nat /\ q.at \in Nat /\ q.at <= p.at
      BY <1>5, <3>1, <3>2 DEF Expired, Row
    <3>4. p \in Old(k)
      BY <3>1, <3>2, <3>3 DEF Kept, Expired
    <3>5. \A s \in Old(k) : s.at <= p.at
      BY <1>5, <3>1 DEF Expired
    <3>6. CASE row.at < k /\ p.at < row.at
      <4>1. row \in New(k)
        BY <2>2, <3>6
      <4>2. \A s \in New(k) : s.at <= row.at
        BY <2>2, <2>3, <3>4, <3>5, <3>6
      <4>3. QED
        BY <4>1, <4>2
    <3>7. CASE ~(row.at < k /\ p.at < row.at)
      <4>1. \A s \in New(k) : s.at <= p.at
        BY <2>2, <2>3, <3>4, <3>5, <3>7
      <4>2. QED
        BY <2>2, <3>4, <4>1
    <3>8. QED
      BY <3>6, <3>7
  <2>6. QED
    BY <2>4, <2>5
<1>14. OneWrites' /\ RowsWritten'
  <2>1. \A v \in Writer : tx'[v].phase # "written"
    BY <1>3, <1>7, <1>8 DEF IInv, OneWrites
  <2>2. QED
    BY <2>1 DEF OneWrites, RowsWritten
<1>15. InThePast'
  <2>1. \A v \in InFlight' : v \in InFlight /\ v # w /\ tx'[v] = tx[v]
    BY <1>7, <1>8 DEF InFlight
  <2>2. row.at <= clock
    BY <1>4, <1>5 DEF IInv, InThePast
  <2>3. \A v \in InFlight' : tx'[v].at # row.at
    BY <1>4, <1>5, <2>1 DEF IInv, InThePast
  <2>4. \A r \in log' : r.at <= clock' /\ r.nr <= appended'
    BY <1>3, <1>4, <1>5, <2>2 DEF IInv, InThePast
  <2>5. \A v \in InFlight', r \in log' : tx'[v].at # r.at
    BY <1>3, <1>5, <2>1, <2>3 DEF IInv, InThePast
  <2>6. QED
    BY <1>3, <2>1, <2>4, <2>5 DEF IInv, InThePast
<1>16. Retained'
  <2>1. \A v \in InFlight' : v \in InFlight /\ tx'[v] = tx[v]
    BY <1>7, <1>8 DEF InFlight
  <2>2. \A v \in Writer : tx'[v].phase = "begun" => tx'[v].cutoff = 0
    BY <1>7, <1>8 DEF IInv, Retained
  <2>3. QED
    BY <2>1, <2>2 DEF IInv, Retained
<1>17. QED
  BY <1>9, <1>11, <1>12, <1>13, <1>14, <1>15, <1>16 DEF IInv
-----------------------------------------------------------------------------
\* Every step of every transaction keeps the invariant.
LEMMA AnyStep ==
  ASSUME IInv, [Next]_vars
  PROVE  IInv'
<1>1. ASSUME NEW w \in Writer, Begin(w) PROVE IInv'
  <2>1. \A v \in InFlight : 0 <= tx[v].at
    BY DEF InFlight, IInv, TypeOK, Transaction
  <2>2. 0 <= clock
    BY DEF IInv, TypeOK
  <2>3. QED
    BY <1>1, <2>1, <2>2, StartStep DEF Begin
<1>2. ASSUME NEW w \in Writer, NEW cutoff \in 1..clock, PurgeBegin(w, cutoff) PROVE IInv'
  <2>1. cutoff \in Nat /\ cutoff <= clock
    BY DEF IInv, TypeOK
  <2>2. QED
    BY <1>2, <2>1, StartStep DEF PurgeBegin
<1>3. ASSUME NEW w \in Writer, InsertRecord(w) PROVE IInv'
  <2>1. tx[w].cutoff = 0
    BY <1>3 DEF InsertRecord, IInv, Retained
  <2>2. Kept(0) = log
    BY DEF Kept, Expired, IInv, TypeOK, Row
  <2>3. WriteRow(w, Kept(tx[w].cutoff))
    BY <1>3, <2>1, <2>2 DEF InsertRecord
  <2>4. QED
    BY <1>3, <2>3, WriteStep DEF InsertRecord
<1>4. ASSUME NEW w \in Writer, PurgeCount(w) PROVE IInv'
  <2>1. Idle \in Transaction /\ Idle.phase = "idle"
    BY DEF Idle, Transaction, NoRow, Row, NoHash
  <2>2. CASE Expired(tx[w].cutoff) = {}
    BY <1>4, <2>1, <2>2, QuietStep DEF PurgeCount, Finish
  <2>3. CASE Expired(tx[w].cutoff) # {}
    <3> DEFINE old == Expired(tx[w].cutoff)
               t == [tx[w] EXCEPT !.phase = "counted", !.boundary = Latest(old)]
    <3>1. tx[w] \in Transaction /\ tx[w].cutoff \in Nat /\ old \subseteq Row
      BY DEF IInv, TypeOK, Transaction, Expired
    <3>2. Latest(old) \in Nat
      <4>1. PICK p \in old : \A q \in old : q.at <= p.at
        BY <2>3, <3>1 DEF IInv, HasLatest
      <4>2. Latest(old) = p.at /\ p.at \in Nat
        BY <3>1, <4>1, LatestIs DEF Row
      <4>3. QED
        BY <4>2
    <3>3. t \in Transaction
      BY <3>1, <3>2 DEF Transaction
    <3>4. t.phase = "counted" /\ t.at = tx[w].at /\ t.cutoff = tx[w].cutoff
      BY <3>1 DEF Transaction
    <3>5. tx' = [tx EXCEPT ![w] = t] /\ tx[w].phase # "idle"
      BY <1>4, <2>3 DEF PurgeCount, IInv, TypeOK
    <3> HIDE DEF t
    <3>6. QED
      BY <1>4, <3>3, <3>4, <3>5, QuietStep DEF PurgeCount
  <2>4. QED
    BY <2>2, <2>3
<1>5. ASSUME NEW w \in Writer, PurgeWrite(w) PROVE IInv'
  BY <1>5, WriteStep DEF PurgeWrite
<1>6. ASSUME NEW w \in Writer, Rollback(w) PROVE IInv'
  <2>1. Idle \in Transaction /\ Idle.phase = "idle"
    BY DEF Idle, Transaction, NoRow, Row, NoHash
  <2>2. QED
    BY <1>6, <2>1, QuietStep DEF Rollback, Finish
<1>7. CASE UNCHANGED vars
  BY <1>7 DEF vars, IInv, TypeOK, Linked, HasLatest, OneWrites, RowsDiffer, InThePast,
              Retained, RowsWritten, InFlight, Follows, Earlier, Kept, Expired
<1>8. QED
  BY <1>1, <1>2, <1>3, <1>4, <1>5, <1>6, <1>7, CommitStep DEF Next, DatabaseStep

\* The chain's invariant, whatever transactions overlap, fail and purge.
THEOREM ChainInvariance == Spec => []IInv
BY InitiallyOK, AnyStep, PTL DEF Spec

\* Type correctness of the trail and of the transactions on it.
THEOREM ChainTypeCorrect == Spec => []TypeOK
BY ChainInvariance, PTL DEF IInv

\* Every row but the one that begins the trail has a predecessor.
LEMMA GenesisIsFirst ==
  ASSUME IInv
  PROVE  OneGenesis
<1>1. SUFFICES ASSUME NEW r \in log, NEW q \in log, r.prev = NoHash, q.prev = NoHash
               PROVE  r = q
  BY DEF OneGenesis
<1>2. \A p \in log : p.at \in Nat \ {0} /\ p.nr \in Nat
  BY DEF IInv, TypeOK, Row
<1>3. ASSUME NEW p \in log, p.prev = NoHash PROVE Earlier(p) = {}
  BY <1>2, <1>3 DEF IInv, Linked, Follows, Earlier, NoHash
<1>4. ~(r.nr < q.nr) /\ ~(q.nr < r.nr)
  BY <1>1, <1>3 DEF Earlier
<1>5. QED
  BY <1>2, <1>4 DEF IInv, RowsDiffer

\* The lock gives the trail one beginning: no two transactions both find it
\* empty, and a purge that removes every row starts it again.
THEOREM TrailHasOneGenesis == Spec => []OneGenesis
BY ChainInvariance, GenesisIsFirst, PTL

\* verify-audit-chain.js finds no break in a trail chained in order.
LEMMA InOrderVerifies ==
  ASSUME IInv
  PROVE  IntactVerifies
<1>1. SUFFICES ASSUME InOrder, NEW r \in log, Before(r) # {}
               PROVE  r.prev = Latest(Before(r))
  BY DEF IntactVerifies, Broken
<1>2. \A q \in log : q.at \in Nat /\ q.nr \in Nat
  BY DEF IInv, TypeOK, Row
<1>3. Before(r) = Earlier(r)
  BY <1>1, <1>2 DEF Before, Earlier, InOrder, IInv, RowsDiffer
<1>4. PICK p \in Before(r) : r.prev = p.at /\ \A q \in Before(r) : q.at <= p.at
  BY <1>1, <1>3 DEF IInv, Linked, Follows
<1>5. Before(r) \subseteq Row
  BY DEF Before, IInv, TypeOK
<1>6. QED
  BY <1>4, <1>5, LatestIs

\* A trail whose rows were chained in the order of their created_at verifies,
\* whatever transactions overlapped, failed and purged: the script raises no
\* false alarm about it.
THEOREM InOrderTrailVerifies == Spec => []IntactVerifies
BY ChainInvariance, InOrderVerifies, PTL

-----------------------------------------------------------------------------
(***************************************************************************)
(* JobQueue: retries end                                                   *)
(***************************************************************************)

ProcessingRow == [phase : {"idle", "start", "run", "complete", "fail"}, rows : Counts]

JobsTyped ==
  /\ jobs \in Seq(Job)
  /\ processing \in [Processor -> ProcessingRow]
  /\ \A p \in Processor :
       /\ processing[p].phase = "idle" <=> InHand(p) = {}
       /\ InHand(p) \subseteq DOMAIN jobs
  /\ processings \in Nat /\ jobsOverlap \in BOOLEAN

\* The row that the request is working on has been started.
Started(p, i) == processing[p].phase # "start" /\ i = Current(p)

\* As long as requests do not overlap: there is one, its counts are those of the
\* rows but for the job it has started, and what is queued may be started.
RetriesCounted ==
  /\ \A p, q \in Processor :
       processing[p].phase # "idle" /\ processing[q].phase # "idle" => p = q
  /\ \A p \in Processor : \A i \in InHand(p) :
       /\ processing[p].rows[i] < MaxAttempts
       /\ ~Started(p, i) => jobs[i].attempts = processing[p].rows[i]
       /\ Started(p, i) => jobs[i].attempts = processing[p].rows[i] + 1
  /\ \A i \in DOMAIN jobs :
       /\ jobs[i].attempts <= MaxAttempts
       /\ jobs[i].status = "queued" => jobs[i].attempts < MaxAttempts

JobsIInv == JobsTyped /\ (~jobsOverlap => RetriesCounted)

\* Counts of no row.
LEMMA IdleProcessor ==
  /\ NotProcessing \in ProcessingRow /\ NotProcessing.phase = "idle"
  /\ DOMAIN NotProcessing.rows = {}
<1>1. <<>> \in [{} -> Nat]
  OBVIOUS
<1>2. <<>> \in Counts
  BY <1>1, FunctionsAreCounts
<1>3. QED
  BY <1>1, <1>2 DEF NotProcessing, ProcessingRow

\* A request in flight works on one of its rows.
LEMMA CurrentInHand ==
  ASSUME JobsTyped, NEW p \in Processor, processing[p].phase # "idle"
  PROVE  /\ Current(p) \in InHand(p) /\ Current(p) \in DOMAIN jobs
         /\ processing[p].rows[Current(p)] \in Nat
<1>1. processing[p] \in ProcessingRow
  BY DEF JobsTyped
<1>2. processing[p].rows \in Counts
  BY <1>1 DEF ProcessingRow
<1>3. InHand(p) \subseteq Nat /\ InHand(p) # {}
  BY <1>2, CountsAreFunctions DEF InHand, JobsTyped
<1>4. QED
  BY <1>2, <1>3, MinIsLeast, CountsAreFunctions DEF Current, InHand, JobsTyped

\* An UPDATE of one row.
LEMMA RowWritten ==
  ASSUME NEW s \in Seq(Job), NEW i \in DOMAIN s, NEW row \in Job
  PROVE  LET t == [s EXCEPT ![i] = row] IN
         /\ t \in Seq(Job) /\ DOMAIN t = DOMAIN s /\ t[i] = row
         /\ \A k \in DOMAIN s : k # i => t[k] = s[k]
OBVIOUS

\* The queue is empty and nothing is in flight at first.
LEMMA JobsInitially == JobsInit => JobsIInv
<1> SUFFICES ASSUME JobsInit PROVE JobsIInv
  OBVIOUS
<1>1. JobsTyped
  <2>1. jobs = <<>> /\ <<>> \in Seq(Job)
    BY DEF JobsInit
  <2>2. \A p \in Processor : processing[p] = NotProcessing
    BY DEF JobsInit
  <2>3. processing \in [Processor -> ProcessingRow] /\ processings = 0 /\ jobsOverlap = FALSE
    BY IdleProcessor DEF JobsInit
  <2>4. QED
    BY <2>1, <2>2, <2>3, IdleProcessor DEF JobsTyped, InHand
<1>2. RetriesCounted
  BY IdleProcessor DEF JobsInit, RetriesCounted, InHand
<1>3. QED
  BY <1>1, <1>2 DEF JobsIInv

\* A job is enqueued, and has not been attempted.
LEMMA EnqueueJobStep ==
  ASSUME JobsIInv, NEW due \in BOOLEAN, EnqueueJob(due)
  PROVE  JobsIInv'
<1> DEFINE job == [status |-> "queued", due |-> due, attempts |-> 0]
<1>1. /\ jobs' = Append(jobs, job) /\ UNCHANGED <<processing, processings, jobsOverlap>>
      /\ job \in Job /\ job.attempts = 0 /\ jobs \in Seq(Job)
  BY DEF EnqueueJob, Job, JobsIInv, JobsTyped
<1> HIDE DEF job
<1>2. /\ jobs' \in Seq(Job) /\ DOMAIN jobs \subseteq DOMAIN jobs'
      /\ \A i \in DOMAIN jobs : jobs'[i] = jobs[i]
      /\ \A i \in DOMAIN jobs' \ DOMAIN jobs : jobs'[i] = job
  BY <1>1
<1>3. JobsTyped'
  BY <1>1, <1>2 DEF JobsIInv, JobsTyped, InHand
<1>4. ASSUME RetriesCounted PROVE RetriesCounted'
  <2>1. \A p \in Processor : \A i \in InHand(p) : i \in DOMAIN jobs
    BY DEF JobsIInv, JobsTyped
  <2>2. \A i \in DOMAIN jobs' : /\ jobs'[i].attempts <= MaxAttempts
                                /\ jobs'[i].status = "queued" => jobs'[i].attempts < MaxAttempts
    BY <1>1, <1>2, <1>4, JobParameters DEF RetriesCounted
  <2>3. QED
    BY <1>1, <1>2, <1>4, <2>1, <2>2 DEF RetriesCounted, Started, InHand, Current
<1>5. QED
  BY <1>1, <1>3, <1>4 DEF JobsIInv

\* A job that waits comes due.
LEMMA JobComesDueStep ==
  ASSUME JobsIInv, NEW i \in DOMAIN jobs, JobComesDue(i)
  PROVE  JobsIInv'
<1> DEFINE row == [jobs[i] EXCEPT !.due = TRUE]
<1>1. /\ jobs' = [jobs EXCEPT ![i] = row] /\ UNCHANGED <<processing, processings, jobsOverlap>>
      /\ jobs \in Seq(Job) /\ jobs[i] \in Job
  BY DEF JobComesDue, JobsIInv, JobsTyped
<1>2. row \in Job /\ row.status = jobs[i].status /\ row.attempts = jobs[i].attempts
  BY <1>1 DEF Job
<1> HIDE DEF row
<1>3. /\ jobs' \in Seq(Job) /\ DOMAIN jobs' = DOMAIN jobs
      /\ \A k \in DOMAIN jobs : /\ jobs'[k].status = jobs[k].status
                                /\ jobs'[k].attempts = jobs[k].attempts
  BY <1>1, <1>2, RowWritten
<1>4. JobsTyped'
  BY <1>1, <1>3 DEF JobsIInv, JobsTyped, InHand
<1>5. ASSUME RetriesCounted PROVE RetriesCounted'
  <2>1. \A p \in Processor : \A k \in InHand(p) : k \in DOMAIN jobs
    BY DEF JobsIInv, JobsTyped
  <2>2. QED
    BY <1>1, <1>3, <1>5, <2>1 DEF RetriesCounted, Started, InHand, Current
<1>6. QED
  BY <1>1, <1>4, <1>5 DEF JobsIInv

\* A request reads the jobs that are queued, with their attempts.
LEMMA ReadQueueStep ==
  ASSUME JobsIInv, NEW p \in Processor, NEW limit \in 1 .. BatchLimit, ReadQueue(p, limit)
  PROVE  JobsIInv'
<1> DEFINE rows == [i \in Batch(limit) |-> jobs[i].attempts]
           w == [phase |-> "start", rows |-> rows]
<1>1. /\ processing[p].phase = "idle" /\ Ready # {} /\ UNCHANGED jobs
      /\ processing' = [processing EXCEPT ![p] = w]
      /\ processings' = processings + 1 /\ jobsOverlap' \in BOOLEAN
      /\ ~jobsOverlap' => ~jobsOverlap /\ \A q \in Processor : processing[q].phase = "idle"
  BY DEF ReadQueue
<1>2. /\ Batch(limit) \subseteq Ready /\ Ready \subseteq DOMAIN jobs
      /\ \A i \in Ready : jobs[i].status = "queued"
  BY DEF Batch, Ready
<1>3. jobs \in Seq(Job) /\ DOMAIN jobs \subseteq Nat /\ \A i \in DOMAIN jobs : jobs[i] \in Job
  BY DEF JobsIInv, JobsTyped
<1>4. Batch(limit) # {}
  <2>1. Min(Ready) \in Ready /\ \A i \in Ready : Min(Ready) <= i
    BY <1>1, <1>2, <1>3, MinIsLeast
  <2>2. {k \in Ready : k < Min(Ready)} = {}
    BY <1>2, <1>3, <2>1
  <2>3. Cardinality({k \in Ready : k < Min(Ready)}) = 0
    BY <2>2, FS_EmptySet
  <2>4. QED
    BY <2>1, <2>3, JobParameters DEF Batch
<1>5. w \in ProcessingRow /\ w.phase = "start" /\ w.rows = rows
  <2>1. rows \in [Batch(limit) -> Nat] /\ Batch(limit) \subseteq Nat
    BY <1>2, <1>3 DEF Job
  <2>2. rows \in Counts
    BY <2>1, FunctionsAreCounts
  <2>3. QED
    BY <2>2 DEF ProcessingRow
<1>6. DOMAIN rows = Batch(limit) /\ \A i \in Batch(limit) : rows[i] = jobs[i].attempts
  OBVIOUS
<1> HIDE DEF w, rows
<1>7. \A q \in Processor : processing'[q] = IF q = p THEN w ELSE processing[q]
  BY <1>1 DEF JobsIInv, JobsTyped
<1>8. JobsTyped'
  BY <1>1, <1>2, <1>4, <1>5, <1>6, <1>7 DEF JobsIInv, JobsTyped, InHand
<1>9. ASSUME ~jobsOverlap' PROVE RetriesCounted'
  <2>1. RetriesCounted /\ \A q \in Processor : processing[q].phase = "idle"
    BY <1>1, <1>9 DEF JobsIInv
  <2>2. ASSUME NEW q \in Processor, NEW i \in InHand(q)'
        PROVE  q = p /\ i \in Batch(limit)
    BY <1>5, <1>6, <1>7, <2>1 DEF InHand, JobsIInv, JobsTyped
  <2>3. QED
    BY <1>1, <1>2, <1>5, <1>6, <1>7, <2>1, <2>2 DEF RetriesCounted, Started
<1>10. QED
  BY <1>8, <1>9 DEF JobsIInv

\* A request writes the row it is working on, and stays at it.
LEMMA RowStep ==
  ASSUME JobsIInv, NEW p \in Processor, StartJob(p) \/ RunJob(p)
  PROVE  JobsIInv'
<1> DEFINE i == Current(p)
<1>1. PICK phase \in {"run", "complete", "fail"} :
        /\ processing' = [processing EXCEPT ![p].phase = phase]
        /\ StartJob(p) => phase = "run"
  BY DEF StartJob, RunJob, Proceed
<1>2. processing[p].phase # "idle" /\ UNCHANGED <<processings, jobsOverlap>>
  BY DEF StartJob, RunJob
<1>3. i \in InHand(p) /\ i \in DOMAIN jobs /\ processing[p].rows[i] \in Nat
  BY <1>2, CurrentInHand DEF JobsIInv
<1>4. jobs \in Seq(Job) /\ jobs[i] \in Job /\ processing \in [Processor -> ProcessingRow]
  BY <1>3 DEF JobsIInv, JobsTyped
<1>5. /\ processing' \in [Processor -> ProcessingRow]
      /\ processing'[p].phase = phase
      /\ \A q \in Processor \ {p} : processing'[q] = processing[q]
      /\ \A q \in Processor : processing'[q].rows = processing[q].rows
  BY <1>1, <1>4 DEF ProcessingRow
<1>6. \A q \in Processor : InHand(q)' = InHand(q) /\ Current(q)' = Current(q)
  BY <1>5 DEF InHand, Current
<1> DEFINE row == [jobs[i] EXCEPT !.status = "running", !.attempts = jobs[i].attempts + 1]
<1>7. row \in Job /\ row.status = "running" /\ row.attempts = jobs[i].attempts + 1
  <2>1. jobs[i].attempts \in Nat /\ jobs[i].attempts + 1 \in Nat
    BY <1>4 DEF Job
  <2>2. QED
    BY <1>4, <2>1 DEF Job
<1>8. StartJob(p) => jobs' = [jobs EXCEPT ![i] = row]
  BY <1>3, <1>4 DEF StartJob, Job
<1> HIDE DEF row
<1>9. /\ jobs' \in Seq(Job) /\ DOMAIN jobs' = DOMAIN jobs
      /\ \A k \in DOMAIN jobs : k # i => jobs'[k] = jobs[k]
      /\ StartJob(p) => /\ processing[p].phase = "start" /\ jobs'[i].status = "running"
                        /\ jobs'[i].attempts = jobs[i].attempts + 1
      /\ ~StartJob(p) => processing[p].phase = "run" /\ jobs' = jobs
  <2>1. CASE StartJob(p)
    BY <1>3, <1>4, <1>7, <1>8, <2>1, RowWritten DEF StartJob
  <2>2. CASE ~StartJob(p)
    BY <1>4, <2>2 DEF RunJob
  <2>3. QED
    BY <2>1, <2>2
<1>10. JobsTyped'
  BY <1>2, <1>5, <1>6, <1>9 DEF JobsIInv, JobsTyped
<1> HIDE DEF i
<1>11. ASSUME RetriesCounted PROVE RetriesCounted'
  <2>1. \A q \in Processor \ {p} : processing[q].phase = "idle" /\ InHand(q) = {}
    BY <1>2, <1>11 DEF RetriesCounted, JobsIInv, JobsTyped
  <2>2. \A k \in InHand(p) : Started(p, k)' <=> k = i
    BY <1>5, <1>6 DEF Started, i
  <2>3. \A k \in InHand(p) : Started(p, k) <=> k = i /\ ~StartJob(p)
    BY <1>9 DEF Started, i
  <2>4. InHand(p) \subseteq DOMAIN jobs
    BY DEF JobsIInv, JobsTyped
  <2>5. ASSUME NEW k \in InHand(p)
        PROVE  /\ processing'[p].rows[k] < MaxAttempts
               /\ ~Started(p, k)' => jobs'[k].attempts = processing'[p].rows[k]
               /\ Started(p, k)' => jobs'[k].attempts = processing'[p].rows[k] + 1
    BY <1>5, <1>9, <1>11, <2>2, <2>3, <2>4 DEF RetriesCounted
  <2>6. ASSUME NEW k \in DOMAIN jobs
        PROVE  /\ jobs'[k].attempts <= MaxAttempts
               /\ jobs'[k].status = "queued" => jobs'[k].attempts < MaxAttempts
    <3>1. CASE k = i /\ StartJob(p)
      <4>1. jobs[i].attempts = processing[p].rows[i] /\ processing[p].rows[i] < MaxAttempts
        BY <1>3, <1>11, <2>3, <3>1 DEF RetriesCounted, i
      <4>2. QED
        BY <1>3, <1>9, <3>1, <4>1, JobParameters DEF i
    <3>2. CASE ~(k = i /\ StartJob(p))
      BY <1>9, <1>11, <3>2 DEF RetriesCounted
    <3>3. QED
      BY <3>1, <3>2
  <2>7. QED
    BY <1>5, <1>6, <1>9, <2>1, <2>5, <2>6 DEF RetriesCounted
<1>12. QED
  BY <1>2, <1>10, <1>11 DEF JobsIInv

\* What is left of a batch when its first row is done.
LEMMA NextJobRow ==
  ASSUME JobsTyped, NEW p \in Processor, processing[p].phase # "idle", NextJob(p)
  PROVE  \E w \in ProcessingRow :
           /\ processing' = [processing EXCEPT ![p] = w]
           /\ DOMAIN w.rows = InHand(p) \ {Current(p)}
           /\ \A i \in DOMAIN w.rows : w.rows[i] = processing[p].rows[i]
           /\ w.phase \in {"idle", "start"} /\ (w.phase = "idle" <=> DOMAIN w.rows = {})
<1> DEFINE rest == InHand(p) \ {Current(p)}
           rows == [i \in rest |-> processing[p].rows[i]]
           more == [phase |-> "start", rows |-> rows]
<1>1. processing' = [processing EXCEPT ![p] = IF rest = {} THEN NotProcessing ELSE more]
  BY DEF NextJob
<1>2. processing[p].rows \in Counts
  BY DEF JobsTyped, ProcessingRow
<1>3. rows \in Counts /\ DOMAIN rows = rest /\ \A i \in rest : rows[i] = processing[p].rows[i]
  BY <1>2, CountsAreFunctions DEF InHand
<1> HIDE DEF rows
<1>4. more \in ProcessingRow /\ more.phase = "start" /\ more.rows = rows
  BY <1>3 DEF ProcessingRow
<1> HIDE DEF more, rest
<1>5. CASE rest = {}
  BY <1>1, <1>5, IdleProcessor DEF rest
<1>6. CASE rest # {}
  BY <1>1, <1>3, <1>4, <1>6 DEF rest
<1>7. QED
  BY <1>5, <1>6

\* A job is written down as completed, failed or to be tried again, and the loop
\* goes on.
LEMMA JobEndsStep ==
  ASSUME JobsIInv, NEW p \in Processor, CompleteJob(p) \/ RecordFailure(p)
  PROVE  JobsIInv'
<1>1. /\ processing[p].phase \in {"complete", "fail"} /\ NextJob(p)
      /\ UNCHANGED <<processings, jobsOverlap>>
  BY DEF CompleteJob, RecordFailure
<1>2. PICK i : i = Current(p)
  OBVIOUS
<1>3. i \in InHand(p) /\ i \in DOMAIN jobs /\ processing[p].rows[i] \in Nat
  BY <1>1, <1>2, CurrentInHand DEF JobsIInv
<1>4. jobs \in Seq(Job) /\ jobs[i] \in Job /\ processing \in [Processor -> ProcessingRow]
  BY <1>3 DEF JobsIInv, JobsTyped
<1>5. PICK w \in ProcessingRow :
        /\ processing' = [processing EXCEPT ![p] = w]
        /\ DOMAIN w.rows = InHand(p) \ {i}
        /\ \A k \in DOMAIN w.rows : w.rows[k] = processing[p].rows[k]
        /\ w.phase \in {"idle", "start"} /\ (w.phase = "idle" <=> DOMAIN w.rows = {})
  BY <1>1, <1>2, NextJobRow DEF JobsIInv
<1>6. \A q \in Processor : processing'[q] = IF q = p THEN w ELSE processing[q]
  BY <1>4, <1>5
<1>7. PICK row \in Job :
        /\ jobs' = [jobs EXCEPT ![i] = row] /\ row.attempts = jobs[i].attempts
        /\ row.status = "queued" => processing[p].rows[i] + 1 < MaxAttempts
  <2>1. CASE CompleteJob(p)
    <3> DEFINE row == [jobs[i] EXCEPT !.status = "completed"]
    <3>1. row \in Job /\ row.attempts = jobs[i].attempts /\ row.status # "queued"
      BY <1>4 DEF Job
    <3>2. jobs' = [jobs EXCEPT ![i] = row]
      BY <1>2, <2>1 DEF CompleteJob
    <3>3. QED
      BY <3>1, <3>2
  <2>2. CASE RecordFailure(p)
    <3> DEFINE next == AfterFailure(processing[p].rows[i])
               due == IF next = "queued" THEN FALSE ELSE jobs[i].due
               row == [jobs[i] EXCEPT !.status = next, !.due = due]
    <3>1. next \in {"queued", "failed"} /\ (next = "queued" => processing[p].rows[i] + 1 < MaxAttempts)
      BY <1>3, JobParameters DEF AfterFailure
    <3>2. jobs' = [jobs EXCEPT ![i] = row]
      BY <1>2, <1>3, <1>4, <2>2 DEF RecordFailure, Job
    <3> HIDE DEF next
    <3>3. due \in BOOLEAN
      BY <1>4 DEF Job
    <3> HIDE DEF due
    <3>4. row \in Job /\ row.attempts = jobs[i].attempts /\ row.status = next
      BY <1>4, <3>1, <3>3 DEF Job
    <3>5. QED
      BY <3>1, <3>2, <3>4
  <2>3. QED
    BY <2>1, <2>2
<1>8. /\ jobs' \in Seq(Job) /\ DOMAIN jobs' = DOMAIN jobs /\ jobs'[i] = row
      /\ \A k \in DOMAIN jobs : k # i => jobs'[k] = jobs[k]
  BY <1>3, <1>4, <1>7, RowWritten
<1>9. JobsTyped'
  <2>1. processing' \in [Processor -> ProcessingRow]
    BY <1>4, <1>5
  <2>2. \A q \in Processor : /\ processing'[q].phase = "idle" <=> DOMAIN processing'[q].rows = {}
                            /\ DOMAIN processing'[q].rows \subseteq DOMAIN jobs
    BY <1>5, <1>6 DEF JobsIInv, JobsTyped, InHand
  <2>3. QED
    BY <1>1, <1>8, <2>1, <2>2 DEF JobsIInv, JobsTyped, InHand
<1>10. ASSUME RetriesCounted PROVE RetriesCounted'
  <2>1. \A q \in Processor \ {p} : processing[q].phase = "idle" /\ InHand(q) = {}
    BY <1>1, <1>10 DEF RetriesCounted, JobsIInv, JobsTyped
  <2>2. \A q \in Processor \ {p} : processing'[q].phase = "idle" /\ InHand(q)' = {}
    BY <1>6, <2>1 DEF InHand
  <2>3. /\ InHand(p)' = InHand(p) \ {i} /\ InHand(p) \subseteq DOMAIN jobs
        /\ \A k \in InHand(p)' : ~Started(p, k)' /\ ~Started(p, k)
    BY <1>2, <1>5, <1>6 DEF InHand, Started, JobsIInv, JobsTyped
  <2>4. \A k \in InHand(p)' : /\ processing'[p].rows[k] < MaxAttempts
                             /\ jobs'[k].attempts = processing'[p].rows[k]
    BY <1>5, <1>6, <1>8, <1>10, <2>3 DEF RetriesCounted
  <2>5. jobs[i].attempts = processing[p].rows[i] + 1
    BY <1>1, <1>2, <1>3, <1>10 DEF RetriesCounted, Started
  <2>6. \A k \in DOMAIN jobs' :
          /\ jobs'[k].attempts <= MaxAttempts
          /\ jobs'[k].status = "queued" => jobs'[k].attempts < MaxAttempts
    BY <1>3, <1>7, <1>8, <1>10, <2>5 DEF RetriesCounted
  <2>7. QED
    BY <2>2, <2>3, <2>4, <2>6 DEF RetriesCounted
<1>11. QED
  BY <1>1, <1>9, <1>10 DEF JobsIInv

\* A request ends with rows in hand: they stay as they are.
LEMMA ProcessingStopsStep ==
  ASSUME JobsIInv, NEW p \in Processor, FailureRefused(p) \/ ProcessorDies(p)
  PROVE  JobsIInv'
<1>1. /\ processing' = [processing EXCEPT ![p] = NotProcessing]
      /\ UNCHANGED <<jobs, processings, jobsOverlap>>
  BY DEF FailureRefused, ProcessorDies, StopProcessing
<1>2. \A q \in Processor : processing'[q] = IF q = p THEN NotProcessing ELSE processing[q]
  BY <1>1 DEF JobsIInv, JobsTyped
<1>3. JobsTyped'
  BY <1>1, <1>2, IdleProcessor DEF JobsIInv, JobsTyped, InHand
<1>4. ASSUME RetriesCounted PROVE RetriesCounted'
  <2>1. InHand(p)' = {} /\ \A q \in Processor \ {p} : processing'[q] = processing[q]
    BY <1>2, IdleProcessor DEF InHand
  <2>2. QED
    BY <1>1, <1>2, <1>4, <2>1, IdleProcessor DEF RetriesCounted, Started, InHand, Current
<1>5. QED
  BY <1>1, <1>3, <1>4 DEF JobsIInv

\* Every step keeps the invariant.
LEMMA JobsStep == JobsIInv /\ [JobsNext]_jobVars => JobsIInv'
<1> SUFFICES ASSUME JobsIInv, [JobsNext]_jobVars PROVE JobsIInv'
  OBVIOUS
<1>1. CASE UNCHANGED jobVars
  BY <1>1 DEF jobVars, JobsIInv, JobsTyped, RetriesCounted, Started, InHand, Current
<1>2. QED
  BY <1>1, EnqueueJobStep, JobComesDueStep, ReadQueueStep, RowStep, JobEndsStep,
     ProcessingStopsStep DEF JobsNext, ProcessorStep

\* The invariant holds of every state.
LEMMA JobsInvariance == JobsSpec => []JobsIInv
BY JobsInitially, JobsStep, PTL DEF JobsSpec

\* A job is started no more often than max_attempts says, for every number of jobs
\* and attempts, as long as requests do not overlap.
THEOREM RetriesAreBounded == JobsSpec => []RetriesEnd
<1>1. JobsIInv => RetriesEnd
  BY DEF JobsIInv, RetriesCounted, RetriesEnd
<1>2. QED
  BY <1>1, JobsInvariance, PTL

\* Type correctness of the queue.
THEOREM JobsTypeCorrect == JobsSpec => []JobsTypeOK
<1>1. JobsIInv => JobsTypeOK
  BY DEF JobsIInv, JobsTyped, JobsTypeOK, ProcessingRow
<1>2. QED
  BY <1>1, JobsInvariance, PTL

-----------------------------------------------------------------------------
(***************************************************************************)
(* ReportSweep: reports in one hand, mailed once a period                  *)
(***************************************************************************)

SweepRow ==
  [phase : {"idle", "run", "sent"}, claimed : SUBSET Report,
   current : Report \cup {NoReport}]

Types ==
  /\ nextRun \in [Report -> {"due", "claimed", "scheduled"}]
  /\ sweep \in [Server -> SweepRow]
  /\ \A s \in Server : sweep[s].phase = "idle" <=> sweep[s].claimed = {}
  /\ jobRun \in [phase : {"idle", "run"}, current : Report \cup {NoReport}]
  /\ jobRun.phase = "idle" <=> jobRun.current = NoReport
  /\ mailed \in [Report -> Nat] /\ failures \in Nat /\ jobRuns \in Nat

\* What is in hand is in one server's hand, and is not due.
Apart ==
  /\ \A s, t \in Server : s # t => sweep[s].claimed \cap sweep[t].claimed = {}
  /\ \A s \in Server : \A r \in sweep[s].claimed : nextRun[r] # "due"

\* The report that was sent last, by a sweep that is about to reschedule it.
SentBy(s, r) == sweep[s].phase = "sent" /\ sweep[s].current = r

\* A report whose last mail has not been followed by a reschedule or a failure.
Settled(r) == nextRun[r] = "scheduled" /\ \A s \in Server : r \notin sweep[s].claimed

\* Mails are outnumbered by failures unless the report has just been sent.
Counted ==
  /\ \A s \in Server : sweep[s].phase = "sent" => sweep[s].current \in sweep[s].claimed
  /\ \A r \in Report :
       /\ mailed[r] <= 1 + failures
       /\ mailed[r] <= failures \/ Settled(r) \/ \E s \in Server : SentBy(s, r)

\* The invariant that every step keeps.
ReportsIInv == Types /\ Apart /\ Counted

\* No report is in hand at first.
LEMMA ReportsInitially == ReportsInit => ReportsIInv
<1> SUFFICES ASSUME ReportsInit PROVE ReportsIInv
  OBVIOUS
<1>1. NoSweep \in SweepRow /\ NoSweep.claimed = {} /\ NoSweep.phase = "idle"
  BY DEF NoSweep, SweepRow
<1>2. Types
  BY <1>1 DEF ReportsInit, Types, NoJobRun
<1>3. Apart /\ Counted
  BY <1>1 DEF ReportsInit, Apart, Counted
<1>4. QED
  BY <1>2, <1>3 DEF ReportsIInv
-----------------------------------------------------------------------------
\* A sweep's row is replaced.
LEMMA SweepMoves ==
  ASSUME Types, NEW s \in Server, NEW w \in SweepRow,
         sweep' = [sweep EXCEPT ![s] = w], w.phase = "idle" <=> w.claimed = {}
  PROVE  /\ sweep' \in [Server -> SweepRow]
         /\ \A t \in Server : sweep'[t] = IF t = s THEN w ELSE sweep[t]
         /\ \A t \in Server : sweep'[t].phase = "idle" <=> sweep'[t].claimed = {}
<1>1. QED
  BY DEF Types

\* A sweep claims what is due.
LEMMA ClaimKeeps ==
  ASSUME ReportsIInv, NEW s \in Server, Claim(s)
  PROVE  ReportsIInv'
<1> DEFINE w == [NoSweep EXCEPT !.phase = "run", !.claimed = Due]
<1>1. /\ w \in SweepRow /\ w.phase = "run" /\ w.claimed = Due /\ Due # {}
      /\ sweep' = [sweep EXCEPT ![s] = w] /\ sweep[s].phase = "idle"
      /\ UNCHANGED <<jobRun, mailed, failures, jobRuns>>
  BY DEF Claim, NoSweep, SweepRow, Due
<1> HIDE DEF w
<1>2. \A r \in Report : nextRun'[r] = IF r \in Due THEN "claimed" ELSE nextRun[r]
  BY DEF Claim
<1>3. /\ sweep' \in [Server -> SweepRow]
      /\ \A t \in Server : sweep'[t] = IF t = s THEN w ELSE sweep[t]
      /\ \A t \in Server : sweep'[t].phase = "idle" <=> sweep'[t].claimed = {}
  BY <1>1, SweepMoves DEF ReportsIInv
<1>4. Types'
  <2>1. nextRun' \in [Report -> {"due", "claimed", "scheduled"}]
    BY DEF Claim, ReportsIInv, Types
  <2>2. QED
    BY <1>1, <1>3, <2>1 DEF ReportsIInv, Types
<1>5. \A t \in Server : sweep[t].claimed \cap Due = {}
  BY DEF ReportsIInv, Apart, Due
<1>6. Due \subseteq Report /\ \A r \in Due : nextRun[r] = "due"
  BY DEF Due
<1>7. Apart'
  <2>1. \A t, u \in Server : t # u => sweep'[t].claimed \cap sweep'[u].claimed = {}
    BY <1>1, <1>3, <1>5 DEF ReportsIInv, Apart
  <2>2. ASSUME NEW t \in Server, NEW r \in sweep'[t].claimed PROVE nextRun'[r] # "due"
    <3>1. r \in Report
      BY <1>3 DEF SweepRow
    <3>2. CASE t = s
      BY <1>1, <1>2, <1>3, <2>2, <3>1, <3>2
    <3>3. CASE t # s
      BY <1>2, <1>3, <1>5, <2>2, <3>1, <3>3 DEF ReportsIInv, Apart
    <3>4. QED
      BY <3>2, <3>3
  <2>3. QED
    BY <2>1, <2>2 DEF Apart
<1>8. Counted'
  <2>1. \A t \in Server : sweep'[t].phase = "sent" => sweep'[t].current \in sweep'[t].claimed
    BY <1>1, <1>3 DEF ReportsIInv, Counted
  <2>2. ASSUME NEW r \in Report
        PROVE  mailed[r] <= failures \/ Settled(r)' \/ \E t \in Server : SentBy(t, r)'
    <3>1. CASE \E t \in Server : SentBy(t, r)
      BY <1>1, <1>3, <3>1 DEF SentBy
    <3>2. CASE Settled(r)
      <4>1. r \notin Due /\ nextRun'[r] = "scheduled"
        BY <1>2, <1>6, <3>2 DEF Settled
      <4>2. \A t \in Server : r \notin sweep'[t].claimed
        BY <1>1, <1>3, <3>2, <4>1 DEF Settled
      <4>3. QED
        BY <4>1, <4>2 DEF Settled
    <3>3. QED
      BY <3>1, <3>2 DEF ReportsIInv, Counted
  <2>3. QED
    BY <1>1, <2>1, <2>2 DEF ReportsIInv, Counted
<1>9. QED
  BY <1>4, <1>7, <1>8 DEF ReportsIInv

\* A report is sent, or its sending fails.
LEMMA SendKeeps ==
  ASSUME ReportsIInv, NEW s \in Server, Send(s)
  PROVE  ReportsIInv'
<1>1. PICK r \in sweep[s].claimed, sent \in {0, 1} :
        /\ sweep' = [sweep EXCEPT ![s].phase = "sent", ![s].current = r]
        /\ mailed' = [mailed EXCEPT ![r] = @ + sent]
  BY DEF Send
<1> DEFINE w == [sweep[s] EXCEPT !.phase = "sent", !.current = r]
<1>2. /\ UNCHANGED <<nextRun, jobRun, failures, jobRuns>> /\ sweep[s].phase = "run"
      /\ sweep[s] \in SweepRow /\ r \in Report
  BY DEF Send, ReportsIInv, Types, SweepRow
<1>3. /\ w \in SweepRow /\ w.phase = "sent" /\ w.current = r
      /\ w.claimed = sweep[s].claimed
  BY <1>2 DEF SweepRow
<1>4. sweep' = [sweep EXCEPT ![s] = w]
  BY <1>1 DEF ReportsIInv, Types
<1> HIDE DEF w
<1>5. /\ sweep' \in [Server -> SweepRow]
      /\ \A t \in Server : sweep'[t] = IF t = s THEN w ELSE sweep[t]
      /\ \A t \in Server : sweep'[t].phase = "idle" <=> sweep'[t].claimed = {}
  BY <1>3, <1>4, SweepMoves DEF ReportsIInv
<1>6. \A t \in Server : sweep'[t].claimed = sweep[t].claimed
  BY <1>3, <1>5
<1>7. /\ mailed' \in [Report -> Nat]
      /\ \A q \in Report : mailed'[q] = IF q = r THEN mailed[r] + sent ELSE mailed[q]
  BY <1>1, <1>2 DEF ReportsIInv, Types
<1>8. Types' /\ Apart'
  BY <1>2, <1>5, <1>6, <1>7 DEF ReportsIInv, Types, Apart
<1>9. Counted'
  <2>1. \A t \in Server : sweep'[t].phase = "sent" => sweep'[t].current \in sweep'[t].claimed
    BY <1>3, <1>5 DEF ReportsIInv, Counted
  <2>2. mailed[r] <= failures
    <3>1. ~Settled(r)
      BY DEF Settled
    <3>2. ASSUME NEW t \in Server PROVE ~SentBy(t, r)
      BY <1>2 DEF SentBy, ReportsIInv, Counted, Apart
    <3>3. QED
      BY <1>2, <3>1, <3>2 DEF ReportsIInv, Counted
  <2>3. ASSUME NEW q \in Report
        PROVE  /\ mailed'[q] <= 1 + failures
               /\ mailed'[q] <= failures \/ Settled(q)' \/ \E t \in Server : SentBy(t, q)'
    <3>1. CASE q = r
      <4>1. SentBy(s, r)'
        BY <1>3, <1>5 DEF SentBy
      <4>2. mailed[r] \in Nat /\ failures \in Nat /\ mailed'[r] = mailed[r] + sent
        BY <1>2, <1>7 DEF ReportsIInv, Types
      <4>3. mailed'[r] <= 1 + failures
        BY <2>2, <4>2
      <4>4. QED
        BY <3>1, <4>1, <4>3
    <3>2. CASE q # r
      <4>1. \A t \in Server : SentBy(t, q) => SentBy(t, q)'
        BY <1>2, <1>5 DEF SentBy
      <4>2. Settled(q) => Settled(q)'
        BY <1>2, <1>6 DEF Settled
      <4>3. QED
        BY <1>7, <3>2, <4>1, <4>2 DEF ReportsIInv, Counted
    <3>3. QED
      BY <3>1, <3>2
  <2>4. QED
    BY <1>2, <2>1, <2>3 DEF Counted
<1>10. QED
  BY <1>8, <1>9 DEF ReportsIInv

\* A sweep lets go of reports, and none comes due.
LEMMA LettingGo ==
  ASSUME ReportsIInv, NEW s \in Server, NEW w \in SweepRow,
         sweep' = [sweep EXCEPT ![s] = w], w.phase = "idle" <=> w.claimed = {},
         w.phase # "sent", w.claimed \subseteq sweep[s].claimed,
         nextRun' \in [Report -> {"due", "claimed", "scheduled"}],
         \A r \in Report : nextRun'[r] \in {nextRun[r], "scheduled"},
         failures' \in Nat, UNCHANGED <<jobRun, mailed, jobRuns>>
  PROVE  /\ Types' /\ Apart'
         /\ \A t \in Server : sweep'[t] = IF t = s THEN w ELSE sweep[t]
         /\ \A t \in Server : sweep'[t].phase = "sent" => sweep'[t].current \in sweep'[t].claimed
<1>1. /\ sweep' \in [Server -> SweepRow]
      /\ \A t \in Server : sweep'[t] = IF t = s THEN w ELSE sweep[t]
      /\ \A t \in Server : sweep'[t].phase = "idle" <=> sweep'[t].claimed = {}
  BY SweepMoves DEF ReportsIInv
<1>2. Types'
  BY <1>1 DEF ReportsIInv, Types
<1>3. \A t \in Server : sweep'[t].claimed \subseteq sweep[t].claimed
  BY <1>1
<1>4. Apart'
  <2>1. \A t, u \in Server : t # u => sweep'[t].claimed \cap sweep'[u].claimed = {}
    BY <1>3 DEF ReportsIInv, Apart
  <2>2. ASSUME NEW t \in Server, NEW r \in sweep'[t].claimed PROVE nextRun'[r] # "due"
    <3>1. r \in Report /\ nextRun[r] # "due"
      BY <1>1, <1>3 DEF SweepRow, ReportsIInv, Apart
    <3>2. QED
      BY <3>1
  <2>3. QED
    BY <2>1, <2>2 DEF Apart
<1>5. QED
  BY <1>1, <1>2, <1>4 DEF ReportsIInv, Counted

\* What the loop leaves behind when it goes on.
LEMMA Leaving ==
  ASSUME Types, NEW s \in Server, Leave(s)
  PROVE  \E w \in SweepRow :
           /\ sweep' = [sweep EXCEPT ![s] = w] /\ (w.phase = "idle" <=> w.claimed = {})
           /\ w.phase # "sent" /\ w.claimed = sweep[s].claimed \ {sweep[s].current}
<1> DEFINE rest == sweep[s].claimed \ {sweep[s].current}
           w == IF rest = {} THEN NoSweep
                ELSE [NoSweep EXCEPT !.phase = "run", !.claimed = rest]
<1>1. rest \subseteq Report
  BY DEF Types, SweepRow
<1>2. w \in SweepRow /\ (w.phase = "idle" <=> w.claimed = {}) /\ w.phase # "sent"
      /\ w.claimed = rest
  BY <1>1 DEF NoSweep, SweepRow
<1>3. sweep' = [sweep EXCEPT ![s] = w]
  BY DEF Leave
<1>4. QED
  BY <1>2, <1>3

\* A sent report is rescheduled.
LEMMA RescheduleKeeps ==
  ASSUME ReportsIInv, NEW s \in Server, Reschedule(s)
  PROVE  ReportsIInv'
<1> DEFINE c == sweep[s].current
<1>1. PICK w \in SweepRow :
           /\ sweep' = [sweep EXCEPT ![s] = w] /\ (w.phase = "idle" <=> w.claimed = {})
           /\ w.phase # "sent" /\ w.claimed = sweep[s].claimed \ {c}
  BY Leaving DEF Reschedule, ReportsIInv
<1>2. /\ c \in sweep[s].claimed /\ c \in Report
      /\ nextRun' = [nextRun EXCEPT ![c] = "scheduled"] /\ sweep[s].phase = "sent"
      /\ UNCHANGED <<jobRun, mailed, failures, jobRuns>>
  BY DEF Reschedule, ReportsIInv, Counted, Types, SweepRow
<1> HIDE DEF c
<1>3. /\ nextRun' \in [Report -> {"due", "claimed", "scheduled"}]
      /\ \A r \in Report : nextRun'[r] = IF r = c THEN "scheduled" ELSE nextRun[r]
  BY <1>2 DEF ReportsIInv, Types
<1>4. /\ Types' /\ Apart'
      /\ \A t \in Server : sweep'[t] = IF t = s THEN w ELSE sweep[t]
      /\ \A t \in Server : sweep'[t].phase = "sent" => sweep'[t].current \in sweep'[t].claimed
  <2>1. failures' \in Nat /\ \A r \in Report : nextRun'[r] \in {nextRun[r], "scheduled"}
    BY <1>2, <1>3 DEF ReportsIInv, Types
  <2>2. QED
    BY <1>1, <1>2, <1>3, <2>1, LettingGo
<1>5. ASSUME NEW r \in Report
      PROVE  mailed[r] <= failures \/ Settled(r)' \/ \E t \in Server : SentBy(t, r)'
  <2>1. CASE r = c
    <3>1. \A t \in Server : r \notin sweep'[t].claimed
      BY <1>1, <1>2, <1>4, <2>1 DEF ReportsIInv, Apart
    <3>2. QED
      BY <1>3, <2>1, <3>1 DEF Settled
  <2>2. CASE r # c
    <3>1. \A t \in Server : SentBy(t, r) => SentBy(t, r)'
      BY <1>4, <2>2 DEF SentBy, c
    <3>2. Settled(r) => Settled(r)'
      BY <1>1, <1>3, <1>4, <2>2 DEF Settled
    <3>3. QED
      BY <3>1, <3>2 DEF ReportsIInv, Counted
  <2>3. QED
    BY <2>1, <2>2
<1>6. Counted'
  BY <1>2, <1>4, <1>5 DEF ReportsIInv, Counted
<1>7. QED
  BY <1>4, <1>6 DEF ReportsIInv

\* A failure of a sweep makes up for the mail it may have sent.
LEMMA SweepFailureKeeps ==
  ASSUME ReportsIInv, NEW s \in Server, RescheduleFails(s) \/ ServerCrash(s)
  PROVE  ReportsIInv'
<1>1. /\ failures' = failures + 1 /\ failures \in Nat
      /\ UNCHANGED <<nextRun, jobRun, mailed, jobRuns>>
  BY DEF RescheduleFails, ServerCrash, ReportsIInv, Types
<1>2. \E w \in SweepRow :
        /\ sweep' = [sweep EXCEPT ![s] = w] /\ (w.phase = "idle" <=> w.claimed = {})
        /\ w.phase # "sent" /\ w.claimed \subseteq sweep[s].claimed
  <2>1. CASE RescheduleFails(s)
    BY <2>1, Leaving DEF RescheduleFails, ReportsIInv
  <2>2. CASE ServerCrash(s)
    <3>1. NoSweep \in SweepRow /\ NoSweep.phase = "idle" /\ NoSweep.claimed = {}
      BY DEF NoSweep, SweepRow
    <3>2. QED
      BY <2>2, <3>1 DEF ServerCrash
  <2>3. QED
    BY <2>1, <2>2
<1>3. /\ Types' /\ Apart'
      /\ \A t \in Server : sweep'[t].phase = "sent" => sweep'[t].current \in sweep'[t].claimed
  <2>1. /\ failures' \in Nat /\ nextRun' \in [Report -> {"due", "claimed", "scheduled"}]
        /\ \A r \in Report : nextRun'[r] \in {nextRun[r], "scheduled"}
    BY <1>1 DEF ReportsIInv, Types
  <2>2. QED
    BY <1>1, <1>2, <2>1, LettingGo
<1>4. \A r \in Report : mailed'[r] <= failures' /\ mailed'[r] <= 1 + failures'
  <2>1. \A r \in Report : mailed[r] \in Nat /\ mailed[r] <= 1 + failures
    BY DEF ReportsIInv, Types, Counted
  <2>2. QED
    BY <1>1, <2>1
<1>5. Counted'
  BY <1>3, <1>4 DEF Counted
<1>6. QED
  BY <1>3, <1>5 DEF ReportsIInv
-----------------------------------------------------------------------------
\* A run that people ask for.
LEMMA JobRunKeeps ==
  ASSUME ReportsIInv, JobReschedule \/ JobDies \/ \E r \in Report : JobStart(r)
  PROVE  ReportsIInv'
<1>1. /\ sweep' = sweep /\ mailed' = mailed
      /\ nextRun' \in [Report -> {"due", "claimed", "scheduled"}]
      /\ \A r \in Report : nextRun'[r] \in {nextRun[r], "scheduled"}
      /\ failures' \in Nat /\ failures \in Nat /\ failures <= failures'
  BY DEF JobReschedule, JobDies, JobStart, ReportsIInv, Types
<1>2. /\ jobRun' \in [phase : {"idle", "run"}, current : Report \cup {NoReport}]
      /\ jobRun'.phase = "idle" <=> jobRun'.current = NoReport
      /\ jobRuns' \in Nat
  BY ReportParameters DEF JobReschedule, JobDies, JobStart, NoJobRun, ReportsIInv, Types
<1>3. Types'
  BY <1>1, <1>2 DEF ReportsIInv, Types
<1>4. Apart'
  <2>1. \A s \in Server : sweep[s].claimed \subseteq Report
    BY DEF ReportsIInv, Types, SweepRow
  <2>2. ASSUME NEW s \in Server, NEW r \in sweep[s].claimed PROVE nextRun'[r] # "due"
    <3>1. r \in Report /\ nextRun[r] # "due"
      BY <2>1 DEF ReportsIInv, Apart
    <3>2. QED
      BY <1>1, <3>1
  <2>3. QED
    BY <1>1, <2>2 DEF ReportsIInv, Apart
<1>5. Counted'
  <2>1. ASSUME NEW r \in Report
        PROVE  /\ mailed'[r] <= 1 + failures'
               /\ mailed'[r] <= failures' \/ Settled(r)' \/ \E s \in Server : SentBy(s, r)'
    <3>1. mailed[r] \in Nat /\ mailed[r] <= 1 + failures
      BY DEF ReportsIInv, Types, Counted
    <3>2. Settled(r) => Settled(r)'
      BY <1>1 DEF Settled
    <3>3. \A s \in Server : SentBy(s, r) => SentBy(s, r)'
      BY <1>1 DEF SentBy
    <3>4. mailed[r] <= failures => mailed'[r] <= failures'
      BY <1>1, <3>1
    <3>5. mailed'[r] <= 1 + failures'
      BY <1>1, <3>1
    <3>6. QED
      BY <3>2, <3>3, <3>4, <3>5 DEF ReportsIInv, Counted
  <2>2. QED
    BY <1>1, <2>1 DEF ReportsIInv, Counted
<1>6. QED
  BY <1>3, <1>4, <1>5 DEF ReportsIInv

\* Time passes: a claim's hour, when its sweep is over, or a period.
LEMMA TimeKeeps ==
  ASSUME ReportsIInv, ~Slow, NEW r \in Report, HourPasses(r) \/ PeriodPasses(r)
  PROVE  ReportsIInv'
<1>1. /\ UNCHANGED <<sweep, jobRun, failures, jobRuns>>
      /\ nextRun' = [nextRun EXCEPT ![r] = "due"]
      /\ mailed' \in [Report -> Nat]
      /\ \A q \in Report \ {r} : mailed'[q] = mailed[q]
      /\ \A s \in Server : r \notin sweep[s].claimed
  <2>1. InSweep(r) = {}
    BY DEF HourPasses, PeriodPasses, InRun
  <2>2. \A s \in Server : r \notin sweep[s].claimed
    BY <2>1 DEF InSweep
  <2>3. CASE HourPasses(r)
    BY <2>2, <2>3 DEF HourPasses, ReportsIInv, Types
  <2>4. CASE PeriodPasses(r)
    BY <2>2, <2>4 DEF PeriodPasses, ReportsIInv, Types
  <2>5. QED
    BY <2>3, <2>4
<1>2. /\ nextRun' \in [Report -> {"due", "claimed", "scheduled"}]
      /\ \A q \in Report : nextRun'[q] = IF q = r THEN "due" ELSE nextRun[q]
  BY <1>1 DEF ReportsIInv, Types
<1>3. Types'
  BY <1>1, <1>2 DEF ReportsIInv, Types
<1>4. Apart'
  <2>1. \A s \in Server : sweep[s].claimed \subseteq Report
    BY DEF ReportsIInv, Types, SweepRow
  <2>2. QED
    BY <1>1, <1>2, <2>1 DEF ReportsIInv, Apart
<1>5. mailed'[r] <= failures
  <2>1. failures \in Nat
    BY DEF ReportsIInv, Types
  <2>2. CASE HourPasses(r)
    <3>1. mailed'[r] = mailed[r] /\ ~Settled(r)
      BY <2>2 DEF HourPasses, Settled
    <3>2. \A s \in Server : ~SentBy(s, r)
      BY <1>1 DEF SentBy, ReportsIInv, Counted
    <3>3. QED
      BY <3>1, <3>2 DEF ReportsIInv, Counted
  <2>3. CASE PeriodPasses(r)
    <3>1. mailed'[r] = 0
      BY <2>3 DEF PeriodPasses, ReportsIInv, Types
    <3>2. QED
      BY <2>1, <3>1
  <2>4. QED
    BY <2>2, <2>3
<1>6. Counted'
  <2>1. ASSUME NEW q \in Report
        PROVE  /\ mailed'[q] <= 1 + failures
               /\ mailed'[q] <= failures \/ Settled(q)' \/ \E s \in Server : SentBy(s, q)'
    <3>1. CASE q = r
      <4>1. mailed'[q] \in Nat /\ failures \in Nat
        BY <1>1 DEF ReportsIInv, Types
      <4>2. QED
        BY <1>5, <3>1, <4>1
    <3>2. CASE q # r
      <4>1. mailed'[q] = mailed[q]
        BY <1>1, <3>2
      <4>2. Settled(q) => Settled(q)'
        BY <1>1, <1>2, <3>2 DEF Settled
      <4>3. \A s \in Server : SentBy(s, q) => SentBy(s, q)'
        BY <1>1 DEF SentBy
      <4>4. QED
        BY <4>1, <4>2, <4>3 DEF ReportsIInv, Counted
    <3>3. QED
      BY <3>1, <3>2
  <2>2. QED
    BY <1>1, <2>1 DEF ReportsIInv, Counted
<1>7. QED
  BY <1>3, <1>4, <1>6 DEF ReportsIInv

\* Every step keeps the invariant.
LEMMA ReportsStep == ~Slow /\ ReportsIInv /\ [ReportsNext]_reportVars => ReportsIInv'
<1> SUFFICES ASSUME ~Slow, ReportsIInv, [ReportsNext]_reportVars PROVE ReportsIInv'
  OBVIOUS
<1>1. ASSUME NEW s \in Server, SweepStep(s) \/ RescheduleFails(s) \/ ServerCrash(s)
      PROVE  ReportsIInv'
  BY <1>1, ClaimKeeps, SendKeeps, RescheduleKeeps, SweepFailureKeeps DEF SweepStep
<1>2. ASSUME NEW r \in Report, HourPasses(r) \/ PeriodPasses(r) PROVE ReportsIInv'
  BY <1>2, TimeKeeps
<1>3. CASE JobReschedule \/ JobDies \/ \E r \in Report : JobStart(r)
  BY <1>3, JobRunKeeps
<1>4. CASE UNCHANGED reportVars
  BY <1>4 DEF reportVars, ReportsIInv, Types, Apart, Counted, Settled, SentBy
<1>5. QED
  BY <1>1, <1>2, <1>3, <1>4 DEF ReportsNext

\* The invariant holds of every state.
LEMMA ReportsInvariance == ASSUME ~Slow PROVE ReportsSpec => []ReportsIInv
<1>1. ReportsIInv /\ [ReportsNext]_reportVars => ReportsIInv'
  BY ReportsStep
<1>2. QED
  BY <1>1, ReportsInitially, PTL DEF ReportsSpec

\* No two servers have a report in hand, for every number of servers, reports and
\* failures, as long as a sweep ends within the hour of its claim.
THEOREM InOneHand == ASSUME ~Slow PROVE ReportsSpec => []ClaimedByOne
<1>1. ReportsIInv => ClaimedByOne
  <2> SUFFICES ASSUME ReportsIInv, NEW r \in Report PROVE Cardinality(InSweep(r)) <= 1
    BY DEF ClaimedByOne
  <2>1. \A s, t \in InSweep(r) : s = t
    BY DEF InSweep, ReportsIInv, Apart
  <2>2. CASE InSweep(r) = {}
    BY <2>2, FS_EmptySet
  <2>3. CASE InSweep(r) # {}
    <3>1. PICK s : InSweep(r) = {s}
      BY <2>1, <2>3
    <3>2. Cardinality({s}) = 1
      BY FS_Singleton
    <3>3. QED
      BY <3>1, <3>2
  <2>4. QED
    BY <2>2, <2>3
<1>2. QED
  BY <1>1, ReportsInvariance, PTL

\* A report is mailed once a period and once more for each failure, for every number
\* of servers, reports and failures, as long as a sweep ends within the hour of its
\* claim.
THEOREM OnceAPeriod == ASSUME ~Slow PROVE ReportsSpec => []MailedOnce
<1>1. ReportsIInv => MailedOnce
  BY DEF ReportsIInv, Counted, MailedOnce
<1>2. QED
  BY <1>1, ReportsInvariance, PTL
-----------------------------------------------------------------------------
\* Whether sweeps are slow or not, the report that was sent is in hand.
SentInHand == \A s \in Server : sweep[s].phase = "sent" => sweep[s].current \in sweep[s].claimed

\* A sweep's row is replaced, and nothing else but counts and schedules.
LEMMA SweepTyped ==
  ASSUME Types, SentInHand, NEW s \in Server, NEW w \in SweepRow,
         sweep' = [sweep EXCEPT ![s] = w], w.phase = "idle" <=> w.claimed = {},
         w.phase = "sent" => w.current \in w.claimed,
         nextRun' \in [Report -> {"due", "claimed", "scheduled"}],
         mailed' \in [Report -> Nat], failures' \in Nat, UNCHANGED <<jobRun, jobRuns>>
  PROVE  Types' /\ SentInHand'
<1>1. /\ sweep' \in [Server -> SweepRow]
      /\ \A t \in Server : sweep'[t] = IF t = s THEN w ELSE sweep[t]
      /\ \A t \in Server : sweep'[t].phase = "idle" <=> sweep'[t].claimed = {}
  BY SweepMoves
<1>2. Types'
  BY <1>1 DEF Types
<1>3. SentInHand'
  BY <1>1 DEF SentInHand
<1>4. QED
  BY <1>2, <1>3

\* What a step of a sweep makes of its row.
LEMMA SweepTypesKept ==
  ASSUME Types, SentInHand, NEW s \in Server, SweepStep(s) \/ RescheduleFails(s) \/ ServerCrash(s)
  PROVE  Types' /\ SentInHand'
<1>1. CASE Claim(s)
  <2>1. PICK w : w = [NoSweep EXCEPT !.phase = "run", !.claimed = Due]
    OBVIOUS
  <2>2. w \in SweepRow /\ w.phase = "run" /\ w.claimed = Due /\ Due # {}
    BY <1>1, <2>1 DEF Claim, NoSweep, SweepRow, Due
  <2>3. /\ nextRun' \in [Report -> {"due", "claimed", "scheduled"}]
        /\ sweep' = [sweep EXCEPT ![s] = w]
        /\ UNCHANGED <<jobRun, mailed, failures, jobRuns>>
    BY <1>1, <2>1 DEF Claim, Types
  <2>4. mailed' \in [Report -> Nat] /\ failures' \in Nat
    BY <2>3 DEF Types
  <2>5. QED
    BY <2>2, <2>3, <2>4, SweepTyped
<1>2. CASE Send(s)
  <2>1. PICK r \in sweep[s].claimed, sent \in {0, 1} :
          /\ sweep' = [sweep EXCEPT ![s].phase = "sent", ![s].current = r]
          /\ mailed' = [mailed EXCEPT ![r] = @ + sent]
    BY <1>2 DEF Send
  <2>2. /\ UNCHANGED <<nextRun, jobRun, failures, jobRuns>>
        /\ sweep[s] \in SweepRow /\ r \in Report
    BY <1>2 DEF Send, Types, SweepRow
  <2>3. PICK w : w = [sweep[s] EXCEPT !.phase = "sent", !.current = r]
    OBVIOUS
  <2>4. w \in SweepRow /\ w.phase = "sent" /\ w.current \in w.claimed /\ w.claimed # {}
    BY <2>2, <2>3 DEF SweepRow
  <2>5. sweep' = [sweep EXCEPT ![s] = w]
    BY <2>1, <2>3 DEF Types
  <2>6. /\ mailed' \in [Report -> Nat] /\ failures' \in Nat
        /\ nextRun' \in [Report -> {"due", "claimed", "scheduled"}]
    BY <2>1, <2>2 DEF Types
  <2>7. QED
    BY <2>2, <2>4, <2>5, <2>6, SweepTyped
<1>3. CASE Reschedule(s) \/ RescheduleFails(s)
  <2>1. PICK w \in SweepRow :
          /\ sweep' = [sweep EXCEPT ![s] = w] /\ (w.phase = "idle" <=> w.claimed = {})
          /\ w.phase # "sent" /\ w.claimed = sweep[s].claimed \ {sweep[s].current}
    BY <1>3, Leaving DEF Reschedule, RescheduleFails
  <2>2. /\ nextRun' \in [Report -> {"due", "claimed", "scheduled"}]
        /\ mailed' \in [Report -> Nat] /\ failures' \in Nat /\ UNCHANGED <<jobRun, jobRuns>>
    BY <1>3 DEF Reschedule, RescheduleFails, Types
  <2>3. QED
    BY <2>1, <2>2, SweepTyped
<1>4. CASE ServerCrash(s)
  <2>1. NoSweep \in SweepRow /\ NoSweep.phase = "idle" /\ NoSweep.claimed = {}
    BY DEF NoSweep, SweepRow
  <2>2. /\ nextRun' \in [Report -> {"due", "claimed", "scheduled"}]
        /\ sweep' = [sweep EXCEPT ![s] = NoSweep]
        /\ mailed' \in [Report -> Nat] /\ failures' \in Nat /\ UNCHANGED <<jobRun, jobRuns>>
    BY <1>4 DEF ServerCrash, Types
  <2>3. QED
    BY <2>1, <2>2, SweepTyped
<1>5. QED
  BY <1>1, <1>2, <1>3, <1>4 DEF SweepStep

\* The types hold at first and after every step.
LEMMA SweepsTyped ==
  /\ ReportsInit => Types /\ SentInHand
  /\ Types /\ SentInHand /\ [ReportsNext]_reportVars => Types' /\ SentInHand'
<1>1. ReportsInit => Types /\ SentInHand
  BY ReportsInitially DEF ReportsIInv, Counted, SentInHand
<1>2. ASSUME Types, SentInHand, [ReportsNext]_reportVars PROVE Types' /\ SentInHand'
  <2>1. ASSUME NEW s \in Server, SweepStep(s) \/ RescheduleFails(s) \/ ServerCrash(s)
        PROVE  Types' /\ SentInHand'
    BY <1>2, <2>1, SweepTypesKept
  <2>2. ASSUME NEW r \in Report, HourPasses(r) \/ PeriodPasses(r)
        PROVE  Types' /\ SentInHand'
    BY <1>2, <2>2 DEF HourPasses, PeriodPasses, Types, SentInHand
  <2>3. CASE JobReschedule \/ JobDies \/ \E r \in Report : JobStart(r)
    <3>1. /\ sweep' = sweep /\ mailed' = mailed
          /\ nextRun' \in [Report -> {"due", "claimed", "scheduled"}]
          /\ failures' \in Nat /\ jobRuns' \in Nat
      BY <1>2, <2>3 DEF JobReschedule, JobDies, JobStart, Types
    <3>2. /\ jobRun' \in [phase : {"idle", "run"}, current : Report \cup {NoReport}]
          /\ jobRun'.phase = "idle" <=> jobRun'.current = NoReport
      BY <1>2, <2>3, ReportParameters DEF JobReschedule, JobDies, JobStart, NoJobRun, Types
    <3>3. QED
      BY <1>2, <3>1, <3>2 DEF Types, SentInHand
  <2>4. CASE UNCHANGED reportVars
    BY <1>2, <2>4 DEF reportVars, Types, SentInHand
  <2>5. QED
    BY <1>2, <2>1, <2>2, <2>3, <2>4 DEF ReportsNext
<1>3. QED
  BY <1>1, <1>2

\* They say what the type invariant of the sweeps says.
LEMMA SweepTypesSuffice == Types /\ SentInHand => ReportsTypeOK
BY DEF Types, SentInHand, SweepRow, ReportsTypeOK

\* Type correctness of the sweeps, slow ones too.
THEOREM ReportsTyped == ReportsSpec => []ReportsTypeOK
<1>1. ReportsInit => Types /\ SentInHand
  BY SweepsTyped
<1>2. Types /\ SentInHand /\ [ReportsNext]_reportVars => (Types /\ SentInHand)'
  BY SweepsTyped
<1>3. Types /\ SentInHand => ReportsTypeOK
  BY SweepTypesSuffice
<1>4. QED
  BY <1>1, <1>2, <1>3, PTL DEF ReportsSpec

-----------------------------------------------------------------------------
(***************************************************************************)
(* The three of them, one at a time                                        *)
(***************************************************************************)

\* What holds of each component holds while the others rest.
OperationsIInv == IInv /\ JobsIInv /\ Types /\ SentInHand

\* A step is a step of one of them, and the others keep what they have.
LEMMA OperationsStep == OperationsIInv /\ [OperationsNext]_allVars => OperationsIInv'
<1> SUFFICES ASSUME OperationsIInv, [OperationsNext]_allVars PROVE OperationsIInv'
  OBVIOUS
<1>1. [Next]_vars /\ [JobsNext]_jobVars /\ [ReportsNext]_reportVars
  BY DEF OperationsNext, Rest, allVars
<1>2. IInv'
  BY <1>1, AnyStep DEF OperationsIInv
<1>3. JobsIInv'
  BY <1>1, JobsStep DEF OperationsIInv
<1>4. Types' /\ SentInHand'
  BY <1>1, SweepsTyped DEF OperationsIInv
<1>5. QED
  BY <1>2, <1>3, <1>4 DEF OperationsIInv

\* Type correctness of the trail, the queue and the sweeps.
THEOREM OperationsTyped == OperationsSpec => []OperationsTypeOK
<1>1. OperationsInit => OperationsIInv
  BY InitiallyOK, JobsInitially, SweepsTyped DEF OperationsInit, OperationsIInv
<1>2. OperationsIInv => OperationsTypeOK
  <2>1. IInv => TypeOK
    BY DEF IInv
  <2>2. JobsIInv => JobsTypeOK
    BY DEF JobsIInv, JobsTyped, JobsTypeOK, ProcessingRow
  <2>3. QED
    BY <2>1, <2>2, SweepTypesSuffice DEF OperationsIInv, OperationsTypeOK
<1>3. QED
  BY <1>1, <1>2, OperationsStep, PTL DEF OperationsSpec
=============================================================================
