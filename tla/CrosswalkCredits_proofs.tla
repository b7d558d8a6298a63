----------------------- MODULE CrosswalkCredits_proofs -----------------------
(***************************************************************************)
(* Type correctness of CrosswalkCredits, its promise that the automation   *)
(* never touches human work, and the refinement of CrosswalkPosture, for   *)
(* every set of controls, mappings, requests and clients; then, for the    *)
(* clients of MCCrosswalkRequests, that every credit is in the ledger and  *)
(* that one request at a time keeps it justified.                          *)
(***************************************************************************)
EXTENDS MCCrosswalkRequests, TLAPS

\* What is true of the record of one request: in flight, it names its control
\* and the status asked for; a target in hand is a control, and in a withdrawal
\* one the loop has not left; what is about to be recorded or restored is never
\* the credit; and only an open withdrawal holds locks.
Sound(w) ==
  /\ w \in Work
  /\ w.phase # "idle" => w.control \in Control /\ w.to \in Status
  /\ w.phase = "overwrite" => w.target \in Control /\ w.seen \in Status
  /\ w.phase = "restore" => w.target \in w.todo
  /\ w.phase \in {"record", "check", "restore"} =>
       \A t \in Control : w.kept[t] # Swc
  /\ w.phase \in {"check", "restore"} =>
       \A t \in w.todo \cup w.restored : w.kept[t] # None
  /\ w.restored # {} => w.phase \in {"check", "restore"}

RequestsSound == \A h \in Handler : Sound(work[h])

\* Row locks: what an open withdrawal has rewritten is credited in what is
\* committed, and no row is locked twice.
LocksHold ==
  /\ \A h \in Handler : \A c \in work[h].restored : status[c] = Swc
  /\ \A g, h \in Handler : g # h => work[g].restored \cap work[h].restored = {}

\* The invariant that every statement of every request keeps.
IInv ==
  /\ TypeOK
  /\ RequestsSound
  /\ LocksHold
  /\ HumanWorkStands
  /\ LedgerRemembersNoCredit
-----------------------------------------------------------------------------
(***************************************************************************)
(* The ledger of one target                                                *)
(***************************************************************************)

\* Removing a source's row leaves a ledger, of rows it already had.
LEMMA WithoutRows ==
  ASSUME NEW rows \in Seq(Row), NEW s
  PROVE  /\ Without(rows, s) \in Seq(Row)
         /\ \A i \in DOMAIN Without(rows, s) :
              \E j \in DOMAIN rows : Without(rows, s)[i] = rows[j]
<1>1. CASE RowsOf(rows, s) = {}
  BY <1>1 DEF Without
<1>2. CASE RowsOf(rows, s) # {}
  <2> DEFINE k == RowOf(rows, s)
  <2>1. k \in DOMAIN rows
    BY <1>2 DEF RowOf, RowsOf
  <2>2. k \in 1..Len(rows) /\ Len(rows) \in Nat
    BY <2>1
  <2> HIDE DEF k
  <2>3. RemoveAt(rows, k) \in Seq(Row)
    BY <2>2 DEF RemoveAt
  <2>4. ASSUME NEW i \in DOMAIN RemoveAt(rows, k)
        PROVE  \E j \in DOMAIN rows : RemoveAt(rows, k)[i] = rows[j]
    <3>1. /\ i \in 1..(Len(rows) - 1)
          /\ RemoveAt(rows, k)[i] = IF i < k THEN rows[i] ELSE rows[i + 1]
      <4> DEFINE before == SubSeq(rows, 1, k - 1)
                 after == SubSeq(rows, k + 1, Len(rows))
      <4>1. /\ before \in Seq(Row) /\ Len(before) = k - 1
            /\ \A j \in 1..(k - 1) : before[j] = rows[j]
        BY <2>2
      <4>2. /\ after \in Seq(Row) /\ Len(after) = Len(rows) - k
            /\ \A j \in 1..(Len(rows) - k) : after[j] = rows[j + k]
        BY <2>2
      <4>3. RemoveAt(rows, k) = before \o after
        BY DEF RemoveAt
      <4> HIDE DEF before, after
      <4>4. i \in 1..(Len(rows) - 1)
        BY <2>2, <2>4, <4>1, <4>2, <4>3
      <4>5. CASE i < k
        BY <2>2, <4>1, <4>2, <4>3, <4>4, <4>5
      <4>6. CASE i >= k
        <5>1. i - (k - 1) \in 1..(Len(rows) - k)
          BY <2>2, <4>4, <4>6
        <5>2. RemoveAt(rows, k)[i] = after[i - (k - 1)]
          BY <2>2, <4>1, <4>2, <4>3, <4>4, <4>6
        <5>3. QED
          BY <2>2, <4>2, <4>4, <4>6, <5>1, <5>2
      <4>7. QED
        BY <2>2, <4>4, <4>5, <4>6
    <3>2. QED
      BY <2>2, <3>1
  <2>5. QED
    BY <1>2, <2>3, <2>4 DEF Without, k
<1>3. QED
  BY <1>1, <1>2

\* Recording a source's credit leaves a ledger; if neither the rows nor the new
\* previous status are crosswalk credit, no row is.
LEMMA RecordedRows ==
  ASSUME NEW rows \in Seq(Row), NEW s \in Control, NEW p \in Status
  PROVE  /\ Recorded(rows, s, p) \in Seq(Row)
         /\ p # Swc /\ (\A i \in DOMAIN rows : rows[i].previous # Swc)
            => \A i \in DOMAIN Recorded(rows, s, p) :
                 Recorded(rows, s, p)[i].previous # Swc
<1> DEFINE kept == Without(rows, s)
           q == IF RowsOf(rows, s) = {} THEN p ELSE rows[RowOf(rows, s)].previous
           row == [source |-> s, previous |-> q]
<1>1. /\ kept \in Seq(Row)
      /\ \A i \in DOMAIN kept : \E j \in DOMAIN rows : kept[i] = rows[j]
  BY WithoutRows
<1>2. /\ q \in Status
      /\ p # Swc /\ (\A i \in DOMAIN rows : rows[i].previous # Swc) => q # Swc
  <2>1. RowsOf(rows, s) # {} => RowOf(rows, s) \in DOMAIN rows
    BY DEF RowsOf, RowOf
  <2>2. \A i \in DOMAIN rows : rows[i] \in Row
    OBVIOUS
  <2>3. QED
    BY <2>1, <2>2 DEF Row
<1>3. row \in Row
  BY <1>2 DEF Row
<1>4. Recorded(rows, s, p) = Append(kept, row)
  BY DEF Recorded
<1> HIDE DEF kept, q
<1>5. Append(kept, row) \in Seq(Row)
  BY <1>1, <1>3
<1>6. ASSUME p # Swc, \A i \in DOMAIN rows : rows[i].previous # Swc,
             NEW i \in DOMAIN Append(kept, row)
      PROVE  Append(kept, row)[i].previous # Swc
  <2>1. Append(kept, row)[i] = row \/ (i \in DOMAIN kept /\ Append(kept, row)[i] = kept[i])
    BY <1>1, <1>3, <1>6
  <2>2. row.previous = q
    OBVIOUS
  <2>3. QED
    BY <1>1, <1>2, <1>6, <2>1, <2>2
<1>7. QED
  BY <1>4, <1>5, <1>6
-----------------------------------------------------------------------------
(***************************************************************************)
(* The record of one request                                               *)
(***************************************************************************)

\* The record of an idle request, and the phases, are what they should be.
LEMMA IdleSound == Sound(Idle) /\ Idle.restored = {} /\ Idle.phase = "idle"
BY DEF Sound, Idle, Work, Phase, NoneKept

\* When one request moves to a sound record that holds no new lock, the requests
\* stay sound and no row becomes locked.
LEMMA RequestMoves ==
  ASSUME TypeOK, RequestsSound, NEW h \in Handler, NEW w, Sound(w),
         w.restored \subseteq work[h].restored,
         work' = [work EXCEPT ![h] = w]
  PROVE  /\ work' \in [Handler -> Work]
         /\ RequestsSound'
         /\ \A g \in Handler : work'[g].restored \subseteq work[g].restored
<1>1. \A g \in Handler : work'[g] = IF g = h THEN w ELSE work[g]
  BY DEF TypeOK
<1>2. \A g \in Handler : Sound(work'[g])
  BY <1>1 DEF RequestsSound
<1>3. work' \in [Handler -> Work]
  BY DEF TypeOK, Sound
<1>4. QED
  BY <1>1, <1>2, <1>3 DEF RequestsSound

\* Locks keep holding when no row becomes locked and no locked row changes.
LEMMA LocksKept ==
  ASSUME LocksHold,
         \A g \in Handler : work'[g].restored \subseteq work[g].restored,
         \A g \in Handler : \A c \in work[g].restored : status'[c] = status[c]
  PROVE  LocksHold'
BY DEF LocksHold

\* A request that writes or files goes on in a sound record without locks.
LEMMA ContinueSound ==
  ASSUME TypeOK, RequestsSound, NEW h \in Handler,
         work[h].phase \in {"write", "gate"}, Continue(h)
  PROVE  \E w : Sound(w) /\ w.restored = {} /\ work' = [work EXCEPT ![h] = w]
<1> DEFINE w == work[h]
<1>1. Sound(w) /\ w \in Work /\ w.restored = {}
  BY DEF RequestsSound, Sound
<1>2. CASE w.kind = "put" /\ w.to = "implemented"
  <2> DEFINE v == [w EXCEPT !.phase = "credit", !.todo = Mapped[w.control]]
  <2>1. work' = [work EXCEPT ![h] = v]
    BY <1>2 DEF Continue, TypeOK, Work
  <2>2. Mapped[w.control] \in SUBSET Control
    BY <1>1, Parameters DEF Sound, MappedType
  <2>3. Sound(v) /\ v.restored = {}
    BY <1>1, <2>2 DEF Sound, Work, Phase
  <2>4. QED
    BY <2>1, <2>3
<1>3. CASE ~(w.kind = "put" /\ w.to = "implemented")
            /\ w.seen \in Crediting /\ w.to \notin Crediting
  <2> DEFINE v == [w EXCEPT !.phase = "withdraw"]
  <2>1. work' = [work EXCEPT ![h] = v]
    BY <1>3 DEF Continue
  <2>2. Sound(v) /\ v.restored = {}
    BY <1>1 DEF Sound, Work, Phase
  <2>3. QED
    BY <2>1, <2>2
<1>4. CASE ~(w.kind = "put" /\ w.to = "implemented")
            /\ ~(w.seen \in Crediting /\ w.to \notin Crediting)
  BY <1>4, IdleSound DEF Continue, Finish
<1>5. QED
  BY <1>2, <1>3, <1>4

\* A step that changes nothing but the record of one request.
LEMMA OnlyRequest ==
  ASSUME IInv, NEW h \in Handler, NEW w, Sound(w),
         w.restored \subseteq work[h].restored,
         work' = [work EXCEPT ![h] = w],
         UNCHANGED <<status, credits, asked, by, filed>>
  PROVE  IInv'
<1>1. /\ work' \in [Handler -> Work]
      /\ RequestsSound'
      /\ \A g \in Handler : work'[g].restored \subseteq work[g].restored
  BY RequestMoves DEF IInv
<1>2. LocksHold'
  BY <1>1, LocksKept DEF IInv
<1>3. TypeOK'
  BY <1>1 DEF IInv, TypeOK
<1>4. HumanWorkStands' /\ LedgerRemembersNoCredit'
  BY DEF IInv, HumanWorkStands, LedgerRemembersNoCredit
<1>5. QED
  BY <1>1, <1>2, <1>3, <1>4 DEF IInv

\* Ending a request, whatever it was doing.
LEMMA FinishStep ==
  ASSUME IInv, NEW h \in Handler, Finish(h),
         UNCHANGED <<status, credits, asked, by, filed>>
  PROVE  IInv'
BY IdleSound, OnlyRequest DEF Finish
-----------------------------------------------------------------------------
(***************************************************************************)
(* Steps that change no row                                                *)
(***************************************************************************)

\* PUT and PATCH read the status they are about to overwrite.
LEMMA BeginStep ==
  ASSUME IInv, NEW h \in Handler, NEW c \in Control, NEW s \in Asked,
         PutBegin(h, c, s) \/ PatchBegin(h, c, s)
  PROVE  IInv'
<1> DEFINE w(kind) == [Idle EXCEPT !.phase = "write", !.kind = kind,
                                   !.control = c, !.to = s,
                                   !.seen = Had(status[c])]
<1>1. PICK kind \in {"put", "patch"} : work' = [work EXCEPT ![h] = w(kind)]
  BY DEF PutBegin, PatchBegin, Begin
<1>2. s \in Status /\ Had(status[c]) \in Status
  BY Parameters DEF AskedType, IInv, TypeOK, Had, Status
<1>3. Sound(w(kind)) /\ w(kind).restored = {}
  BY <1>2 DEF Sound, Idle, Work, Phase, NoneKept
<1>4. UNCHANGED <<status, credits, asked, by, filed>>
  BY DEF PutBegin, PatchBegin
<1>5. QED
  BY <1>1, <1>3, <1>4, OnlyRequest

\* POST inherit settles which status its targets will get.
LEMMA InheritBeginStep ==
  ASSUME IInv, NEW h \in Handler, NEW c \in Control, NEW s \in Status,
         NEW kind \in {"inherit", "inherit_all"}, InheritBegin(h, c, s, kind)
  PROVE  IInv'
<1> DEFINE w == [Idle EXCEPT !.phase = "inherit", !.kind = kind,
                             !.control = c, !.to = s, !.todo = Mapped[c]]
<1>1. work' = [work EXCEPT ![h] = w]
  BY DEF InheritBegin
<1>2. Mapped[c] \in SUBSET Control
  BY Parameters DEF MappedType
<1>3. Sound(w) /\ w.restored = {}
  BY <1>2 DEF Sound, Idle, Work, Phase, NoneKept
<1>4. QED
  BY <1>1, <1>3, OnlyRequest DEF InheritBegin

\* A vulnerability finding or work item reads the row it will write.
LEMMA DirectBeginStep ==
  ASSUME IInv, NEW h \in Handler, NEW c \in Control, NEW s \in Status,
         NEW kind \in {"finding", "work_item"}, DirectBegin(h, c, s, kind)
  PROVE  IInv'
<1> DEFINE w == [Idle EXCEPT !.phase = "direct", !.kind = kind,
                             !.control = c, !.to = s, !.seen = status[c]]
<1>1. work' = [work EXCEPT ![h] = w]
  BY DEF DirectBegin
<1>2. status[c] \in Status \cup {None}
  BY DEF IInv, TypeOK
<1>3. Sound(w) /\ w.restored = {}
  BY <1>2 DEF Sound, Idle, Work, Phase, NoneKept
<1>4. QED
  BY <1>1, <1>3, OnlyRequest DEF DirectBegin

\* The inherit loop reads one target, and takes it in hand or skips it.
LEMMA InheritReadStep ==
  ASSUME IInv, NEW h \in Handler, NEW t \in Control, InheritRead(h, t)
  PROVE  IInv'
<1> DEFINE w == work[h]
           skipped == [w EXCEPT !.todo = @ \ {t}]
           taken == [w EXCEPT !.phase = "overwrite", !.target = t,
                              !.seen = Had(status[t])]
<1>1. Sound(w) /\ w \in Work /\ w.phase = "inherit" /\ w.restored = {}
  BY DEF IInv, RequestsSound, Sound, InheritRead
<1>2. Had(status[t]) \in Status
  BY DEF IInv, TypeOK, Had, Status
<1>3. Sound(skipped) /\ skipped.restored = {}
  BY <1>1 DEF Sound, Work, Phase
<1>4. Sound(taken) /\ taken.restored = {}
  BY <1>1, <1>2 DEF Sound, Work, Phase
<1>5. work' = [work EXCEPT ![h] = skipped] \/ work' = [work EXCEPT ![h] = taken]
  BY DEF InheritRead, IInv, TypeOK
<1>6. UNCHANGED <<status, credits, asked, by, filed>>
  BY DEF InheritRead
<1>7. CASE work' = [work EXCEPT ![h] = skipped]
  BY <1>3, <1>6, <1>7, OnlyRequest
<1>8. CASE work' = [work EXCEPT ![h] = taken]
  BY <1>4, <1>6, <1>8, OnlyRequest
<1>9. QED
  BY <1>5, <1>7, <1>8

\* What recordCredits is about to write is never the credit: where a target was
\* seen as credited, its earliest ledger row stands in.
LEMMA ResolvePreviousStep ==
  ASSUME IInv, NEW h \in Handler, ResolvePrevious(h)
  PROVE  IInv'
<1> DEFINE w == work[h]
           kept == [t \in Control |-> Resolved(t, w.kept[t])]
           v == [w EXCEPT !.phase = "record", !.kept = kept]
<1>1. /\ Sound(w) /\ w \in Work /\ w.restored = {}
      /\ w.control \in Control /\ w.to \in Status
  BY DEF IInv, RequestsSound, Sound, ResolvePrevious
<1>2. ASSUME NEW t \in Control
      PROVE  Resolved(t, w.kept[t]) \in (Status \cup {None}) \ {Swc}
  <2>1. EarliestPrevious(t) \in Status \ {Swc}
    <3>1. CASE credits[t] = <<>>
      BY <3>1 DEF EarliestPrevious, Status, Swc
    <3>2. CASE credits[t] # <<>>
      <4>1. credits[t] \in Seq(Row) /\ 1 \in DOMAIN credits[t]
        BY <3>2 DEF IInv, TypeOK
      <4>2. credits[t][1] \in Row /\ credits[t][1].previous # Swc
        BY <4>1 DEF IInv, LedgerRemembersNoCredit
      <4>3. QED
        BY <3>2, <4>2 DEF EarliestPrevious, Row
    <3>3. QED
      BY <3>1, <3>2
  <2>2. w.kept[t] \in Status \cup {None}
    BY <1>1 DEF Work
  <2>3. QED
    BY <2>1, <2>2, NoneIsNoStatus DEF Resolved, Status, Swc
<1>3. Sound(v) /\ v.restored = {}
  <2>1. kept \in [Control -> Status \cup {None}] /\ \A t \in Control : kept[t] # Swc
    BY <1>2
  <2> HIDE DEF kept
  <2>2. v \in Work
    BY <1>1, <2>1 DEF Work, Phase
  <2>3. /\ v.phase = "record" /\ v.kept = kept /\ v.restored = w.restored
        /\ v.control = w.control /\ v.to = w.to
    BY <1>1 DEF Work
  <2>4. QED
    BY <1>1, <2>1, <2>2, <2>3 DEF Sound
<1>4. CASE w.kept = NoneKept
  BY <1>4, FinishStep DEF ResolvePrevious
<1>5. CASE w.kept # NoneKept
  <2>1. work' = [work EXCEPT ![h] = v]
    BY <1>5 DEF ResolvePrevious, IInv, TypeOK
  <2>2. QED
    BY <1>3, <2>1, OnlyRequest DEF ResolvePrevious
<1>6. QED
  BY <1>4, <1>5

\* A withdrawal deletes the rows of its source and remembers them.
LEMMA DeleteCreditsStep ==
  ASSUME IInv, NEW h \in Handler, DeleteCredits(h)
  PROVE  IInv'
<1> DEFINE w == work[h]
           targets == {t \in Control : RowsOf(credits[t], w.control) # {}}
           kept == [t \in Control |->
                      IF t \in targets
                      THEN credits[t][RowOf(credits[t], w.control)].previous
                      ELSE None]
           v == [w EXCEPT !.phase = "check", !.todo = targets, !.kept = kept]
<1>1. /\ Sound(w) /\ w \in Work /\ w.restored = {}
      /\ w.control \in Control /\ w.to \in Status
  BY DEF IInv, RequestsSound, Sound, DeleteCredits
<1>2. ASSUME NEW t \in targets
      PROVE  credits[t][RowOf(credits[t], w.control)].previous \in Status \ {Swc}
  <2>1. RowOf(credits[t], w.control) \in DOMAIN credits[t]
    BY DEF RowOf, RowsOf
  <2>2. credits[t] \in Seq(Row)
    BY DEF IInv, TypeOK
  <2>3. credits[t][RowOf(credits[t], w.control)] \in Row
    BY <2>1, <2>2
  <2>4. credits[t][RowOf(credits[t], w.control)].previous # Swc
    BY <2>1 DEF IInv, LedgerRemembersNoCredit
  <2>5. QED
    BY <2>3, <2>4 DEF Row
<1>3. /\ kept \in [Control -> Status \cup {None}]
      /\ \A t \in Control : kept[t] # Swc
      /\ \A t \in targets : kept[t] # None
  BY <1>2, NoneIsNoStatus DEF Status, Swc
<1>4. work' = [work EXCEPT ![h] = v]
  BY DEF DeleteCredits, IInv, TypeOK
<1>5. targets \in SUBSET Control
  OBVIOUS
<1> HIDE DEF kept, targets
<1>6. Sound(v) /\ v.restored = {}
  <2>1. v \in Work
    BY <1>1, <1>3, <1>5 DEF Work, Phase
  <2>2. /\ v.phase = "check" /\ v.kept = kept /\ v.restored = {} /\ v.todo = targets
        /\ v.control = w.control /\ v.to = w.to
    BY <1>1 DEF Work
  <2>3. QED
    BY <1>1, <1>3, <2>1, <2>2 DEF Sound
<1>7. QED
  BY <1>4, <1>6, OnlyRequest DEF DeleteCredits

\* A withdrawal looks for another source that justifies one target.
LEMMA CheckTargetStep ==
  ASSUME IInv, NEW h \in Handler, NEW t \in Control, CheckTarget(h, t)
  PROVE  IInv'
<1> DEFINE w == work[h]
           kept == [w EXCEPT !.todo = @ \ {t}]
           lapsed == [w EXCEPT !.phase = "restore", !.target = t]
<1>1. Sound(w) /\ w \in Work /\ w.phase = "check" /\ t \in w.todo
  BY DEF IInv, RequestsSound, Sound, CheckTarget
<1>2. Sound(kept) /\ kept.restored = w.restored
  BY <1>1 DEF Sound, Work, Phase
<1>3. Sound(lapsed) /\ lapsed.restored = w.restored
  BY <1>1 DEF Sound, Work, Phase
<1>4. work' = [work EXCEPT ![h] = kept] \/ work' = [work EXCEPT ![h] = lapsed]
  BY DEF CheckTarget, IInv, TypeOK
<1>5. UNCHANGED <<status, credits, asked, by, filed>>
  BY DEF CheckTarget
<1>6. CASE work' = [work EXCEPT ![h] = kept]
  BY <1>2, <1>5, <1>6, OnlyRequest
<1>7. CASE work' = [work EXCEPT ![h] = lapsed]
  BY <1>3, <1>5, <1>7, OnlyRequest
<1>8. QED
  BY <1>4, <1>6, <1>7

\* The only step that locks a row: one that is credited, as its WHERE clause
\* demands, and that no other open transaction holds.
LEMMA RestoreTargetStep ==
  ASSUME IInv, NEW h \in Handler, RestoreTarget(h)
  PROVE  IInv'
<1> DEFINE w == work[h]
           t == w.target
           restored == IF IsRestorable(h, t) THEN w.restored \cup {t} ELSE w.restored
           v == [w EXCEPT !.phase = "check", !.todo = @ \ {t}, !.target = None,
                          !.restored = restored]
<1>1. Sound(w) /\ w \in Work /\ w.phase = "restore" /\ t \in w.todo /\ t \in Control
  BY DEF IInv, RequestsSound, Sound, RestoreTarget, Work
<1>2. work' = [work EXCEPT ![h] = v]
  BY DEF RestoreTarget, IInv, TypeOK
<1>3. \A c \in restored : status[c] = Swc
  <2>1. \A c \in w.restored : status[c] = Swc
    BY DEF IInv, LocksHold
  <2>2. t \notin w.restored /\ IsRestorable(h, t) => status[t] = Swc
    BY DEF IsRestorable, View
  <2>3. QED
    BY <2>1, <2>2
<1>4. \A g \in Handler \ {h} : restored \cap work[g].restored = {}
  <2>1. \A g \in Handler \ {h} : w.restored \cap work[g].restored = {}
    BY DEF IInv, LocksHold
  <2>2. IsRestorable(h, t) => \A g \in Handler \ {h} : t \notin work[g].restored
    BY DEF RestoreTarget, Unlocked
  <2>3. QED
    BY <2>1, <2>2
<1>5. restored \in SUBSET Control /\ restored \subseteq w.restored \cup {t}
  BY <1>1 DEF Work
<1> HIDE DEF restored
<1>6. Sound(v) /\ v.restored = restored
  BY <1>1, <1>5 DEF Sound, Work, Phase
<1>7. \A g \in Handler : work'[g] = IF g = h THEN v ELSE work[g]
  BY <1>2 DEF IInv, TypeOK
<1>8. work' \in [Handler -> Work] /\ RequestsSound'
  <2>1. work' \in [Handler -> Work]
    BY <1>2, <1>6 DEF IInv, TypeOK, Sound
  <2>2. \A g \in Handler : Sound(work'[g])
    BY <1>6, <1>7 DEF IInv, RequestsSound
  <2>3. QED
    BY <2>1, <2>2 DEF RequestsSound
<1>9. LocksHold'
  <2>1. \A g \in Handler :
          work'[g].restored = IF g = h THEN restored ELSE work[g].restored
    BY <1>6, <1>7
  <2>2. status' = status
    BY DEF RestoreTarget
  <2>3. \A g \in Handler : \A c \in work'[g].restored : status'[c] = Swc
    BY <1>3, <2>1, <2>2 DEF IInv, LocksHold
  <2>4. \A g, f \in Handler : g # f => work'[g].restored \cap work'[f].restored = {}
    BY <1>4, <2>1 DEF IInv, LocksHold
  <2>5. QED
    BY <2>3, <2>4 DEF LocksHold
<1>10. TypeOK' /\ HumanWorkStands' /\ LedgerRemembersNoCredit'
  BY <1>8 DEF RestoreTarget, IInv, TypeOK, HumanWorkStands, LedgerRemembersNoCredit
<1>11. QED
  BY <1>8, <1>9, <1>10 DEF IInv

\* The gate files its approval request and touches no status.
LEMMA GateStep ==
  ASSUME IInv, NEW h \in Handler, Gate(h)
  PROVE  IInv'
<1>1. work[h].phase = "gate" /\ Sound(work[h])
  BY DEF Gate, IInv, RequestsSound
<1>2. PICK w : Sound(w) /\ w.restored = {} /\ work' = [work EXCEPT ![h] = w]
  BY <1>1, ContinueSound DEF Gate, IInv
<1>3. /\ work' \in [Handler -> Work]
      /\ RequestsSound'
      /\ \A g \in Handler : work'[g].restored \subseteq work[g].restored
  BY <1>2, RequestMoves DEF IInv
<1>4. LocksHold'
  BY <1>3, LocksKept DEF Gate, IInv
<1>5. work[h].control \in Control
  BY <1>1 DEF Sound
<1>6. TypeOK' /\ HumanWorkStands' /\ LedgerRemembersNoCredit'
  BY <1>3, <1>5 DEF Gate, IInv, TypeOK, HumanWorkStands, LedgerRemembersNoCredit
<1>7. QED
  BY <1>3, <1>4, <1>6 DEF IInv
-----------------------------------------------------------------------------
(***************************************************************************)
(* Steps that change rows                                                  *)
(***************************************************************************)

\* A person's write leaves every locked row and every other control alone.
LEMMA PersonWrites ==
  ASSUME IInv, NEW c \in Control, NEW s \in Status,
         NEW way \in {"gated", "direct", "credit"},
         SetByPerson(c, s, way), FreeOfLocks(c)
  PROVE  /\ status' \in [Control -> Status \cup {None}]
         /\ asked' \in [Control -> Status \cup {None}]
         /\ by' \in [Control -> {"nobody", "gated", "direct", "credit", "restored"}]
         /\ filed' \subseteq Control
         /\ HumanWorkStands'
         /\ \A g \in Handler : \A d \in work[g].restored : status'[d] = status[d]
<1>1. \A d \in Control : /\ status'[d] = IF d = c THEN s ELSE status[d]
                         /\ asked'[d] = IF d = c THEN s ELSE asked[d]
  BY DEF IInv, TypeOK, SetByPerson
<1>2. HumanWorkStands'
  BY <1>1 DEF IInv, HumanWorkStands
<1>3. \A g \in Handler : \A d \in work[g].restored : d \in Control /\ d # c
  BY DEF FreeOfLocks, IInv, TypeOK, Work
<1>4. QED
  BY <1>1, <1>2, <1>3 DEF IInv, TypeOK, SetByPerson

\* PUT and PATCH overwrite the status, unless a withdrawal has the row locked.
LEMMA WriteStep ==
  ASSUME IInv, NEW h \in Handler, Write(h)
  PROVE  IInv'
<1> DEFINE w == work[h]
           gated == [w EXCEPT !.phase = "gate"]
<1>1. /\ Sound(w) /\ w \in Work /\ w.phase = "write" /\ w.restored = {}
      /\ w.control \in Control /\ w.to \in Status
  BY DEF IInv, RequestsSound, Sound, Write
<1>2. FreeOfLocks(w.control)
  BY <1>1 DEF Write, Unlocked, FreeOfLocks
<1>3. PICK v : Sound(v) /\ v.restored = {} /\ work' = [work EXCEPT ![h] = v]
  <2>1. CASE IsComplianceTransition(w.seen, w.to)
    <3>1. Sound(gated) /\ gated.restored = {}
      BY <1>1 DEF Sound, Work, Phase
    <3>2. work' = [work EXCEPT ![h] = gated]
      BY <2>1 DEF Write
    <3>3. QED
      BY <3>1, <3>2
  <2>2. CASE ~IsComplianceTransition(w.seen, w.to)
    BY <1>1, <2>2, ContinueSound DEF Write, IInv
  <2>3. QED
    BY <2>1, <2>2
<1>4. /\ work' \in [Handler -> Work]
      /\ RequestsSound'
      /\ \A g \in Handler : work'[g].restored \subseteq work[g].restored
  BY <1>3, RequestMoves DEF IInv
<1>5. SetByPerson(w.control, w.to, "gated")
  BY DEF Write
<1>6. /\ TypeOK' /\ HumanWorkStands'
      /\ \A g \in Handler : \A d \in work[g].restored : status'[d] = status[d]
  BY <1>1, <1>2, <1>4, <1>5, PersonWrites DEF Write, IInv, TypeOK
<1>7. LocksHold'
  BY <1>4, <1>6, LocksKept DEF IInv
<1>8. LedgerRemembersNoCredit'
  BY DEF Write, IInv, LedgerRemembersNoCredit
<1>9. QED
  BY <1>4, <1>6, <1>7, <1>8 DEF IInv

\* The inherit upsert overwrites its target and notes what it held.
LEMMA InheritWriteStep ==
  ASSUME IInv, NEW h \in Handler, InheritWrite(h)
  PROVE  IInv'
<1> DEFINE w == work[h]
           t == w.target
           previous == IF w.to = Swc THEN w.seen ELSE None
           v == [w EXCEPT !.phase = "inherit", !.todo = @ \ {t}, !.target = None,
                          !.seen = None, !.kept[t] = previous]
           way == IF w.to = Swc THEN "credit" ELSE "direct"
<1>1. /\ Sound(w) /\ w \in Work /\ w.phase = "overwrite" /\ w.restored = {}
      /\ t \in Control /\ w.to \in Status /\ w.seen \in Status /\ w.control \in Control
  BY DEF IInv, RequestsSound, Sound, InheritWrite
<1>2. FreeOfLocks(t)
  BY <1>1 DEF InheritWrite, Unlocked, FreeOfLocks
<1>3. work' = [work EXCEPT ![h] = v]
  BY <1>1 DEF InheritWrite, IInv, TypeOK, Work
<1>4. previous \in Status \cup {None}
  BY <1>1
<1> HIDE DEF previous
<1>5. Sound(v) /\ v.restored = {}
  BY <1>1, <1>4 DEF Sound, Work, Phase
<1>6. /\ work' \in [Handler -> Work]
      /\ RequestsSound'
      /\ \A g \in Handler : work'[g].restored \subseteq work[g].restored
  BY <1>3, <1>5, RequestMoves DEF IInv
<1>7. SetByPerson(t, w.to, way) /\ way \in {"gated", "direct", "credit"}
  BY DEF InheritWrite
<1>8. /\ TypeOK' /\ HumanWorkStands'
      /\ \A g \in Handler : \A d \in work[g].restored : status'[d] = status[d]
  <2> HIDE DEF way
  <2>1. QED
    BY <1>1, <1>2, <1>6, <1>7, PersonWrites DEF InheritWrite, IInv, TypeOK
<1>9. LocksHold'
  BY <1>6, <1>8, LocksKept DEF IInv
<1>10. LedgerRemembersNoCredit'
  BY DEF InheritWrite, IInv, LedgerRemembersNoCredit
<1>11. QED
  BY <1>6, <1>8, <1>9, <1>10 DEF IInv

\* A finding or work item writes its status, or finds a row after all.
LEMMA DirectWriteStep ==
  ASSUME IInv, NEW h \in Handler, DirectWrite(h)
  PROVE  IInv'
<1> DEFINE w == work[h]
<1>1. /\ Sound(w) /\ w \in Work /\ w.phase = "direct" /\ w.restored = {}
      /\ w.control \in Control /\ w.to \in Status
  BY DEF IInv, RequestsSound, Sound, DirectWrite
<1>2. CASE UNCHANGED <<status, asked, by, filed>>
  BY <1>2, FinishStep DEF DirectWrite
<1>3. CASE Unlocked(h, w.control) /\ SetByPerson(w.control, w.to, "direct")
  <2>1. FreeOfLocks(w.control)
    BY <1>1, <1>3 DEF Unlocked, FreeOfLocks
  <2>2. /\ work' \in [Handler -> Work]
        /\ RequestsSound'
        /\ \A g \in Handler : work'[g].restored \subseteq work[g].restored
    BY IdleSound, RequestMoves DEF DirectWrite, Finish, IInv
  <2>3. /\ TypeOK' /\ HumanWorkStands'
        /\ \A g \in Handler : \A d \in work[g].restored : status'[d] = status[d]
    BY <1>1, <1>3, <2>1, <2>2, PersonWrites DEF DirectWrite, IInv, TypeOK
  <2>4. LocksHold'
    BY <2>2, <2>3, LocksKept DEF IInv
  <2>5. LedgerRemembersNoCredit'
    BY DEF DirectWrite, IInv, LedgerRemembersNoCredit
  <2>6. QED
    BY <2>2, <2>3, <2>4, <2>5 DEF IInv
<1>4. QED
  BY <1>2, <1>3 DEF DirectWrite

\* One statement sets the status a person asked for.
LEMMA DirectStep ==
  ASSUME IInv, NEW c \in Control, NEW s \in Status, DirectlySet(c, s)
  PROVE  IInv'
<1>1. FreeOfLocks(c) /\ SetByPerson(c, s, "direct") /\ work' = work /\ credits' = credits
  BY DEF DirectlySet
<1>2. /\ TypeOK' /\ HumanWorkStands'
      /\ \A g \in Handler : \A d \in work[g].restored : status'[d] = status[d]
  BY <1>1, PersonWrites DEF IInv, TypeOK
<1>3. LocksHold'
  BY <1>1, <1>2, LocksKept DEF IInv
<1>4. RequestsSound' /\ LedgerRemembersNoCredit'
  BY <1>1 DEF IInv, RequestsSound, LedgerRemembersNoCredit
<1>5. QED
  BY <1>2, <1>3, <1>4 DEF IInv

\* Crediting only rewrites a control that nobody has started, so a status a
\* person asked for stands; a locked row is credited already and unchanged.
LEMMA CreditTargetStep ==
  ASSUME IInv, NEW h \in Handler, NEW t \in Control, CreditTarget(h, t)
  PROVE  IInv'
<1> DEFINE w == work[h]
           previous == IF Credited(status[t]) = Swc THEN Had(status[t]) ELSE None
           v == [w EXCEPT !.todo = @ \ {t}, !.kept[t] = previous]
<1>1. /\ Sound(w) /\ w \in Work /\ w.phase = "credit" /\ w.restored = {}
      /\ w.to \in Status /\ w.control \in Control
  BY DEF IInv, RequestsSound, Sound, CreditTarget
<1>2. work' = [work EXCEPT ![h] = v]
  BY DEF CreditTarget, IInv, TypeOK
<1>3. previous \in Status \cup {None}
  BY DEF IInv, TypeOK, Had, Status
<1> HIDE DEF previous
<1>4. Sound(v) /\ v.restored = {}
  BY <1>1, <1>3 DEF Sound, Work, Phase
<1>5. /\ work' \in [Handler -> Work]
      /\ RequestsSound'
      /\ \A g \in Handler : work'[g].restored \subseteq work[g].restored
  BY <1>2, <1>4, RequestMoves DEF IInv
<1>6. \A d \in Control : status'[d] = IF d = t THEN Credited(status[d]) ELSE status[d]
  BY DEF CreditTarget, IInv, TypeOK
<1>7. TypeOK'
  BY <1>5, <1>6 DEF CreditTarget, IInv, TypeOK, Credited, Status, Swc
<1>8. HumanWorkStands'
  BY <1>6 DEF CreditTarget, IInv, HumanWorkStands, Credited, Unworked
<1>9. \A g \in Handler : \A d \in work[g].restored : status'[d] = status[d]
  <2>1. \A g \in Handler : \A d \in work[g].restored : d \in Control /\ status[d] = Swc
    BY DEF IInv, LocksHold, TypeOK, Work
  <2>2. Credited(Swc) = Swc
    BY NoneIsNoStatus DEF Credited, Swc, Status
  <2>3. QED
    BY <1>6, <2>1, <2>2
<1>10. LocksHold'
  BY <1>5, <1>9, LocksKept DEF IInv
<1>11. LedgerRemembersNoCredit'
  BY DEF CreditTarget, IInv, LedgerRemembersNoCredit
<1>12. QED
  BY <1>5, <1>7, <1>8, <1>10, <1>11 DEF IInv

\* recordCredits adds to the ledger no row that remembers a credit.
LEMMA RecordCreditsStep ==
  ASSUME IInv, NEW h \in Handler, RecordCredits(h)
  PROVE  IInv'
<1> DEFINE w == work[h]
           Rows(t) == IF w.kept[t] = None THEN credits[t]
                      ELSE Recorded(credits[t], w.control, w.kept[t])
<1>1. /\ Sound(w) /\ w \in Work /\ w.phase = "record" /\ w.control \in Control
      /\ \A t \in Control : w.kept[t] # Swc
  BY DEF IInv, RequestsSound, Sound, RecordCredits
<1>2. credits' = [t \in Control |-> Rows(t)] /\ work' = [work EXCEPT ![h] = Idle]
  BY DEF RecordCredits, Finish
<1>3. ASSUME NEW t \in Control
      PROVE  Rows(t) \in Seq(Row) /\ \A i \in DOMAIN Rows(t) : Rows(t)[i].previous # Swc
  <2>1. credits[t] \in Seq(Row) /\ \A i \in DOMAIN credits[t] : credits[t][i].previous # Swc
    BY DEF IInv, TypeOK, LedgerRemembersNoCredit
  <2>2. CASE w.kept[t] = None
    BY <2>1, <2>2
  <2>3. CASE w.kept[t] # None
    <3>1. w.kept[t] \in Status /\ w.kept[t] # Swc
      BY <1>1, <2>3 DEF Work
    <3>2. QED
      BY <1>1, <2>1, <2>3, <3>1, RecordedRows
  <2>4. QED
    BY <2>2, <2>3
<1> HIDE DEF Rows
<1>4. /\ work' \in [Handler -> Work]
      /\ RequestsSound'
      /\ \A g \in Handler : work'[g].restored \subseteq work[g].restored
  BY <1>2, IdleSound, RequestMoves DEF IInv
<1>5. TypeOK'
  BY <1>2, <1>3, <1>4 DEF RecordCredits, IInv, TypeOK
<1>6. LocksHold'
  BY <1>4, LocksKept DEF RecordCredits, IInv
<1>7. HumanWorkStands'
  BY DEF RecordCredits, IInv, HumanWorkStands
<1>8. LedgerRemembersNoCredit'
  BY <1>2, <1>3 DEF LedgerRemembersNoCredit
<1>9. QED
  BY <1>4, <1>5, <1>6, <1>7, <1>8 DEF IInv

\* What a withdrawal publishes: rows that were credited get the status their
\* ledger row remembered, which is not the credit; no other row changes.
LEMMA Published ==
  ASSUME IInv, NEW h \in Handler, CommitWithdrawal(h)
  PROVE  /\ work[h].restored \subseteq Control
         /\ \A c \in work[h].restored :
              status[c] = Swc /\ work[h].kept[c] \in Status \ {Swc}
         /\ status' = [c \in Control |->
              IF c \in work[h].restored THEN work[h].kept[c] ELSE status[c]]
         /\ UNCHANGED asked
<1>1. Sound(work[h]) /\ work[h] \in Work /\ work[h].phase = "check"
  BY DEF IInv, RequestsSound, Sound, CommitWithdrawal
<1>2. \A c \in work[h].restored : c \in Control /\ work[h].kept[c] \in Status \ {Swc}
  BY <1>1 DEF Sound, Work
<1>3. \A c \in work[h].restored : status[c] = Swc
  BY DEF IInv, LocksHold
<1>4. QED
  BY <1>2, <1>3 DEF CommitWithdrawal, View

\* A withdrawal commits: credits go back to what their rows remember.
LEMMA CommitWithdrawalStep ==
  ASSUME IInv, NEW h \in Handler, CommitWithdrawal(h)
  PROVE  IInv'
<1> DEFINE w == work[h]
           Remaining(t) == IF w.kept[t] = None THEN credits[t]
                           ELSE Without(credits[t], w.control)
<1>1. /\ w.restored \subseteq Control
      /\ \A c \in w.restored : status[c] = Swc /\ w.kept[c] \in Status \ {Swc}
      /\ status' = [c \in Control |-> IF c \in w.restored THEN w.kept[c] ELSE status[c]]
      /\ asked' = asked
  BY Published
<1>2. work' = [work EXCEPT ![h] = Idle]
  BY DEF CommitWithdrawal, Finish
<1>3. credits' = [t \in Control |-> Remaining(t)]
  BY DEF CommitWithdrawal
<1>4. /\ work' \in [Handler -> Work]
      /\ RequestsSound'
      /\ \A g \in Handler : work'[g].restored \subseteq work[g].restored
  BY <1>2, IdleSound, RequestMoves DEF IInv
<1>5. ASSUME NEW t \in Control
      PROVE  /\ Remaining(t) \in Seq(Row)
             /\ \A i \in DOMAIN Remaining(t) : Remaining(t)[i].previous # Swc
  <2>1. credits[t] \in Seq(Row) /\ \A i \in DOMAIN credits[t] : credits[t][i].previous # Swc
    BY DEF IInv, TypeOK, LedgerRemembersNoCredit
  <2>2. /\ Without(credits[t], w.control) \in Seq(Row)
        /\ \A i \in DOMAIN Without(credits[t], w.control) :
             \E j \in DOMAIN credits[t] : Without(credits[t], w.control)[i] = credits[t][j]
    BY <2>1, WithoutRows
  <2>3. QED
    BY <2>1, <2>2
<1> HIDE DEF Remaining
<1>6. LedgerRemembersNoCredit'
  BY <1>3, <1>5 DEF LedgerRemembersNoCredit
<1>7. TypeOK'
  <2>1. status' \in [Control -> Status \cup {None}]
    BY <1>1 DEF IInv, TypeOK
  <2>2. credits' \in [Control -> Seq(Row)]
    BY <1>3, <1>5
  <2>3. by' \in [Control -> {"nobody", "gated", "direct", "credit", "restored"}]
    BY DEF CommitWithdrawal, IInv, TypeOK
  <2>4. filed' \subseteq Control
    BY DEF CommitWithdrawal, IInv, TypeOK
  <2>5. QED
    BY <1>1, <1>4, <2>1, <2>2, <2>3, <2>4 DEF IInv, TypeOK
<1>8. HumanWorkStands'
  <2>1. \A c \in w.restored : asked[c] \in Unworked
    BY <1>1 DEF IInv, HumanWorkStands, Unworked
  <2>2. QED
    BY <1>1, <2>1 DEF IInv, HumanWorkStands
<1>9. LocksHold'
  <2>1. \A g \in Handler : work'[g].restored = IF g = h THEN {} ELSE work[g].restored
    BY <1>2, IdleSound DEF IInv, TypeOK
  <2>2. \A g \in Handler \ {h} : \A c \in work[g].restored :
          c \in Control /\ c \notin w.restored /\ status[c] = Swc
    BY DEF IInv, LocksHold, TypeOK, Work
  <2>3. \A g \in Handler : \A c \in work'[g].restored : status'[c] = Swc
    BY <1>1, <2>1, <2>2
  <2>4. \A g, f \in Handler : g # f => work'[g].restored \cap work'[f].restored = {}
    BY <2>1 DEF IInv, LocksHold
  <2>5. QED
    BY <2>3, <2>4 DEF LocksHold
<1>10. QED
  BY <1>4, <1>6, <1>7, <1>8, <1>9 DEF IInv

\* Rows are created for controls that have none: nobody has asked for a status
\* of theirs that must stand, and none of them is locked.
LEMMA CreateStep ==
  ASSUME IInv, NEW T \in SUBSET Control, NEW s \in {"not_started", Swc},
         \A t \in T : status[t] = None,
         status' = [c \in Control |-> IF c \in T THEN s ELSE status[c]],
         by' \in [Control -> {"nobody", "gated", "direct", "credit", "restored"}],
         UNCHANGED <<credits, work, asked, filed>>
  PROVE  IInv'
<1>1. TypeOK' /\ RequestsSound' /\ LedgerRemembersNoCredit'
  BY DEF IInv, TypeOK, RequestsSound, LedgerRemembersNoCredit, Status, Swc
<1>2. HumanWorkStands'
  BY DEF IInv, HumanWorkStands, Unworked
<1>3. \A g \in Handler : \A d \in work[g].restored : status'[d] = status[d]
  <2>1. \A g \in Handler : \A d \in work[g].restored : d \in Control /\ status[d] = Swc
    BY DEF IInv, LocksHold, TypeOK, Work
  <2>2. None # Swc
    BY NoneIsNoStatus DEF Status, Swc
  <2>3. QED
    BY <2>1, <2>2
<1>4. LocksHold'
  BY <1>3, LocksKept DEF IInv
<1>5. QED
  BY <1>1, <1>2, <1>4 DEF IInv
-----------------------------------------------------------------------------
(***************************************************************************)
(* The invariant                                                           *)
(***************************************************************************)

\* An organization without rows satisfies the invariant.
LEMMA InitIInv == Init => IInv
<1> SUFFICES ASSUME Init PROVE IInv
  OBVIOUS
<1>1. RequestsSound /\ \A h \in Handler : work[h] \in Work /\ work[h].restored = {}
  BY IdleSound DEF Init, RequestsSound, Sound
<1>2. TypeOK
  BY <1>1 DEF Init, TypeOK
<1>3. LocksHold
  BY <1>1 DEF LocksHold
<1>4. HumanWorkStands /\ LedgerRemembersNoCredit
  BY DEF Init, HumanWorkStands, Unworked, LedgerRemembersNoCredit
<1>5. QED
  BY <1>1, <1>2, <1>3, <1>4 DEF IInv

\* The operations that are one statement keep the invariant.
LEMMA StatementStep ==
  ASSUME IInv, NEW c \in Control, OneStatement(c)
  PROVE  IInv'
<1>1. CASE Ensure(c)
  <2>1. status' = [d \in Control |-> IF d \in {c} THEN "not_started" ELSE status[d]]
    BY <1>1 DEF Ensure, IInv, TypeOK
  <2>2. by' \in [Control -> {"nobody", "gated", "direct", "credit", "restored"}]
    BY <1>1 DEF Ensure, IInv, TypeOK
  <2>3. QED
    BY <1>1, <2>1, <2>2, CreateStep DEF Ensure
<1>2. CASE Review(c)
  BY <1>2, DirectStep DEF Review, Status
<1>3. CASE \E s \in Asked : ApproveSuggestion(c, s)
  BY <1>3, DirectStep, Parameters DEF AskedType, ApproveSuggestion
<1>4. QED
  BY <1>1, <1>2, <1>3 DEF OneStatement

\* Activating frameworks credits only controls without a row.
LEMMA RehydrateStep ==
  ASSUME IInv, NEW T \in SUBSET Control, Rehydrate(T)
  PROVE  IInv'
<1>1. by' \in [Control -> {"nobody", "gated", "direct", "credit", "restored"}]
  BY DEF Rehydrate, IInv, TypeOK
<1>2. QED
  BY <1>1, CreateStep DEF Rehydrate

\* What the server does for an accepted request keeps the invariant.
LEMMA ServerStepKeeps ==
  ASSUME IInv, NEW h \in Handler, ServerStep(h) \/ Fail(h)
  PROVE  IInv'
<1>1. CASE Write(h)
  BY <1>1, WriteStep
<1>2. CASE Gate(h)
  BY <1>2, GateStep
<1>3. CASE ResolvePrevious(h)
  BY <1>3, ResolvePreviousStep
<1>4. CASE RecordCredits(h)
  BY <1>4, RecordCreditsStep
<1>5. CASE DeleteCredits(h)
  BY <1>5, DeleteCreditsStep
<1>6. CASE RestoreTarget(h)
  BY <1>6, RestoreTargetStep
<1>7. CASE CommitWithdrawal(h)
  BY <1>7, CommitWithdrawalStep
<1>8. CASE DeadlockAbort(h) \/ Fail(h)
  BY <1>8, FinishStep DEF DeadlockAbort, Fail
<1>9. CASE InheritWrite(h)
  BY <1>9, InheritWriteStep
<1>10. CASE DirectWrite(h)
  BY <1>10, DirectWriteStep
<1>11. ASSUME NEW t \in Control, CreditTarget(h, t) \/ CheckTarget(h, t) \/ InheritRead(h, t)
       PROVE  IInv'
  BY <1>11, CreditTargetStep, CheckTargetStep, InheritReadStep
<1>12. QED
  BY <1>1, <1>2, <1>3, <1>4, <1>5, <1>6, <1>7, <1>8, <1>9, <1>10, <1>11
     DEF ServerStep

\* Every statement keeps the invariant.
LEMMA NextIInv == IInv /\ [Next]_vars => IInv'
<1> SUFFICES ASSUME IInv, [Next]_vars PROVE IInv'
  OBVIOUS
<1>1. ASSUME NEW h \in Handler, ServerStep(h) \/ Fail(h) PROVE IInv'
  BY <1>1, ServerStepKeeps
<1>2. ASSUME NEW h \in Handler, NEW c \in Control, NewRequest(h, c) PROVE IInv'
  BY <1>2, BeginStep, InheritBeginStep, DirectBeginStep
     DEF NewRequest, FlagByFinding, UpdateWorkItem, Status
<1>3. ASSUME NEW c \in Control, OneStatement(c) PROVE IInv'
  BY <1>3, StatementStep
<1>4. ASSUME NEW T \in SUBSET Control, Rehydrate(T) PROVE IInv'
  BY <1>4, RehydrateStep
<1>5. CASE UNCHANGED vars
  BY <1>5 DEF vars, IInv, TypeOK, RequestsSound, LocksHold, HumanWorkStands,
              LedgerRemembersNoCredit
<1>6. QED
  BY <1>1, <1>2, <1>3, <1>4, <1>5 DEF Next

\* Everything the invariant says holds of every reachable state, with any
\* number of requests interleaved and any statement of theirs failing.
THEOREM Invariance == Spec => []IInv
BY InitIInv, NextIInv, PTL DEF Spec

\* Every variable keeps its type: recordCredits and the restoring UPDATE only
\* ever write statuses, whatever the ledger and the open transactions hold.
THEOREM TypeCorrect == Spec => []TypeOK
<1>1. IInv => TypeOK
  BY DEF IInv
<1>2. QED
  BY <1>1, Invariance, PTL

\* The automation never touches human work: crediting, withdrawing and
\* rehydrating leave every status a person asked for alone, however their
\* statements interleave with the person's.
THEOREM HumanWorkIsSafe == Spec => []HumanWorkStands
<1>1. IInv => HumanWorkStands
  BY DEF IInv
<1>2. QED
  BY <1>1, Invariance, PTL

\* No ledger row remembers a credit as the status to go back to, although
\* recordCredits reads the row it resolves from in an earlier statement.
THEOREM NoCreditRemembered == Spec => []LedgerRemembersNoCredit
<1>1. IInv => LedgerRemembersNoCredit
  BY DEF IInv
<1>2. QED
  BY <1>1, Invariance, PTL
-----------------------------------------------------------------------------
(***************************************************************************)
(* CrosswalkCredits implements CrosswalkPosture                            *)
(***************************************************************************)

\* The two modules share their vocabulary.
LEMMA SameWords == Posture!Status = Status /\ Posture!Swc = Swc
BY DEF Status, Swc, Posture!Status, Posture!Swc

\* A status a person asked for is written: PersonSets.
LEMMA PersonRefines ==
  ASSUME NEW c \in Control, NEW s \in Status, NEW way, SetByPerson(c, s, way)
  PROVE  Posture!Next
BY SameWords DEF SetByPerson, Posture!Next, Posture!PersonSets

\* Unstarted controls become satisfied through the crosswalk: Credit.
LEMMA CreditRefines ==
  ASSUME IInv, NEW T \in SUBSET Control,
         \A t \in T : status[t] \in {None, "not_started"},
         status' = [c \in Control |-> IF c \in T THEN Swc ELSE status[c]],
         UNCHANGED asked
  PROVE  Posture!Next
BY SameWords DEF Posture!Next, Posture!Credit

\* The commit of a withdrawal takes credits back: Withdraw.
LEMMA WithdrawalRefines ==
  ASSUME IInv, NEW h \in Handler, CommitWithdrawal(h)
  PROVE  Posture!Next
<1> DEFINE T == work[h].restored
           back == [c \in Control |-> IF c \in T THEN work[h].kept[c] ELSE "not_started"]
<1>1. /\ T \in SUBSET Control
      /\ \A c \in T : status[c] = Swc /\ work[h].kept[c] \in Status \ {Swc}
      /\ status' = [c \in Control |-> IF c \in T THEN work[h].kept[c] ELSE status[c]]
      /\ UNCHANGED asked
  BY Published
<1>2. back \in [Control -> Status \ {Swc}]
  BY <1>1 DEF Status, Swc
<1>3. status' = [c \in Control |-> IF c \in T THEN back[c] ELSE status[c]]
  BY <1>1
<1> HIDE DEF T, back
<1>4. Posture!Withdraw(T)
  BY <1>1, <1>2, <1>3, SameWords DEF Posture!Withdraw
<1>5. QED
  BY <1>1, <1>4 DEF Posture!Next

\* The operations that are one statement are steps of the posture.
LEMMA StatementRefines ==
  ASSUME IInv, NEW c \in Control, OneStatement(c)
  PROVE  Posture!Next
<1>1. CASE Ensure(c)
  BY <1>1 DEF Ensure, Posture!Next, Posture!Enrol
<1>2. CASE Review(c)
  BY <1>2, PersonRefines DEF Review, DirectlySet, Status
<1>3. CASE \E s \in Asked : ApproveSuggestion(c, s)
  BY <1>3, PersonRefines, Parameters DEF AskedType, ApproveSuggestion, DirectlySet
<1>4. QED
  BY <1>1, <1>2, <1>3 DEF OneStatement

\* Each statement of a request is a step of the posture or a stutter.
LEMMA RequestRefines ==
  ASSUME IInv, NEW h \in Handler, ServerStep(h) \/ Fail(h)
  PROVE  Posture!Next \/ UNCHANGED <<status, asked>>
<1>1. CASE Write(h) \/ InheritWrite(h)
  <2>1. /\ work[h].phase \in {"write", "overwrite"} /\ Sound(work[h])
        /\ work[h].control \in Control /\ work[h].to \in Status
        /\ work[h].phase = "overwrite" => work[h].target \in Control
    BY <1>1 DEF IInv, RequestsSound, Sound, Write, InheritWrite
  <2>2. CASE Write(h)
    BY <2>1, <2>2, PersonRefines DEF Write
  <2>3. CASE InheritWrite(h)
    BY <2>1, <2>3, PersonRefines DEF InheritWrite
  <2>4. QED
    BY <1>1, <2>2, <2>3
<1>2. CASE DirectWrite(h)
  <2>1. Sound(work[h]) /\ work[h].control \in Control /\ work[h].to \in Status
    BY <1>2 DEF IInv, RequestsSound, Sound, DirectWrite
  <2>2. QED
    BY <1>2, <2>1, PersonRefines DEF DirectWrite
<1>3. ASSUME NEW t \in Control, CreditTarget(h, t)
      PROVE  Posture!Next \/ UNCHANGED <<status, asked>>
  <2>1. CASE status[t] \in {None, "not_started"}
    <3>1. status' = [c \in Control |-> IF c \in {t} THEN Swc ELSE status[c]]
      BY <1>3, <2>1 DEF CreditTarget, Credited, IInv, TypeOK
    <3>2. QED
      BY <1>3, <2>1, <3>1, CreditRefines DEF CreditTarget
  <2>2. CASE status[t] \notin {None, "not_started"}
    BY <1>3, <2>2 DEF CreditTarget, Credited, IInv, TypeOK
  <2>3. QED
    BY <2>1, <2>2
<1>4. CASE CommitWithdrawal(h)
  BY <1>4, WithdrawalRefines
<1>5. CASE Gate(h) \/ ResolvePrevious(h) \/ RecordCredits(h) \/ DeleteCredits(h)
           \/ RestoreTarget(h) \/ DeadlockAbort(h) \/ Fail(h)
  BY <1>5 DEF Gate, ResolvePrevious, RecordCredits, DeleteCredits, RestoreTarget,
              DeadlockAbort, Fail
<1>6. ASSUME NEW t \in Control, CheckTarget(h, t) \/ InheritRead(h, t)
      PROVE  UNCHANGED <<status, asked>>
  BY <1>6 DEF CheckTarget, InheritRead
<1>7. QED
  BY <1>1, <1>2, <1>3, <1>4, <1>5, <1>6 DEF ServerStep

\* Every step of the requests maps to a step of the posture or a stutter.
LEMMA StepRefines == IInv /\ [Next]_vars => [Posture!Next]_(Posture!vars)
<1> SUFFICES ASSUME IInv, [Next]_vars
             PROVE  Posture!Next \/ UNCHANGED <<status, asked>>
  BY DEF Posture!vars
<1>1. ASSUME NEW h \in Handler, ServerStep(h) \/ Fail(h)
      PROVE  Posture!Next \/ UNCHANGED <<status, asked>>
  BY <1>1, RequestRefines
<1>2. ASSUME NEW h \in Handler, NEW c \in Control, NewRequest(h, c)
      PROVE  UNCHANGED <<status, asked>>
  BY <1>2 DEF NewRequest, PutBegin, PatchBegin, InheritBegin, FlagByFinding,
              UpdateWorkItem, DirectBegin
<1>3. ASSUME NEW c \in Control, OneStatement(c) PROVE Posture!Next
  BY <1>3, StatementRefines
<1>4. ASSUME NEW T \in SUBSET Control, Rehydrate(T) PROVE Posture!Next
  BY <1>4, CreditRefines DEF Rehydrate
<1>5. CASE UNCHANGED vars
  BY <1>5 DEF vars
<1>6. QED
  BY <1>1, <1>2, <1>3, <1>4, <1>5 DEF Next

\* The initial states map to the initial states.
LEMMA InitRefines == Init => Posture!Init
BY DEF Init, Posture!Init

\* Seen through the statuses alone, the requests, the ledger and the
\* withdrawal transactions do no more than the posture allows: they credit
\* controls nobody has started and take back credits, in whatever order.
THEOREM Refinement == Spec => PostureSpec
<1>1. Spec => Posture!Init /\ [][Posture!Next]_(Posture!vars)
  BY InitRefines, StepRefines, Invariance, PTL DEF Spec
<1>2. QED
  BY <1>1 DEF PostureSpec, Posture!Spec
-----------------------------------------------------------------------------
(***************************************************************************)
(* Credit and its ledger                                                   *)
(***************************************************************************)

\* Clients only use PUT, PATCH and the endpoint that makes sure a row exists,
\* wait for an answer before they edit the same control again, and no statement
\* fails.
Orderly == Exclusive /\ ~Faults /\ Endpoints \subseteq {"put", "patch", "ensure"}

SourcesOf(rows) == {rows[i].source : i \in DOMAIN rows}

\* The unique constraint, and what the ledger remembers when nothing but PUT
\* credits.
TidyRows(rows) ==
  /\ \A i, j \in DOMAIN rows : rows[i].source = rows[j].source => i = j
  /\ \A i \in DOMAIN rows : rows[i].previous = "not_started"
LedgerTidy == \A t \in Control : TidyRows(credits[t])

\* The statements left to a source that no longer justifies credit.
Lapsing == {"withdraw", "check", "restore"}

\* What is true of one request in an orderly organization: after its write the
\* control has a row, and a source that withdraws no longer justifies credit.
TidyRequest(w) ==
  /\ w.phase \in {"idle", "write", "gate", "credit", "record"} \cup Lapsing
  /\ w.phase = "idle" => w = Idle
  /\ w.phase \notin {"idle", "write"} => status[w.control] # None
  /\ w.phase \in Lapsing \/ (w.phase = "gate" /\ w.to \notin Crediting)
       => status[w.control] \notin Crediting
  /\ \A t \in Control : w.kept[t] \in {None, "not_started", Swc}

OwnControls ==
  \A g, h \in Handler :
    g # h /\ work[g].phase # "idle" /\ work[h].phase # "idle" => work[g].control # work[h].control

\* A request has credited the target and is about to record it.
Recording(t) ==
  \E h \in Handler : work[h].phase \in {"credit", "record"} /\ work[h].kept[t] # None

\* No withdrawal has passed the target over that is about to delete the row of s.
Stays(t, s) ==
  \A h \in Handler :
    work[h].phase \in {"check", "restore"} /\ work[h].control = s
      => t \in work[h].todo \cup work[h].restored

CreditAccounted ==
  \A t \in Control :
    status[t] = Swc /\ by[t] = "credit" =>
      Recording(t) \/ \E s \in SourcesOf(credits[t]) : Stays(t, s)

\* The invariant of requests that overlap, each on a control of its own.
CreditIInv ==
  /\ IInv /\ LedgerTidy /\ OwnControls /\ CreditAccounted
  /\ \A h \in Handler : TidyRequest(work[h])

OneRequest ==
  \A g, h \in Handler : work[g].phase # "idle" /\ work[h].phase # "idle" => g = h

\* What one request at a time can rely on: what it has read is so; the targets it
\* has credited are satisfied; and what it restores has no other source.
Reliable(w) ==
  /\ w.phase = "write" => w.seen = Had(status[w.control])
  /\ w.phase = "gate" => status[w.control] = w.to
  /\ w.phase \in {"write", "gate"} => w.kept = NoneKept
  /\ w.phase \in {"credit", "record"} =>
       /\ status[w.control] \in Crediting
       /\ \A t \in Control : w.kept[t] # None => status[t] = Swc
  /\ w.phase \in {"check", "restore"} =>
       /\ \A t \in Control : w.control \in SourcesOf(credits[t]) => w.kept[t] # None
       /\ \A t \in w.restored : SourcesOf(credits[t]) \subseteq {w.control}
  /\ w.phase = "restore" => SourcesOf(credits[w.target]) \subseteq {w.control}

\* A restored control has no source, and every source justifies its credit or is
\* being withdrawn.
RestoredHasNone ==
  \A t \in Control :
    by[t] = "restored" => status[t] = "not_started" /\ SourcesOf(credits[t]) = {}
SourcesJustify ==
  \A t \in Control : \A s \in SourcesOf(credits[t]) :
    status[s] \in Crediting \/ \E h \in Handler : work[h].phase \in Lapsing /\ work[h].control = s

\* The invariant of one request at a time.
SerialIInv ==
  /\ CreditIInv /\ OneRequest /\ RestoredHasNone /\ SourcesJustify
  /\ \A h \in Handler : Reliable(work[h])
-----------------------------------------------------------------------------
\* The rows that are left when one is removed, in their order.
LEMMA RowsLeft ==
  ASSUME NEW rows \in Seq(Row), NEW k \in 1..Len(rows)
  PROVE  /\ RemoveAt(rows, k) \in Seq(Row)
         /\ DOMAIN RemoveAt(rows, k) = 1..(Len(rows) - 1)
         /\ \A i \in 1..(Len(rows) - 1) :
              RemoveAt(rows, k)[i] = IF i < k THEN rows[i] ELSE rows[i + 1]
<1> DEFINE before == SubSeq(rows, 1, k - 1)
           after == SubSeq(rows, k + 1, Len(rows))
<1>1. Len(rows) \in Nat /\ k \in Nat
  OBVIOUS
<1>2. /\ before \in Seq(Row) /\ Len(before) = k - 1
      /\ \A j \in 1..(k - 1) : before[j] = rows[j]
  BY <1>1
<1>3. /\ after \in Seq(Row) /\ Len(after) = Len(rows) - k
      /\ \A j \in 1..(Len(rows) - k) : after[j] = rows[j + k]
  BY <1>1
<1>4. RemoveAt(rows, k) = before \o after
  BY DEF RemoveAt
<1> HIDE DEF before, after
<1>5. RemoveAt(rows, k) \in Seq(Row) /\ DOMAIN RemoveAt(rows, k) = 1..(Len(rows) - 1)
  BY <1>1, <1>2, <1>3, <1>4
<1>6. ASSUME NEW i \in 1..(Len(rows) - 1)
      PROVE  RemoveAt(rows, k)[i] = IF i < k THEN rows[i] ELSE rows[i + 1]
  <2>1. CASE i < k
    BY <1>1, <1>2, <1>3, <1>4, <1>6, <2>1
  <2>2. CASE i >= k
    <3>1. i - (k - 1) \in 1..(Len(rows) - k)
      BY <1>1, <1>6, <2>2
    <3>2. RemoveAt(rows, k)[i] = after[i - (k - 1)]
      BY <1>1, <1>2, <1>3, <1>4, <1>6, <2>2
    <3>3. QED
      BY <1>1, <1>3, <1>6, <2>2, <3>1, <3>2
  <2>3. QED
    BY <1>1, <1>6, <2>1, <2>2
<1>7. QED
  BY <1>5, <1>6

\* Removing a source's row leaves the rows of the others.
LEMMA WithoutSource ==
  ASSUME NEW rows \in Seq(Row), NEW s, TidyRows(rows)
  PROVE  /\ TidyRows(Without(rows, s))
         /\ SourcesOf(Without(rows, s)) = SourcesOf(rows) \ {s}
<1>1. CASE RowsOf(rows, s) = {}
  BY <1>1 DEF Without, RowsOf, SourcesOf
<1>2. CASE RowsOf(rows, s) # {}
  <2>1. PICK k : k = RowOf(rows, s)
    OBVIOUS
  <2>2. k \in DOMAIN rows /\ rows[k].source = s
    BY <1>2, <2>1 DEF RowOf, RowsOf
  <2>3. k \in 1..Len(rows) /\ Len(rows) \in Nat /\ k \in Nat
    BY <2>2
  <2>4. PICK left : left = RemoveAt(rows, k)
    OBVIOUS
  <2>5. /\ Without(rows, s) = left /\ DOMAIN left = 1..(Len(rows) - 1)
        /\ \A i \in DOMAIN left : left[i] = IF i < k THEN rows[i] ELSE rows[i + 1]
    BY <1>2, <2>1, <2>3, <2>4, RowsLeft DEF Without
  <2> DEFINE old(i) == IF i < k THEN i ELSE i + 1
  <2>6. \A i \in DOMAIN left : old(i) \in DOMAIN rows /\ old(i) # k /\ left[i] = rows[old(i)]
    BY <2>3, <2>5
  <2>7. \A i, j \in DOMAIN left : old(i) = old(j) => i = j
    BY <2>3, <2>5
  <2>8. \A j \in DOMAIN rows : j # k => \E i \in DOMAIN left : left[i] = rows[j]
    <3> SUFFICES ASSUME NEW j \in DOMAIN rows, j # k
                 PROVE  \E i \in DOMAIN left : left[i] = rows[j]
      OBVIOUS
    <3>1. CASE j < k
      BY <2>3, <2>5, <3>1
    <3>2. CASE j > k
      <4>1. j - 1 \in DOMAIN left /\ ~(j - 1 < k) /\ (j - 1) + 1 = j
        BY <2>3, <2>5, <3>2
      <4>2. QED
        BY <2>5, <4>1
    <3>3. QED
      BY <2>3, <3>1, <3>2
  <2> HIDE DEF old
  <2>9. TidyRows(left)
    BY <2>6, <2>7 DEF TidyRows
  <2>10. \A i \in DOMAIN left : left[i].source # s
    BY <2>2, <2>6 DEF TidyRows
  <2>11. SourcesOf(left) = SourcesOf(rows) \ {s}
    BY <2>2, <2>6, <2>8, <2>10 DEF SourcesOf
  <2>12. QED
    BY <2>5, <2>9, <2>11
<1>3. QED
  BY <1>1, <1>2

\* Recording a credit adds its source.
LEMMA RecordedSource ==
  ASSUME NEW rows \in Seq(Row), NEW s \in Control, TidyRows(rows)
  PROVE  /\ TidyRows(Recorded(rows, s, "not_started"))
         /\ SourcesOf(Recorded(rows, s, "not_started")) = SourcesOf(rows) \cup {s}
<1>1. PICK kept : kept = Without(rows, s)
  OBVIOUS
<1>2. kept \in Seq(Row) /\ TidyRows(kept) /\ SourcesOf(kept) = SourcesOf(rows) \ {s}
  BY <1>1, WithoutRows, WithoutSource
<1>3. RowsOf(rows, s) # {} => rows[RowOf(rows, s)].previous = "not_started"
  BY DEF RowsOf, RowOf, TidyRows
<1>4. PICK row : row = [source |-> s, previous |-> "not_started"]
  OBVIOUS
<1>5. row \in Row /\ row.source = s /\ row.previous = "not_started"
  BY <1>4 DEF Row, Status
<1>6. PICK new : new = Append(kept, row)
  OBVIOUS
<1>7. Recorded(rows, s, "not_started") = new
  BY <1>1, <1>3, <1>4, <1>6 DEF Recorded
<1>8. /\ DOMAIN new = 1..(Len(kept) + 1) /\ DOMAIN kept = 1..Len(kept) /\ Len(kept) \in Nat
      /\ \A i \in DOMAIN kept : new[i] = kept[i]
      /\ new[Len(kept) + 1] = row
  BY <1>2, <1>5, <1>6
<1>9. \A i \in DOMAIN new : i \in DOMAIN kept \/ i = Len(kept) + 1
  BY <1>8
<1>10. \A i \in DOMAIN kept : kept[i].source # s
  BY <1>2 DEF SourcesOf
<1>11. TidyRows(new)
  BY <1>2, <1>5, <1>8, <1>9, <1>10 DEF TidyRows
<1>12. SourcesOf(new) = SourcesOf(kept) \cup {s}
  <2>1. Len(kept) + 1 \in DOMAIN new
    BY <1>8
  <2>2. DOMAIN kept \subseteq DOMAIN new
    BY <1>8
  <2>3. QED
    BY <1>5, <1>8, <1>9, <2>1, <2>2 DEF SourcesOf
<1>13. QED
  BY <1>2, <1>7, <1>11, <1>12 DEF SourcesOf
-----------------------------------------------------------------------------
(***************************************************************************)
(* Requests that overlap                                                   *)
(***************************************************************************)

\* A step of one request leaves what is true of the others, if it writes no
\* crediting status for them.
LEMMA OthersTidy ==
  ASSUME CreditIInv, NEW h \in Handler,
         \A g \in Handler \ {h} : work'[g] = work[g],
         TidyRequest(work[h])',
         \A g \in Handler \ {h} : work[g].phase # "idle" =>
           LET c == work[g].control IN
           /\ status[c] # None => status'[c] # None
           /\ status'[c] \in Crediting => status[c] \in Crediting
  PROVE  \A g \in Handler : TidyRequest(work[g])'
<1> SUFFICES ASSUME NEW g \in Handler \ {h} PROVE TidyRequest(work[g])'
  OBVIOUS
<1>1. PICK w : w = work[g] /\ w = work'[g]
  OBVIOUS
<1>2. TidyRequest(w)
  BY <1>1 DEF CreditIInv
<1>3. w.phase # "idle" => /\ status[w.control] # None => status'[w.control] # None
                          /\ status'[w.control] \in Crediting => status[w.control] \in Crediting
  BY <1>1
<1>4. w.phase \in Lapsing \/ w.phase = "gate" => w.phase # "idle"
  BY DEF Lapsing
<1>5. TidyRequest(w)'
  BY <1>2, <1>3, <1>4 DEF TidyRequest
<1>6. QED
  BY <1>1, <1>5 DEF TidyRequest

\* A step that changes nothing but the record of one request.
LEMMA RequestOnly ==
  ASSUME CreditIInv, IInv', NEW h \in Handler, NEW w,
         work' = [work EXCEPT ![h] = w], UNCHANGED <<status, credits, by>>,
         TidyRequest(w),
         \A g \in Handler \ {h} :
           work[g].phase # "idle" /\ w.phase # "idle" => work[g].control # w.control,
         \A t \in Control :
           status[t] = Swc /\ by[t] = "credit"
           /\ (Recording(t) \/ \E s \in SourcesOf(credits[t]) : Stays(t, s))
           => (Recording(t) \/ \E s \in SourcesOf(credits[t]) : Stays(t, s))'
  PROVE  CreditIInv'
<1>1. \A g \in Handler : work'[g] = IF g = h THEN w ELSE work[g]
  BY DEF CreditIInv, IInv, TypeOK
<1>2. TidyRequest(work[h])'
  BY <1>1 DEF TidyRequest
<1>3. \A g \in Handler : TidyRequest(work[g])'
  BY <1>1, <1>2, OthersTidy
<1>4. OwnControls'
  BY <1>1 DEF CreditIInv, OwnControls
<1>5. LedgerTidy'
  BY DEF CreditIInv, LedgerTidy
<1>6. CreditAccounted'
  BY DEF CreditIInv, CreditAccounted
<1>7. QED
  BY <1>3, <1>4, <1>5, <1>6 DEF CreditIInv

\* The same, for a request that goes on with the same control, has no target to
\* record or goes on recording it, and passes no target over.
LEMMA GoesOn ==
  ASSUME CreditIInv, IInv', NEW h \in Handler, NEW w,
         work' = [work EXCEPT ![h] = w], UNCHANGED <<status, credits, by>>,
         TidyRequest(w), work[h].phase # "idle",
         w.phase # "idle" => w.control = work[h].control,
         work[h].phase \in {"credit", "record"} =>
           \A t \in Control : work[h].kept[t] # None =>
             w.phase \in {"credit", "record"} /\ w.kept[t] # None,
         w.phase \in {"check", "restore"} =>
           \A t \in Control : status[t] = Swc /\ w.control \in SourcesOf(credits[t])
             => \/ work[h].phase \in {"check", "restore"} /\ t \notin work[h].todo \cup work[h].restored
                \/ t \in w.todo \cup w.restored
  PROVE  CreditIInv'
<1>1. \A g \in Handler : work'[g] = IF g = h THEN w ELSE work[g]
  BY DEF CreditIInv, IInv, TypeOK
<1>2. \A g \in Handler \ {h} :
        work[g].phase # "idle" /\ w.phase # "idle" => work[g].control # w.control
  BY DEF CreditIInv, OwnControls
<1>3. ASSUME NEW t \in Control, Recording(t) PROVE Recording(t)'
  BY <1>1, <1>3 DEF Recording
<1>4. ASSUME NEW t \in Control, NEW s \in SourcesOf(credits[t]), status[t] = Swc, Stays(t, s)
      PROVE  Stays(t, s)'
  <2> SUFFICES ASSUME NEW g \in Handler, work'[g].phase \in {"check", "restore"}, work'[g].control = s
               PROVE  t \in work'[g].todo \cup work'[g].restored
    BY DEF Stays
  <2>1. CASE g # h
    BY <1>1, <1>4, <2>1 DEF Stays
  <2>2. CASE g = h
    <3>1. w.phase \in {"check", "restore"} /\ w.control = s /\ work[h].control = s
      BY <1>1, <2>2
    <3>2. t \in w.todo \cup w.restored
      BY <1>4, <3>1 DEF Stays
    <3>3. QED
      BY <1>1, <2>2, <3>2
  <2>3. QED
    BY <2>1, <2>2
<1>5. ASSUME NEW t \in Control, status[t] = Swc,
             Recording(t) \/ \E s \in SourcesOf(credits[t]) : Stays(t, s)
      PROVE  (Recording(t) \/ \E s \in SourcesOf(credits[t]) : Stays(t, s))'
  <2>1. CASE Recording(t)
    BY <1>3, <2>1
  <2>2. ASSUME NEW s \in SourcesOf(credits[t]), Stays(t, s)
        PROVE  \E r \in SourcesOf(credits'[t]) : Stays(t, r)'
    BY <1>4, <1>5, <2>2
  <2>3. QED
    BY <1>5, <2>1, <2>2
<1>6. QED
  BY <1>2, <1>5, RequestOnly

\* The record of an idle request.
LEMMA IdleTidy == TidyRequest(Idle) /\ Idle.phase = "idle"
BY DEF TidyRequest, Idle, NoneKept, Lapsing

\* PUT and PATCH begin on a control no other request is about.
LEMMA CreditBegin ==
  ASSUME Orderly, CreditIInv, IInv', NEW h \in Handler, NEW c \in Control, NEW s \in Asked,
         PutBegin(h, c, s) \/ PatchBegin(h, c, s)
  PROVE  CreditIInv'
<1>1. PICK w : /\ work' = [work EXCEPT ![h] = w] /\ w.phase = "write" /\ w.control = c
               /\ w.kept = NoneKept
  <2> DEFINE w(kind) == [Idle EXCEPT !.phase = "write", !.kind = kind,
                                     !.control = c, !.to = s,
                                     !.seen = Had(status[c])]
  <2>1. PICK kind : work' = [work EXCEPT ![h] = w(kind)]
    BY DEF PutBegin, PatchBegin, Begin
  <2>2. w(kind).phase = "write" /\ w(kind).control = c /\ w(kind).kept = NoneKept
    BY DEF Idle
  <2> HIDE DEF w
  <2>3. QED
    BY <2>1, <2>2
<1>2. UNCHANGED <<status, credits, by>> /\ work[h].phase = "idle"
      /\ \A g \in Handler : work[g].control # c
  BY DEF PutBegin, PatchBegin, MayStart, Orderly
<1>3. TidyRequest(w)
  BY <1>1 DEF TidyRequest, Lapsing, NoneKept
<1>4. \A g \in Handler : work'[g] = IF g = h THEN w ELSE work[g]
  BY <1>1 DEF CreditIInv, IInv, TypeOK
<1>5. ASSUME NEW t \in Control PROVE Recording(t) => Recording(t)'
  BY <1>2, <1>4 DEF Recording
<1>6. ASSUME NEW t \in Control, NEW r, Stays(t, r) PROVE Stays(t, r)'
  BY <1>1, <1>4, <1>6 DEF Stays
<1>7. ASSUME NEW t \in Control,
             Recording(t) \/ \E r \in SourcesOf(credits[t]) : Stays(t, r)
      PROVE  (Recording(t) \/ \E r \in SourcesOf(credits[t]) : Stays(t, r))'
  BY <1>2, <1>5, <1>6, <1>7
<1>8. QED
  BY <1>1, <1>2, <1>3, <1>7, RequestOnly

\* A request that ends without having credited anything.
LEMMA CreditFinish ==
  ASSUME CreditIInv, IInv', NEW h \in Handler, work[h].phase # "idle", Finish(h),
         UNCHANGED <<status, credits, by>>,
         work[h].phase \in {"credit", "record"} => \A t \in Control : work[h].kept[t] = None
  PROVE  CreditIInv'
BY IdleTidy, GoesOn DEF Finish

\* How a request goes on after its write and the gate.
LEMMA Continued ==
  ASSUME IInv, NEW h \in Handler, work[h].phase \in {"write", "gate"}, Continue(h)
  PROVE  \E w : /\ work' = [work EXCEPT ![h] = w]
                /\ w.phase \in {"idle", "credit", "withdraw"}
                /\ w.phase = "idle" => w = Idle
                /\ w.phase # "idle" => w.control = work[h].control /\ w.kept = work[h].kept
                /\ w.phase = "credit" => work[h].to = "implemented"
                /\ w.phase = "withdraw" <=>
                     work[h].seen \in Crediting /\ work[h].to \notin Crediting
<1>1. PICK v : v = work[h]
  OBVIOUS
<1>2. v \in Work
  BY <1>1 DEF IInv, TypeOK
<1>3. CASE v.kind = "put" /\ v.to = "implemented"
  <2> DEFINE w == [v EXCEPT !.phase = "credit", !.todo = Mapped[v.control]]
  <2>1. work' = [work EXCEPT ![h] = w]
    BY <1>1, <1>2, <1>3 DEF Continue, IInv, TypeOK, Work
  <2>2. w.phase = "credit" /\ w.control = v.control /\ w.kept = v.kept
    BY <1>2 DEF Work
  <2> HIDE DEF w
  <2>3. QED
    BY <1>1, <1>3, <2>1, <2>2 DEF Crediting
<1>4. CASE ~(v.kind = "put" /\ v.to = "implemented") /\ v.seen \in Crediting /\ v.to \notin Crediting
  <2> DEFINE w == [v EXCEPT !.phase = "withdraw"]
  <2>1. work' = [work EXCEPT ![h] = w]
    BY <1>1, <1>2, <1>4 DEF Continue, IInv, TypeOK, Work
  <2>2. w.phase = "withdraw" /\ w.control = v.control /\ w.kept = v.kept
    BY <1>2 DEF Work
  <2> HIDE DEF w
  <2>3. QED
    BY <1>1, <1>4, <2>1, <2>2
<1>5. CASE ~(v.kind = "put" /\ v.to = "implemented") /\ ~(v.seen \in Crediting /\ v.to \notin Crediting)
  BY <1>1, <1>5, IdleTidy DEF Continue, Finish
<1>6. QED
  BY <1>3, <1>4, <1>5

\* The gate goes on.
LEMMA CreditGate ==
  ASSUME CreditIInv, IInv', NEW h \in Handler, Gate(h)
  PROVE  CreditIInv'
<1>1. work[h].phase = "gate" /\ Continue(h) /\ UNCHANGED <<status, credits, by>>
  BY DEF Gate
<1>2. PICK w : /\ work' = [work EXCEPT ![h] = w]
               /\ w.phase \in {"idle", "credit", "withdraw"}
               /\ w.phase = "idle" => w = Idle
               /\ w.phase # "idle" => w.control = work[h].control /\ w.kept = work[h].kept
               /\ w.phase = "withdraw" <=>
                    work[h].seen \in Crediting /\ work[h].to \notin Crediting
  BY <1>1, Continued DEF CreditIInv
<1>3. TidyRequest(work[h])
  BY DEF CreditIInv
<1>4. TidyRequest(w)
  <2>1. CASE w.phase = "idle"
    BY <1>2, <2>1, IdleTidy
  <2>2. CASE w.phase # "idle"
    BY <1>1, <1>2, <1>3, <2>2 DEF TidyRequest, Lapsing
  <2>3. QED
    BY <2>1, <2>2
<1>5. QED
  BY <1>1, <1>2, <1>4, GoesOn

\* What is about to be recorded: the targets that were credited.
LEMMA Resolves ==
  ASSUME CreditIInv, NEW h \in Handler, ResolvePrevious(h), work[h].kept # NoneKept
  PROVE  \E w : /\ work' = [work EXCEPT ![h] = w]
                /\ w.phase = "record" /\ w.control = work[h].control
                /\ \A t \in Control : /\ w.kept[t] \in {None, "not_started"}
                                      /\ w.kept[t] # None <=> work[h].kept[t] # None
<1>1. PICK v : v = work[h]
  OBVIOUS
<1>2. TidyRequest(v) /\ v \in Work
  BY <1>1 DEF CreditIInv, IInv, TypeOK
<1> DEFINE kept == [t \in Control |-> Resolved(t, v.kept[t])]
           w == [v EXCEPT !.phase = "record", !.kept = kept]
<1>3. work' = [work EXCEPT ![h] = w]
  BY <1>1 DEF ResolvePrevious, CreditIInv, IInv, TypeOK
<1>4. ASSUME NEW t \in Control
      PROVE  /\ kept[t] \in {None, "not_started"}
             /\ v.kept[t] # None <=> kept[t] # None
  <2>1. EarliestPrevious(t) = "not_started"
    <3>1. credits[t] # <<>> => 1 \in DOMAIN credits[t]
      BY DEF CreditIInv, IInv, TypeOK
    <3>2. QED
      BY <3>1 DEF EarliestPrevious, CreditIInv, LedgerTidy, TidyRows
  <2>2. v.kept[t] \in {None, "not_started", Swc}
    BY <1>2 DEF TidyRequest
  <2>3. "not_started" # None /\ Swc # None /\ Swc # "not_started"
    BY NoneIsNoStatus DEF Status, Swc
  <2>4. QED
    BY <2>1, <2>2, <2>3 DEF Resolved
<1> HIDE DEF kept
<1>5. w.phase = "record" /\ w.kept = kept /\ w.control = v.control
  BY <1>2 DEF Work
<1> HIDE DEF w
<1>6. QED
  BY <1>1, <1>3, <1>4, <1>5

\* A request goes on to record what it has credited, or ends if that is nothing.
LEMMA CreditResolve ==
  ASSUME CreditIInv, IInv', NEW h \in Handler, ResolvePrevious(h)
  PROVE  CreditIInv'
<1>1. PICK v : v = work[h]
  OBVIOUS
<1>2. TidyRequest(v) /\ v.phase = "credit" /\ UNCHANGED <<status, credits, by>>
  BY <1>1 DEF CreditIInv, ResolvePrevious, TidyRequest, Lapsing
<1>3. CASE v.kept = NoneKept
  BY <1>1, <1>2, <1>3, CreditFinish DEF ResolvePrevious, NoneKept
<1>4. CASE v.kept # NoneKept
  <2>1. PICK w : /\ work' = [work EXCEPT ![h] = w]
                 /\ w.phase = "record" /\ w.control = v.control
                 /\ \A t \in Control : /\ w.kept[t] \in {None, "not_started"}
                                       /\ w.kept[t] # None <=> v.kept[t] # None
    BY <1>1, <1>4, Resolves
  <2>2. TidyRequest(w)
    BY <1>2, <2>1 DEF TidyRequest, Lapsing
  <2>3. QED
    BY <1>1, <1>2, <2>1, <2>2, GoesOn
<1>5. QED
  BY <1>3, <1>4

\* A withdrawal takes every row of its source in hand.
LEMMA Deleted ==
  ASSUME CreditIInv, NEW h \in Handler, DeleteCredits(h)
  PROVE  \E w : /\ work' = [work EXCEPT ![h] = w]
                /\ w.phase = "check" /\ w.control = work[h].control
                /\ w.restored = work[h].restored
                /\ \A t \in Control : /\ t \in w.todo <=> w.control \in SourcesOf(credits[t])
                                      /\ w.kept[t] = IF t \in w.todo THEN "not_started" ELSE None
<1>1. PICK v : v = work[h]
  OBVIOUS
<1>2. v \in Work
  BY <1>1 DEF CreditIInv, IInv, TypeOK
<1> DEFINE targets == {t \in Control : RowsOf(credits[t], v.control) # {}}
           kept == [t \in Control |-> IF t \in targets
                                      THEN credits[t][RowOf(credits[t], v.control)].previous
                                      ELSE None]
           w == [v EXCEPT !.phase = "check", !.todo = targets, !.kept = kept]
<1>3. work' = [work EXCEPT ![h] = w]
  BY <1>1 DEF DeleteCredits, CreditIInv, IInv, TypeOK
<1>4. \A t \in Control : t \in targets <=> v.control \in SourcesOf(credits[t])
  BY DEF RowsOf, SourcesOf
<1>5. \A t \in Control : kept[t] = IF t \in targets THEN "not_started" ELSE None
  <2> SUFFICES ASSUME NEW t \in Control, t \in targets
               PROVE  credits[t][RowOf(credits[t], v.control)].previous = "not_started"
    OBVIOUS
  <2>1. RowOf(credits[t], v.control) \in DOMAIN credits[t]
    BY DEF RowOf, RowsOf
  <2>2. QED
    BY <2>1 DEF CreditIInv, LedgerTidy, TidyRows
<1> HIDE DEF targets, kept
<1>6. /\ w.phase = "check" /\ w.control = v.control /\ w.restored = v.restored
      /\ w.todo = targets /\ w.kept = kept
  BY <1>2 DEF Work
<1> HIDE DEF w
<1>7. QED
  BY <1>1, <1>3, <1>4, <1>5, <1>6

\* The withdrawal begins.
LEMMA CreditDelete ==
  ASSUME CreditIInv, IInv', NEW h \in Handler, DeleteCredits(h)
  PROVE  CreditIInv'
<1>1. PICK w : /\ work' = [work EXCEPT ![h] = w]
               /\ w.phase = "check" /\ w.control = work[h].control
               /\ \A t \in Control : /\ t \in w.todo <=> w.control \in SourcesOf(credits[t])
                                     /\ w.kept[t] = IF t \in w.todo THEN "not_started" ELSE None
  BY Deleted
<1>2. work[h].phase = "withdraw" /\ UNCHANGED <<status, credits, by>> /\ TidyRequest(work[h])
  BY DEF DeleteCredits, CreditIInv
<1>3. TidyRequest(w)
  BY <1>1, <1>2 DEF TidyRequest, Lapsing
<1>4. QED
  BY <1>1, <1>2, <1>3, GoesOn

\* A source seen to justify a credit in a withdrawal does so in what is committed.
LEMMA SeenCrediting ==
  ASSUME CreditIInv, NEW h \in Handler, NEW c, View(h, c) \in Crediting
  PROVE  c \notin work[h].restored /\ status[c] \in Crediting
<1>1. ASSUME c \in work[h].restored PROVE FALSE
  <2>1. TidyRequest(work[h]) /\ c \in Control
    BY <1>1 DEF CreditIInv, IInv, TypeOK, Work
  <2>2. work[h].kept[c] \in {None, "not_started", Swc}
    BY <2>1 DEF TidyRequest
  <2>3. QED
    BY <1>1, <2>2, NoneIsNoStatus DEF View, Crediting, Status, Swc
<1>2. QED
  BY <1>1 DEF View

\* How a withdrawal goes on after it has looked for another source.
LEMMA Checked ==
  ASSUME CreditIInv, NEW h \in Handler, NEW t \in Control, CheckTarget(h, t)
  PROVE  \E w : /\ work' = [work EXCEPT ![h] = w]
                /\ w.control = work[h].control /\ w.kept = work[h].kept
                /\ w.restored = work[h].restored
                /\ \/ /\ w.phase = "check" /\ w.todo = work[h].todo \ {t}
                      /\ StillCredited(h, t)
                   \/ /\ w.phase = "restore" /\ w.target = t /\ w.todo = work[h].todo
                      /\ ~StillCredited(h, t)
<1>1. PICK v : v = work[h]
  OBVIOUS
<1>2. v \in Work
  BY <1>1 DEF CreditIInv, IInv, TypeOK
<1>3. CASE StillCredited(h, t)
  <2> DEFINE w == [v EXCEPT !.todo = @ \ {t}]
  <2>1. work' = [work EXCEPT ![h] = w]
    BY <1>1, <1>3 DEF CheckTarget, CreditIInv, IInv, TypeOK
  <2>2. /\ w.control = v.control /\ w.kept = v.kept /\ w.restored = v.restored
        /\ w.phase = v.phase /\ w.todo = v.todo \ {t}
    BY <1>2 DEF Work
  <2> HIDE DEF w
  <2>3. v.phase = "check"
    BY <1>1 DEF CheckTarget
  <2>4. QED
    BY <1>1, <1>3, <2>1, <2>2, <2>3
<1>4. CASE ~StillCredited(h, t)
  <2> DEFINE w == [v EXCEPT !.phase = "restore", !.target = t]
  <2>1. work' = [work EXCEPT ![h] = w]
    BY <1>1, <1>4 DEF CheckTarget, CreditIInv, IInv, TypeOK
  <2>2. /\ w.control = v.control /\ w.kept = v.kept /\ w.restored = v.restored
        /\ w.phase = "restore" /\ w.target = t /\ w.todo = v.todo
    BY <1>2 DEF Work
  <2> HIDE DEF w
  <2>3. QED
    BY <1>1, <1>4, <2>1, <2>2
<1>5. QED
  BY <1>3, <1>4

\* A withdrawal passes a target over only for a source that justifies its credit,
\* and that no withdrawal is under way for.
LEMMA CreditCheck ==
  ASSUME CreditIInv, IInv', NEW h \in Handler, NEW t \in Control, CheckTarget(h, t)
  PROVE  CreditIInv'
<1>1. PICK w : /\ work' = [work EXCEPT ![h] = w]
               /\ w.control = work[h].control /\ w.kept = work[h].kept
               /\ w.restored = work[h].restored
               /\ \/ /\ w.phase = "check" /\ w.todo = work[h].todo \ {t}
                     /\ StillCredited(h, t)
                  \/ /\ w.phase = "restore" /\ w.todo = work[h].todo
                     /\ ~StillCredited(h, t)
  BY Checked
<1>2. /\ work[h].phase = "check" /\ UNCHANGED <<status, credits, by>> /\ TidyRequest(work[h])
      /\ w.phase \in {"check", "restore"}
  BY <1>1 DEF CheckTarget, CreditIInv
<1>3. TidyRequest(w)
  BY <1>1, <1>2 DEF TidyRequest, Lapsing
<1>4. CASE w.todo = work[h].todo
  BY <1>1, <1>2, <1>3, <1>4, GoesOn
<1>5. CASE w.todo = work[h].todo \ {t} /\ StillCredited(h, t)
  <2>1. \A g \in Handler : work'[g] = IF g = h THEN w ELSE work[g]
    BY <1>1 DEF CreditIInv, IInv, TypeOK
  <2>2. \A g \in Handler \ {h} :
          work[g].phase # "idle" /\ w.phase # "idle" => work[g].control # w.control
    BY <1>1, <1>2 DEF CreditIInv, OwnControls
  <2>3. PICK s \in SourcesOf(credits[t]) : s # work[h].control /\ View(h, s) \in Crediting
    BY <1>5 DEF StillCredited, SourcesOf
  <2>4. status[s] \in Crediting
    BY <2>3, SeenCrediting
  <2>5. \A g \in Handler : work[g].phase \in {"check", "restore"} => work[g].control # s
    BY <2>4 DEF CreditIInv, TidyRequest, Lapsing
  <2>6. Stays(t, s)'
    BY <1>1, <1>2, <2>1, <2>3, <2>5 DEF Stays
  <2>7. ASSUME NEW r \in Control, Recording(r) PROVE Recording(r)'
    BY <1>2, <2>1, <2>7 DEF Recording
  <2>8. ASSUME NEW r \in Control, NEW q, r # t, Stays(r, q) PROVE Stays(r, q)'
    BY <1>1, <1>2, <1>5, <2>1, <2>8 DEF Stays
  <2>9. ASSUME NEW r \in Control,
               Recording(r) \/ \E q \in SourcesOf(credits[r]) : Stays(r, q)
        PROVE  (Recording(r) \/ \E q \in SourcesOf(credits[r]) : Stays(r, q))'
    <3>1. CASE r = t
      BY <1>2, <2>6, <3>1
    <3>2. CASE r # t
      BY <1>2, <2>7, <2>8, <2>9, <3>2
    <3>3. QED
      BY <3>1, <3>2
  <2>10. QED
    BY <1>1, <1>2, <1>3, <2>2, <2>9, RequestOnly
<1>6. QED
  BY <1>1, <1>4, <1>5

\* What the restoring UPDATE notes: its target is done, and locked if it was
\* satisfied.
LEMMA Locked ==
  ASSUME CreditIInv, NEW h \in Handler, RestoreTarget(h)
  PROVE  \E w : /\ work' = [work EXCEPT ![h] = w]
                /\ w.control = work[h].control /\ w.kept = work[h].kept /\ w.phase = "check"
                /\ w.todo = work[h].todo \ {work[h].target}
                /\ w.restored = IF View(h, work[h].target) = Swc
                                THEN work[h].restored \cup {work[h].target}
                                ELSE work[h].restored
<1>1. PICK v : v = work[h]
  OBVIOUS
<1>2. v \in Work
  BY <1>1 DEF CreditIInv, IInv, TypeOK
<1>3. PICK held : held = IF View(h, v.target) = Swc THEN v.restored \cup {v.target} ELSE v.restored
  OBVIOUS
<1> DEFINE w == [v EXCEPT !.phase = "check", !.todo = @ \ {v.target}, !.target = None,
                          !.restored = held]
<1>4. work' = [work EXCEPT ![h] = w]
  BY <1>1, <1>3 DEF RestoreTarget, IsRestorable, CreditIInv, IInv, TypeOK
<1>5. /\ w.control = v.control /\ w.kept = v.kept /\ w.phase = "check"
      /\ w.todo = v.todo \ {v.target} /\ w.restored = held
  BY <1>2 DEF Work
<1> HIDE DEF w
<1>6. QED
  BY <1>1, <1>3, <1>4, <1>5

\* A withdrawal locks its target, or finds it not satisfied.
LEMMA CreditRestore ==
  ASSUME CreditIInv, IInv', NEW h \in Handler, RestoreTarget(h)
  PROVE  CreditIInv'
<1>1. PICK w : /\ work' = [work EXCEPT ![h] = w]
               /\ w.control = work[h].control /\ w.kept = work[h].kept /\ w.phase = "check"
               /\ w.todo = work[h].todo \ {work[h].target}
               /\ w.restored = IF View(h, work[h].target) = Swc
                               THEN work[h].restored \cup {work[h].target}
                               ELSE work[h].restored
  BY Locked
<1>2. work[h].phase = "restore" /\ UNCHANGED <<status, credits, by>> /\ TidyRequest(work[h])
  BY DEF RestoreTarget, CreditIInv
<1>3. TidyRequest(w)
  BY <1>1, <1>2 DEF TidyRequest, Lapsing
<1>4. ASSUME NEW t \in Control, status[t] = Swc, t \in work[h].todo \cup work[h].restored
      PROVE  t \in w.todo \cup w.restored
  BY <1>1, <1>4 DEF View
<1>5. QED
  BY <1>1, <1>2, <1>3, <1>4, GoesOn

\* What a write leaves of the request, and of the status.
LEMMA Written ==
  ASSUME IInv, NEW h \in Handler, Write(h)
  PROVE  /\ \E w : /\ work' = [work EXCEPT ![h] = w]
                   /\ w.phase \in {"idle", "gate", "credit", "withdraw"}
                   /\ w.phase = "idle" => w = Idle
                   /\ w.phase # "idle" => w.control = work[h].control /\ w.kept = work[h].kept
                   /\ w.phase = "gate" =>
                        w.to = work[h].to /\ IsComplianceTransition(work[h].seen, work[h].to)
                   /\ w.phase = "credit" => work[h].to = "implemented"
                   /\ w.phase = "withdraw" => work[h].to \notin Crediting
                   /\ w.phase # "gate" =>
                        (w.phase = "withdraw" <=>
                           work[h].seen \in Crediting /\ work[h].to \notin Crediting)
         /\ work[h].control \in Control /\ work[h].to \in Status
         /\ \A c \in Control :
              /\ status'[c] = IF c = work[h].control THEN work[h].to ELSE status[c]
              /\ by'[c] = IF c = work[h].control THEN "gated" ELSE by[c]
         /\ UNCHANGED credits
<1>1. PICK v : v = work[h]
  OBVIOUS
<1>2. /\ v \in Work /\ v.phase = "write" /\ v.control \in Control /\ v.to \in Status
      /\ Sound(v)
  BY <1>1 DEF IInv, TypeOK, RequestsSound, Sound, Write
<1>3. /\ \A c \in Control :
           /\ status'[c] = IF c = v.control THEN v.to ELSE status[c]
           /\ by'[c] = IF c = v.control THEN "gated" ELSE by[c]
      /\ UNCHANGED credits
  BY <1>1, <1>2 DEF Write, SetByPerson, IInv, TypeOK
<1>4. CASE IsComplianceTransition(v.seen, v.to)
  <2> DEFINE w == [v EXCEPT !.phase = "gate"]
  <2>1. work' = [work EXCEPT ![h] = w]
    BY <1>1, <1>4 DEF Write, IInv, TypeOK
  <2>2. w.phase = "gate" /\ w.control = v.control /\ w.kept = v.kept /\ w.to = v.to
    BY <1>2 DEF Work
  <2> HIDE DEF w
  <2>3. QED
    BY <1>1, <1>2, <1>3, <1>4, <2>1, <2>2
<1>5. CASE ~IsComplianceTransition(v.seen, v.to)
  <2>1. Continue(h)
    BY <1>1, <1>5 DEF Write
  <2>2. PICK w : /\ work' = [work EXCEPT ![h] = w]
                 /\ w.phase \in {"idle", "credit", "withdraw"}
                 /\ w.phase = "idle" => w = Idle
                 /\ w.phase # "idle" => w.control = v.control /\ w.kept = v.kept
                 /\ w.phase = "credit" => v.to = "implemented"
                 /\ w.phase = "withdraw" <=> v.seen \in Crediting /\ v.to \notin Crediting
    BY <1>1, <1>2, <2>1, Continued
  <2>3. QED
    BY <1>1, <1>2, <1>3, <2>2
<1>6. QED
  BY <1>4, <1>5

\* A person's status is no credit of the automation's.
LEMMA CreditWrite ==
  ASSUME CreditIInv, IInv', NEW h \in Handler, Write(h)
  PROVE  CreditIInv'
<1>1. PICK v : v = work[h]
  OBVIOUS
<1>2. PICK w : /\ work' = [work EXCEPT ![h] = w]
               /\ w.phase \in {"idle", "gate", "credit", "withdraw"}
               /\ w.phase = "idle" => w = Idle
               /\ w.phase # "idle" => w.control = v.control /\ w.kept = v.kept
               /\ w.phase = "gate" => w.to = v.to
               /\ w.phase = "withdraw" => v.to \notin Crediting
  BY <1>1, Written DEF CreditIInv
<1>3. /\ v.control \in Control /\ v.to \in Status /\ UNCHANGED credits
      /\ \A c \in Control :
           /\ status'[c] = IF c = v.control THEN v.to ELSE status[c]
           /\ by'[c] = IF c = v.control THEN "gated" ELSE by[c]
  BY <1>1, Written DEF CreditIInv
<1>4. v.phase = "write" /\ TidyRequest(v)
  BY <1>1 DEF Write, CreditIInv
<1>5. \A g \in Handler : work'[g] = IF g = h THEN w ELSE work[g]
  BY <1>2 DEF CreditIInv, IInv, TypeOK
<1>6. TidyRequest(work[h])'
  <2>1. CASE w.phase = "idle"
    BY <1>2, <1>5, <2>1, IdleTidy DEF TidyRequest, Idle, Lapsing, NoneKept
  <2>2. CASE w.phase # "idle"
    <3>1. w.control = v.control /\ w.kept = v.kept /\ status'[w.control] = v.to /\ v.to # None
      BY <1>2, <1>3, <2>2, NoneIsNoStatus
    <3>2. \A t \in Control : w.kept[t] \in {None, "not_started", Swc}
      BY <1>4, <3>1 DEF TidyRequest
    <3>3. QED
      BY <1>2, <1>5, <2>2, <3>1, <3>2 DEF TidyRequest, Lapsing
  <2>3. QED
    BY <2>1, <2>2
<1>7. ASSUME NEW g \in Handler \ {h}, work[g].phase # "idle"
      PROVE  status'[work[g].control] = status[work[g].control]
  <2>1. work[g].control \in Control
    BY <1>7 DEF CreditIInv, IInv, RequestsSound, Sound
  <2>2. work[g].control # v.control
    BY <1>1, <1>4, <1>7 DEF CreditIInv, OwnControls
  <2>3. QED
    BY <1>3, <2>1, <2>2
<1>8. \A g \in Handler : TidyRequest(work[g])'
  BY <1>5, <1>6, <1>7, OthersTidy
<1>9. OwnControls'
  BY <1>1, <1>2, <1>4, <1>5 DEF CreditIInv, OwnControls
<1>10. \A t \in Control : Recording(t) => Recording(t)'
  BY <1>1, <1>4, <1>5 DEF Recording
<1>11. \A t \in Control : \A s : Stays(t, s) => Stays(t, s)'
  BY <1>2, <1>5 DEF Stays
<1>12. CreditAccounted'
  BY <1>3, <1>10, <1>11 DEF CreditIInv, CreditAccounted
<1>13. LedgerTidy'
  BY <1>3 DEF CreditIInv, LedgerTidy
<1>14. QED
  BY <1>8, <1>9, <1>12, <1>13 DEF CreditIInv

\* What crediting one target does.
LEMMA TargetCredited ==
  ASSUME IInv, NEW h \in Handler, NEW t \in Control, CreditTarget(h, t)
  PROVE  /\ \E w : /\ work' = [work EXCEPT ![h] = w]
                   /\ w.phase = "credit" /\ w.control = work[h].control
                   /\ w.to = work[h].to /\ w.todo = work[h].todo \ {t}
                   /\ \A d \in Control : w.kept[d] =
                        IF d # t THEN work[h].kept[d]
                        ELSE IF Credited(status[t]) = Swc THEN Had(status[t]) ELSE None
         /\ \A d \in Control :
              /\ status'[d] = IF d = t THEN Credited(status[t]) ELSE status[d]
              /\ by'[d] = IF d = t /\ Credited(status[t]) # status[t] THEN "credit" ELSE by[d]
         /\ UNCHANGED credits /\ work[h].phase = "credit"
<1>1. PICK v : v = work[h]
  OBVIOUS
<1>2. v \in Work /\ v.phase = "credit"
  BY <1>1 DEF IInv, TypeOK, CreditTarget
<1>3. PICK kept : kept = [v.kept EXCEPT ![t] = IF Credited(status[t]) = Swc
                                               THEN Had(status[t]) ELSE None]
  OBVIOUS
<1> DEFINE w == [v EXCEPT !.todo = @ \ {t}, !.kept = kept]
<1>4. work' = [work EXCEPT ![h] = w]
  BY <1>1, <1>2, <1>3 DEF CreditTarget, IInv, TypeOK, Work
<1>5. /\ w.phase = "credit" /\ w.control = v.control /\ w.to = v.to
      /\ w.todo = v.todo \ {t} /\ w.kept = kept
  BY <1>2 DEF Work
<1> HIDE DEF w
<1>6. \A d \in Control : w.kept[d] =
        IF d # t THEN v.kept[d] ELSE IF Credited(status[t]) = Swc THEN Had(status[t]) ELSE None
  BY <1>2, <1>3, <1>5 DEF Work
<1>7. \A d \in Control :
        /\ status'[d] = IF d = t THEN Credited(status[t]) ELSE status[d]
        /\ by'[d] = IF d = t /\ Credited(status[t]) # status[t] THEN "credit" ELSE by[d]
  BY DEF CreditTarget, IInv, TypeOK
<1>8. UNCHANGED credits
  BY DEF CreditTarget
<1>9. QED
  BY <1>1, <1>2, <1>4, <1>5, <1>6, <1>7, <1>8

\* A target that is satisfied is kept in hand until its credit is recorded.
LEMMA CreditCredit ==
  ASSUME CreditIInv, IInv', NEW h \in Handler, NEW t \in Control, CreditTarget(h, t)
  PROVE  CreditIInv'
<1>1. PICK v : v = work[h]
  OBVIOUS
<1>2. PICK w : /\ work' = [work EXCEPT ![h] = w]
               /\ w.phase = "credit" /\ w.control = v.control
               /\ \A d \in Control : w.kept[d] =
                    IF d # t THEN v.kept[d]
                    ELSE IF Credited(status[t]) = Swc THEN Had(status[t]) ELSE None
  BY <1>1, TargetCredited DEF CreditIInv
<1>3. /\ v.phase = "credit" /\ UNCHANGED credits
      /\ \A d \in Control :
           /\ status'[d] = IF d = t THEN Credited(status[t]) ELSE status[d]
           /\ by'[d] = IF d = t /\ Credited(status[t]) # status[t] THEN "credit" ELSE by[d]
  BY <1>1, TargetCredited DEF CreditIInv
<1>4. TidyRequest(v) /\ v.control \in Control
  BY <1>1, <1>3 DEF CreditIInv, IInv, RequestsSound, Sound
<1>5. \A g \in Handler : work'[g] = IF g = h THEN w ELSE work[g]
  BY <1>2 DEF CreditIInv, IInv, TypeOK
<1>6. /\ Swc # None /\ Swc \notin Crediting /\ Swc # "not_started" /\ "not_started" # None
      /\ "not_started" \notin Crediting /\ None \notin Crediting
  BY NoneIsNoStatus DEF Status, Swc, Crediting
<1>7. \A d \in Control : /\ status[d] # None => status'[d] # None
                         /\ status'[d] \in Crediting => status[d] \in Crediting
  BY <1>3, <1>6 DEF Credited
<1>8. Credited(status[t]) = Swc => Had(status[t]) \in {"not_started", Swc}
  BY <1>6 DEF Credited, Had
<1>9. TidyRequest(work[h])'
  <2>1. \A d \in Control : w.kept[d] \in {None, "not_started", Swc}
    BY <1>2, <1>4, <1>8 DEF TidyRequest
  <2>2. status'[w.control] # None
    BY <1>2, <1>3, <1>4, <1>7 DEF TidyRequest
  <2>3. QED
    BY <1>2, <1>5, <2>1, <2>2 DEF TidyRequest, Lapsing
<1>10. ASSUME NEW g \in Handler \ {h}, work[g].phase # "idle"
       PROVE  LET c == work[g].control IN
              /\ status[c] # None => status'[c] # None
              /\ status'[c] \in Crediting => status[c] \in Crediting
  <2>1. work[g].control \in Control
    BY <1>10 DEF CreditIInv, IInv, RequestsSound, Sound
  <2>2. QED
    BY <1>7, <2>1
<1>11. \A g \in Handler : TidyRequest(work[g])'
  BY <1>5, <1>9, <1>10, OthersTidy
<1>12. OwnControls'
  BY <1>1, <1>2, <1>3, <1>5 DEF CreditIInv, OwnControls
<1>13. ASSUME NEW d \in Control, status'[d] = Swc, by'[d] = "credit"
       PROVE  Recording(d)' \/ \E s \in SourcesOf(credits'[d]) : Stays(d, s)'
  <2>1. CASE d = t
    <3>1. w.kept[t] # None
      BY <1>2, <1>3, <1>6, <1>8, <1>13, <2>1
    <3>2. QED
      BY <1>2, <1>5, <2>1, <3>1 DEF Recording
  <2>2. CASE d # t
    <3>1. status[d] = Swc /\ by[d] = "credit"
      BY <1>3, <1>13, <2>2
    <3>2. Recording(d) => Recording(d)'
      BY <1>1, <1>2, <1>5, <2>2 DEF Recording
    <3>3. \A s : Stays(d, s) => Stays(d, s)'
      BY <1>2, <1>5 DEF Stays
    <3>4. QED
      BY <1>3, <3>1, <3>2, <3>3 DEF CreditIInv, CreditAccounted
  <2>3. QED
    BY <2>1, <2>2
<1>14. CreditAccounted'
  BY <1>13 DEF CreditAccounted
<1>15. LedgerTidy'
  BY <1>3 DEF CreditIInv, LedgerTidy
<1>16. QED
  BY <1>11, <1>12, <1>14, <1>15 DEF CreditIInv

\* What recording does to the ledger: the source is added to the targets credited.
LEMMA CreditsRecorded ==
  ASSUME CreditIInv, NEW h \in Handler, RecordCredits(h)
  PROVE  /\ work[h].phase = "record" /\ Finish(h) /\ UNCHANGED <<status, by>>
         /\ \A t \in Control :
              /\ TidyRows(credits'[t])
              /\ SourcesOf(credits'[t]) = IF work[h].kept[t] = None THEN SourcesOf(credits[t])
                                          ELSE SourcesOf(credits[t]) \cup {work[h].control}
<1>1. PICK v : v = work[h]
  OBVIOUS
<1>2. /\ v.phase = "record" /\ v.control \in Control /\ Finish(h) /\ UNCHANGED <<status, by>>
      /\ TidyRequest(v) /\ \A t \in Control : v.kept[t] # Swc
  BY <1>1 DEF RecordCredits, CreditIInv, IInv, RequestsSound, Sound
<1>3. ASSUME NEW t \in Control
      PROVE  credits'[t] = IF v.kept[t] = None THEN credits[t]
                           ELSE Recorded(credits[t], v.control, "not_started")
  <2>1. v.kept[t] # None => v.kept[t] = "not_started"
    BY <1>2 DEF TidyRequest
  <2>2. credits'[t] = IF v.kept[t] = None THEN credits[t]
                      ELSE Recorded(credits[t], v.control, v.kept[t])
    BY <1>1 DEF RecordCredits
  <2>3. QED
    BY <2>1, <2>2
<1>4. \A t \in Control : credits[t] \in Seq(Row) /\ TidyRows(credits[t])
  BY DEF CreditIInv, IInv, TypeOK, LedgerTidy
<1>5. QED
  BY <1>1, <1>2, <1>3, <1>4, RecordedSource

\* Once a credit is recorded, its row is there, and nobody is deleting it.
LEMMA CreditRecord ==
  ASSUME CreditIInv, IInv', NEW h \in Handler, RecordCredits(h)
  PROVE  CreditIInv'
<1>1. PICK v : v = work[h]
  OBVIOUS
<1>2. /\ v.phase = "record" /\ work' = [work EXCEPT ![h] = Idle] /\ UNCHANGED <<status, by>>
      /\ \A t \in Control :
           /\ TidyRows(credits'[t])
           /\ SourcesOf(credits'[t]) = IF v.kept[t] = None THEN SourcesOf(credits[t])
                                       ELSE SourcesOf(credits[t]) \cup {v.control}
  BY <1>1, CreditsRecorded DEF Finish
<1>3. \A g \in Handler : work'[g] = IF g = h THEN Idle ELSE work[g]
  BY <1>2 DEF CreditIInv, IInv, TypeOK
<1>4. TidyRequest(work[h])'
  BY <1>3, IdleTidy DEF TidyRequest, Idle, Lapsing, NoneKept
<1>5. \A g \in Handler : TidyRequest(work[g])'
  BY <1>2, <1>3, <1>4, OthersTidy
<1>6. OwnControls'
  BY <1>3, IdleTidy DEF CreditIInv, OwnControls
<1>7. \A t \in Control : \A s : Stays(t, s) => Stays(t, s)'
  BY <1>3, IdleTidy DEF Stays
<1>8. \A t \in Control : Stays(t, v.control)'
  BY <1>1, <1>2, <1>3, IdleTidy DEF Stays, CreditIInv, OwnControls
<1>9. \A t \in Control : v.kept[t] = None /\ Recording(t) => Recording(t)'
  BY <1>1, <1>3 DEF Recording
<1>10. CreditAccounted'
  BY <1>2, <1>7, <1>8, <1>9 DEF CreditIInv, CreditAccounted
<1>11. LedgerTidy'
  BY <1>2 DEF LedgerTidy
<1>12. QED
  BY <1>5, <1>6, <1>10, <1>11 DEF CreditIInv

\* What a withdrawal commits: what it restored goes back to not_started, and the
\* rows of its source that it has in hand are gone.
LEMMA Committed ==
  ASSUME CreditIInv, NEW h \in Handler, CommitWithdrawal(h)
  PROVE  /\ work[h].phase = "check" /\ work[h].todo = {} /\ Finish(h)
         /\ work[h].restored \subseteq Control
         /\ \A c \in work[h].restored : status[c] = Swc /\ work[h].kept[c] = "not_started"
         /\ \A c \in Control :
              /\ status'[c] = IF c \in work[h].restored THEN "not_started" ELSE status[c]
              /\ by'[c] = IF c \in work[h].restored THEN "restored" ELSE by[c]
              /\ TidyRows(credits'[c])
              /\ SourcesOf(credits'[c]) = IF work[h].kept[c] = None THEN SourcesOf(credits[c])
                                          ELSE SourcesOf(credits[c]) \ {work[h].control}
<1>1. PICK v : v = work[h]
  OBVIOUS
<1>2. /\ v.phase = "check" /\ v.todo = {} /\ Finish(h) /\ TidyRequest(v)
  BY <1>1 DEF CommitWithdrawal, CreditIInv
<1>3. /\ v.restored \subseteq Control
      /\ \A c \in v.restored : status[c] = Swc /\ v.kept[c] \in Status \ {Swc}
      /\ status' = [c \in Control |-> IF c \in v.restored THEN v.kept[c] ELSE status[c]]
  BY <1>1, Published DEF CreditIInv
<1>4. \A c \in v.restored : v.kept[c] = "not_started"
  BY <1>2, <1>3, NoneIsNoStatus DEF TidyRequest
<1>5. \A c \in Control :
        /\ by'[c] = IF c \in v.restored THEN "restored" ELSE by[c]
        /\ credits'[c] = IF v.kept[c] = None THEN credits[c] ELSE Without(credits[c], v.control)
  BY <1>1 DEF CommitWithdrawal
<1>6. \A t \in Control : credits[t] \in Seq(Row) /\ TidyRows(credits[t])
  BY DEF CreditIInv, IInv, TypeOK, LedgerTidy
<1>7. \A c \in Control :
        /\ TidyRows(credits'[c])
        /\ SourcesOf(credits'[c]) = IF v.kept[c] = None THEN SourcesOf(credits[c])
                                    ELSE SourcesOf(credits[c]) \ {v.control}
  BY <1>5, <1>6, WithoutSource
<1>8. QED
  BY <1>1, <1>2, <1>3, <1>4, <1>5, <1>7

\* A withdrawal deletes no row that a satisfied target still needs.
LEMMA CreditCommit ==
  ASSUME CreditIInv, IInv', NEW h \in Handler, CommitWithdrawal(h)
  PROVE  CreditIInv'
<1>1. PICK v : v = work[h]
  OBVIOUS
<1>2. /\ v.phase = "check" /\ v.todo = {} /\ work' = [work EXCEPT ![h] = Idle]
      /\ \A c \in v.restored : status[c] = Swc
      /\ \A c \in Control :
           /\ status'[c] = IF c \in v.restored THEN "not_started" ELSE status[c]
           /\ by'[c] = IF c \in v.restored THEN "restored" ELSE by[c]
           /\ TidyRows(credits'[c])
           /\ SourcesOf(credits'[c]) = IF v.kept[c] = None THEN SourcesOf(credits[c])
                                       ELSE SourcesOf(credits[c]) \ {v.control}
  BY <1>1, Committed DEF Finish
<1>3. \A g \in Handler : work'[g] = IF g = h THEN Idle ELSE work[g]
  BY <1>2 DEF CreditIInv, IInv, TypeOK
<1>4. TidyRequest(work[h])'
  BY <1>3, IdleTidy DEF TidyRequest, Idle, Lapsing, NoneKept
<1>5. "not_started" # None /\ "not_started" \notin Crediting
  BY NoneIsNoStatus DEF Status, Crediting
<1>6. ASSUME NEW g \in Handler \ {h}, work[g].phase # "idle"
      PROVE  LET c == work[g].control IN
             /\ status[c] # None => status'[c] # None
             /\ status'[c] \in Crediting => status[c] \in Crediting
  <2>1. work[g].control \in Control
    BY <1>6 DEF CreditIInv, IInv, RequestsSound, Sound
  <2>2. QED
    BY <1>2, <1>5, <2>1
<1>7. \A g \in Handler : TidyRequest(work[g])'
  BY <1>3, <1>4, <1>6, OthersTidy
<1>8. OwnControls'
  BY <1>3, IdleTidy DEF CreditIInv, OwnControls
<1>9. ASSUME NEW t \in Control, status'[t] = Swc, by'[t] = "credit"
      PROVE  Recording(t)' \/ \E s \in SourcesOf(credits'[t]) : Stays(t, s)'
  <2>1. t \notin v.restored /\ status[t] = Swc /\ by[t] = "credit"
    BY <1>2, <1>9
  <2>2. Recording(t) => Recording(t)'
    BY <1>1, <1>2, <1>3 DEF Recording
  <2>3. ASSUME NEW s \in SourcesOf(credits[t]), Stays(t, s)
        PROVE  s \in SourcesOf(credits'[t]) /\ Stays(t, s)'
    <3>1. s # v.control
      BY <1>1, <1>2, <2>1, <2>3 DEF Stays
    <3>2. Stays(t, s)'
      BY <1>3, <2>3, IdleTidy DEF Stays
    <3>3. QED
      BY <1>2, <3>1, <3>2
  <2>4. QED
    BY <2>1, <2>2, <2>3 DEF CreditIInv, CreditAccounted
<1>10. CreditAccounted'
  BY <1>9 DEF CreditAccounted
<1>11. LedgerTidy'
  BY <1>2 DEF LedgerTidy
<1>12. QED
  BY <1>7, <1>8, <1>10, <1>11 DEF CreditIInv

\* A row that is made sure of is no credit.
LEMMA CreditEnsure ==
  ASSUME CreditIInv, IInv', NEW c \in Control, Ensure(c)
  PROVE  CreditIInv'
<1>1. /\ \A d \in Control : status'[d] = IF d = c THEN "not_started" ELSE status[d]
      /\ status[c] = None /\ UNCHANGED <<credits, work, by>>
  BY DEF Ensure, CreditIInv, IInv, TypeOK
<1>2. "not_started" # None /\ "not_started" \notin Crediting /\ "not_started" # Swc
  BY NoneIsNoStatus DEF Status, Crediting, Swc
<1>3. ASSUME NEW g \in Handler PROVE TidyRequest(work[g])'
  <2>1. PICK w : w = work[g] /\ w = work'[g]
    BY <1>1
  <2>2. TidyRequest(w) /\ (w.phase # "idle" => w.control \in Control)
    BY <2>1 DEF CreditIInv, IInv, RequestsSound, Sound
  <2>3. w.phase # "idle" => /\ status[w.control] # None => status'[w.control] # None
                            /\ status'[w.control] \in Crediting => status[w.control] \in Crediting
    BY <1>1, <1>2, <2>2
  <2>4. TidyRequest(w)'
    BY <2>2, <2>3 DEF TidyRequest, Lapsing
  <2>5. QED
    BY <2>1, <2>4 DEF TidyRequest
<1>4. \A d \in Control : Recording(d) => Recording(d)'
  BY <1>1 DEF Recording
<1>5. \A d \in Control : \A s : Stays(d, s) => Stays(d, s)'
  BY <1>1 DEF Stays
<1>6. CreditAccounted'
  BY <1>1, <1>2, <1>4, <1>5 DEF CreditIInv, CreditAccounted
<1>7. LedgerTidy' /\ OwnControls'
  BY <1>1 DEF CreditIInv, LedgerTidy, OwnControls
<1>8. QED
  BY <1>3, <1>6, <1>7 DEF CreditIInv

\* In an orderly organization no request inherits or writes directly.
LEMMA OrderlyServer ==
  ASSUME Orderly, CreditIInv, NEW h \in Handler, ServerStep(h)
  PROVE  \/ Write(h) \/ Gate(h) \/ ResolvePrevious(h) \/ RecordCredits(h)
         \/ DeleteCredits(h) \/ RestoreTarget(h) \/ CommitWithdrawal(h) \/ DeadlockAbort(h)
         \/ \E t \in Control : CreditTarget(h, t) \/ CheckTarget(h, t)
<1>1. work[h].phase \notin {"inherit", "overwrite", "direct"}
  BY DEF CreditIInv, TidyRequest, Lapsing
<1>2. ~InheritWrite(h) /\ ~DirectWrite(h) /\ \A t : ~InheritRead(h, t)
  BY <1>1 DEF InheritWrite, DirectWrite, InheritRead
<1>3. QED
  BY <1>2 DEF ServerStep

\* Its clients use PUT and PATCH, or make sure that a row exists.
LEMMA OrderlyClients ==
  ASSUME Orderly, NEW c \in Control
  PROVE  /\ \A h \in Handler : NewRequest(h, c) => \E s \in Asked : PutBegin(h, c, s) \/ PatchBegin(h, c, s)
         /\ OneStatement(c) => Ensure(c)
<1>1. ASSUME NEW h \in Handler, NewRequest(h, c)
      PROVE  \E s \in Asked : PutBegin(h, c, s) \/ PatchBegin(h, c, s)
  <2>1. \A s, kind : kind \in {"inherit", "inherit_all"} => ~InheritBegin(h, c, s, kind)
    BY DEF InheritBegin, Orderly
  <2>2. ~FlagByFinding(h, c) /\ \A s : ~UpdateWorkItem(h, c, s)
    BY DEF FlagByFinding, UpdateWorkItem, DirectBegin, Orderly
  <2>3. QED
    BY <1>1, <2>1, <2>2 DEF NewRequest
<1>2. OneStatement(c) => Ensure(c)
  BY DEF OneStatement, Review, ApproveSuggestion, Orderly
<1>3. QED
  BY <1>1, <1>2

\* Every statement of every request keeps the credit accounted for.
LEMMA CreditStep ==
  ASSUME Orderly, CreditIInv, [Next]_vars
  PROVE  CreditIInv'
<1>1. IInv'
  BY NextIInv DEF CreditIInv
<1>2. CASE UNCHANGED vars
  <2>1. UNCHANGED <<status, credits, work, by>>
    BY <1>2 DEF vars
  <2>2. \A g \in Handler : TidyRequest(work[g])'
    BY <2>1 DEF CreditIInv, TidyRequest
  <2>3. CreditAccounted'
    BY <2>1 DEF CreditIInv, CreditAccounted, Recording, Stays
  <2>4. QED
    BY <1>1, <2>1, <2>2, <2>3 DEF CreditIInv, LedgerTidy, OwnControls
<1>3. ASSUME NEW h \in Handler, DeadlockAbort(h) PROVE CreditIInv'
  BY <1>1, <1>3, CreditFinish DEF DeadlockAbort
<1>4. ASSUME NEW h \in Handler, ServerStep(h) PROVE CreditIInv'
  BY <1>1, <1>3, <1>4, OrderlyServer, CreditWrite, CreditGate, CreditResolve, CreditRecord,
     CreditDelete, CreditRestore, CreditCommit, CreditCredit, CreditCheck
<1>5. ASSUME NEW c \in Control, OneStatement(c) \/ \E h \in Handler : NewRequest(h, c)
      PROVE  CreditIInv'
  BY <1>1, <1>5, OrderlyClients, CreditBegin, CreditEnsure
<1>6. QED
  BY <1>2, <1>4, <1>5 DEF Next, Fail, Rehydrate, Orderly

\* An organization without rows is in order.
LEMMA InitCredit == Init => CreditIInv
<1> SUFFICES ASSUME Init PROVE CreditIInv
  OBVIOUS
<1>1. \A h \in Handler : work[h] = Idle
  BY DEF Init
<1>2. \A h \in Handler : TidyRequest(work[h])
  BY <1>1, IdleTidy
<1>3. OwnControls
  BY <1>1, IdleTidy DEF OwnControls
<1>4. LedgerTidy
  BY DEF Init, LedgerTidy, TidyRows
<1>5. CreditAccounted
  BY DEF Init, CreditAccounted
<1>6. QED
  BY <1>2, <1>3, <1>4, <1>5, InitIInv DEF CreditIInv

\* When all is quiet, a credit that is accounted for has a row.
LEMMA AccountedHasRow == CreditIInv => CreditHasRow
<1> SUFFICES ASSUME CreditIInv, Quiet, NEW t \in Control, status[t] = Swc, by[t] = "credit"
             PROVE  credits[t] # <<>>
  BY DEF CreditHasRow
<1>1. ~Recording(t)
  BY DEF Recording, Quiet
<1>2. PICK s : s \in SourcesOf(credits[t])
  BY <1>1 DEF CreditIInv, CreditAccounted
<1>3. PICK i \in DOMAIN credits[t] : TRUE
  BY <1>2 DEF SourcesOf
<1>4. QED
  BY <1>3

\* However requests on different controls overlap, and whichever withdrawals the
\* database aborts, a control that is credited when all is quiet has a row in the
\* ledger: its credit can still be withdrawn.
THEOREM CreditIsTraced == ASSUME Orderly PROVE Spec => []CreditHasRow
BY InitCredit, CreditStep, AccountedHasRow, PTL DEF Spec
-----------------------------------------------------------------------------
(***************************************************************************)
(* One request at a time                                                   *)
(***************************************************************************)

\* While a request is in flight the others rest, and every source justifies its
\* credit but the one it is withdrawing.
LEMMA Only ==
  ASSUME SerialIInv, NEW h \in Handler, work[h].phase # "idle"
  PROVE  /\ \A g \in Handler \ {h} : work[g].phase = "idle"
         /\ \A t \in Control : \A s \in SourcesOf(credits[t]) :
              status[s] \in Crediting \/ (work[h].phase \in Lapsing /\ work[h].control = s)
<1>1. \A g \in Handler \ {h} : work[g].phase = "idle"
  BY DEF SerialIInv, OneRequest
<1>2. "idle" \notin Lapsing
  BY DEF Lapsing
<1>3. QED
  BY <1>1, <1>2 DEF SerialIInv, SourcesJustify

\* A source is a control.
LEMMA SourceOfRow == IInv => \A t \in Control : SourcesOf(credits[t]) \subseteq Control
<1> SUFFICES ASSUME IInv, NEW t \in Control, NEW i \in DOMAIN credits[t]
             PROVE  credits[t][i].source \in Control
  BY DEF SourcesOf
<1>1. credits[t] \in Seq(Row)
  BY DEF IInv, TypeOK
<1>2. credits[t][i] \in Row
  BY <1>1
<1>3. QED
  BY <1>2 DEF Row

\* What has to be shown of a step of the only request.
LEMMA SerialEnds ==
  ASSUME CreditIInv', OneRequest', NEW h \in Handler,
         \A g \in Handler \ {h} : work'[g] = work[g] /\ work[g].phase = "idle",
         Reliable(work[h])', RestoredHasNone',
         \A t \in Control : \A s \in SourcesOf(credits'[t]) :
           status'[s] \in Crediting \/ (work'[h].phase \in Lapsing /\ work'[h].control = s)
  PROVE  SerialIInv'
<1>1. ASSUME NEW g \in Handler, g # h PROVE Reliable(work[g])'
  <2>1. work'[g].phase = "idle"
    BY <1>1
  <2>2. QED
    BY <2>1 DEF Reliable
<1>2. SourcesJustify'
  BY DEF SourcesJustify
<1>3. QED
  BY <1>1, <1>2 DEF SerialIInv

\* The same for a step that changes nothing but the record of the request.
LEMMA SerialRequest ==
  ASSUME SerialIInv, CreditIInv', OneRequest', NEW h \in Handler, NEW w,
         work' = [work EXCEPT ![h] = w], UNCHANGED <<status, credits, by>>,
         work[h].phase # "idle", Reliable(w),
         work[h].phase \in Lapsing => w.phase \in Lapsing /\ w.control = work[h].control
  PROVE  SerialIInv'
<1>1. \A g \in Handler : work'[g] = IF g = h THEN w ELSE work[g]
  BY DEF SerialIInv, CreditIInv, IInv, TypeOK
<1>2. Reliable(work[h])'
  BY <1>1 DEF Reliable
<1>3. RestoredHasNone'
  BY DEF SerialIInv, RestoredHasNone
<1>4. \A t \in Control : \A s \in SourcesOf(credits'[t]) :
        status'[s] \in Crediting \/ (work'[h].phase \in Lapsing /\ work'[h].control = s)
  BY <1>1, Only
<1>5. QED
  BY <1>1, <1>2, <1>3, <1>4, Only, SerialEnds

\* The record of an idle request.
LEMMA IdleReliable == Reliable(Idle)
BY IdleTidy DEF Reliable

\* A request notes the status that it finds.
LEMMA SerialBegin ==
  ASSUME SerialIInv, CreditIInv', OneRequest', NEW h \in Handler, NEW c \in Control,
         NEW s \in Asked, PutBegin(h, c, s) \/ PatchBegin(h, c, s)
  PROVE  SerialIInv'
<1>1. PICK w : /\ work' = [work EXCEPT ![h] = w] /\ w.phase = "write" /\ w.control = c
               /\ w.kept = NoneKept /\ w.seen = Had(status[c])
  <2> DEFINE w(kind) == [Idle EXCEPT !.phase = "write", !.kind = kind,
                                     !.control = c, !.to = s,
                                     !.seen = Had(status[c])]
  <2>1. PICK kind : work' = [work EXCEPT ![h] = w(kind)]
    BY DEF PutBegin, PatchBegin, Begin
  <2>2. /\ w(kind).phase = "write" /\ w(kind).control = c /\ w(kind).kept = NoneKept
        /\ w(kind).seen = Had(status[c])
    BY DEF Idle
  <2> HIDE DEF w
  <2>3. QED
    BY <2>1, <2>2
<1>2. UNCHANGED <<status, credits, by>> /\ work[h].phase = "idle"
  BY DEF PutBegin, PatchBegin, MayStart
<1>3. \A g \in Handler : work'[g] = IF g = h THEN w ELSE work[g]
  BY <1>1 DEF SerialIInv, CreditIInv, IInv, TypeOK
<1>4. \A g \in Handler : work[g].phase = "idle"
  BY <1>1, <1>2, <1>3 DEF OneRequest
<1>5. Reliable(w)
  BY <1>1 DEF Reliable
<1>6. Reliable(work[h])'
  BY <1>2, <1>3, <1>5 DEF Reliable
<1>7. \A t \in Control : \A r \in SourcesOf(credits'[t]) : status'[r] \in Crediting
  BY <1>2, <1>4 DEF SerialIInv, SourcesJustify, Lapsing
<1>8. RestoredHasNone'
  BY <1>2 DEF SerialIInv, RestoredHasNone
<1>9. QED
  BY <1>3, <1>4, <1>6, <1>7, <1>8, SerialEnds

\* After the gate the source is as the request has written it.
LEMMA SerialGate ==
  ASSUME SerialIInv, CreditIInv', OneRequest', NEW h \in Handler, Gate(h)
  PROVE  SerialIInv'
<1>1. PICK v : v = work[h]
  OBVIOUS
<1>2. v.phase = "gate" /\ Continue(h) /\ UNCHANGED <<status, credits, by>> /\ Reliable(v)
  BY <1>1 DEF Gate, SerialIInv
<1>3. PICK w : /\ work' = [work EXCEPT ![h] = w]
               /\ w.phase \in {"idle", "credit", "withdraw"}
               /\ w.phase # "idle" => w.control = v.control /\ w.kept = v.kept
               /\ w.phase = "credit" => v.to = "implemented"
  BY <1>1, <1>2, Continued DEF SerialIInv, CreditIInv
<1>4. Reliable(w)
  BY <1>2, <1>3 DEF Reliable, NoneKept, Crediting
<1>5. QED
  BY <1>1, <1>2, <1>3, <1>4, SerialRequest DEF Lapsing

\* A source that has credit in the ledger and no longer justifies it withdraws:
\* the status it had was read, and the gate is not in its way.
LEMMA SerialWrite ==
  ASSUME SerialIInv, CreditIInv', OneRequest', NEW h \in Handler, Write(h)
  PROVE  SerialIInv'
<1>1. PICK v : v = work[h]
  OBVIOUS
<1>2. PICK w : /\ work' = [work EXCEPT ![h] = w]
               /\ w.phase \in {"idle", "gate", "credit", "withdraw"}
               /\ w.phase # "idle" => w.control = v.control /\ w.kept = v.kept
               /\ w.phase = "gate" =>
                    w.to = v.to /\ IsComplianceTransition(v.seen, v.to)
               /\ w.phase = "credit" => v.to = "implemented"
               /\ w.phase # "gate" =>
                    (w.phase = "withdraw" <=> v.seen \in Crediting /\ v.to \notin Crediting)
  BY <1>1, Written DEF SerialIInv, CreditIInv
<1>3. /\ v.control \in Control /\ UNCHANGED credits
      /\ \A c \in Control :
           /\ status'[c] = IF c = v.control THEN v.to ELSE status[c]
           /\ by'[c] = IF c = v.control THEN "gated" ELSE by[c]
  BY <1>1, Written DEF SerialIInv, CreditIInv
<1>4. v.phase = "write" /\ Reliable(v)
  BY <1>1 DEF Write, SerialIInv
<1>5. \A g \in Handler : work'[g] = IF g = h THEN w ELSE work[g]
  BY <1>2 DEF SerialIInv, CreditIInv, IInv, TypeOK
<1>6. Reliable(work[h])'
  BY <1>2, <1>3, <1>4, <1>5 DEF Reliable, NoneKept, Crediting
<1>7. RestoredHasNone'
  BY <1>3 DEF SerialIInv, RestoredHasNone
<1>8. ASSUME NEW t \in Control, NEW s \in SourcesOf(credits'[t])
      PROVE  status'[s] \in Crediting \/ (work'[h].phase \in Lapsing /\ work'[h].control = s)
  <2>1. status[s] \in Crediting /\ s \in Control
    <3>1. status[s] \in Crediting
      BY <1>1, <1>3, <1>4, <1>8, Only DEF Lapsing
    <3>2. s \in Control
      BY <1>3, <1>8, SourceOfRow DEF SerialIInv, CreditIInv
    <3>3. QED
      BY <3>1, <3>2
  <2>2. CASE s # v.control
    BY <1>3, <2>1, <2>2
  <2>3. CASE s = v.control
    <3>1. v.seen = status[s]
      BY <1>4, <2>1, <2>3, NoneIsNoStatus DEF Reliable, Had, Crediting, Status
    <3>2. ~IsComplianceTransition(v.seen, v.to)
      BY <2>1, <3>1 DEF IsComplianceTransition, NonCompliant, Crediting
    <3>3. CASE v.to \in Crediting
      BY <1>3, <2>3, <3>3
    <3>4. CASE v.to \notin Crediting
      BY <1>2, <1>5, <2>1, <2>3, <3>1, <3>2, <3>4 DEF Lapsing
    <3>5. QED
      BY <3>3, <3>4
  <2>4. QED
    BY <2>2, <2>3
<1>9. QED
  BY <1>1, <1>4, <1>5, <1>6, <1>7, <1>8, Only, SerialEnds

\* What is about to be recorded has been credited.
LEMMA SerialResolve ==
  ASSUME SerialIInv, CreditIInv', OneRequest', NEW h \in Handler, ResolvePrevious(h)
  PROVE  SerialIInv'
<1>1. PICK v : v = work[h]
  OBVIOUS
<1>2. v.phase = "credit" /\ UNCHANGED <<status, credits, by>> /\ Reliable(v)
  <2>1. v.phase \in {"credit", "inherit"} /\ UNCHANGED <<status, credits, by>>
    BY <1>1 DEF ResolvePrevious
  <2>2. Reliable(v) /\ TidyRequest(v)
    BY <1>1 DEF SerialIInv, CreditIInv
  <2>3. QED
    BY <2>1, <2>2 DEF TidyRequest, Lapsing
<1>3. CASE v.kept = NoneKept
  BY <1>1, <1>2, <1>3, IdleReliable, SerialRequest DEF ResolvePrevious, Finish, Lapsing
<1>4. CASE v.kept # NoneKept
  <2>1. PICK w : /\ work' = [work EXCEPT ![h] = w]
                 /\ w.phase = "record" /\ w.control = v.control
                 /\ \A t \in Control : w.kept[t] # None <=> v.kept[t] # None
    BY <1>1, <1>4, Resolves DEF SerialIInv
  <2>2. Reliable(w)
    BY <1>2, <2>1 DEF Reliable
  <2>3. QED
    BY <1>1, <1>2, <2>1, <2>2, SerialRequest DEF Lapsing
<1>5. QED
  BY <1>3, <1>4

\* Crediting a target changes no source's status.
LEMMA SerialCredit ==
  ASSUME SerialIInv, CreditIInv', OneRequest', NEW h \in Handler, NEW t \in Control,
         CreditTarget(h, t)
  PROVE  SerialIInv'
<1>1. PICK v : v = work[h]
  OBVIOUS
<1>2. PICK w : /\ work' = [work EXCEPT ![h] = w]
               /\ w.phase = "credit" /\ w.control = v.control
               /\ \A d \in Control : w.kept[d] =
                    IF d # t THEN v.kept[d]
                    ELSE IF Credited(status[t]) = Swc THEN Had(status[t]) ELSE None
  BY <1>1, TargetCredited DEF SerialIInv, CreditIInv
<1>3. /\ v.phase = "credit" /\ UNCHANGED credits
      /\ \A d \in Control :
           /\ status'[d] = IF d = t THEN Credited(status[t]) ELSE status[d]
           /\ by'[d] = IF d = t /\ Credited(status[t]) # status[t] THEN "credit" ELSE by[d]
  BY <1>1, TargetCredited DEF SerialIInv, CreditIInv
<1>4. Reliable(v) /\ v.control \in Control
  BY <1>1, <1>3 DEF SerialIInv, CreditIInv, IInv, RequestsSound, Sound
<1>5. \A g \in Handler : work'[g] = IF g = h THEN w ELSE work[g]
  BY <1>2 DEF SerialIInv, CreditIInv, IInv, TypeOK
<1>6. /\ \A d \in Control : status[d] \in Crediting => status'[d] \in Crediting
      /\ \A d \in Control : status[d] = Swc => status'[d] = Swc
      /\ Credited("not_started") # "not_started"
  BY <1>3, NoneIsNoStatus DEF Credited, Crediting, Swc, Status
<1>7. Reliable(work[h])'
  <2>1. status'[w.control] \in Crediting
    BY <1>2, <1>3, <1>4, <1>6 DEF Reliable
  <2>2. ASSUME NEW d \in Control, w.kept[d] # None PROVE status'[d] = Swc
    BY <1>2, <1>3, <1>4, <1>6, <2>2 DEF Reliable
  <2>3. QED
    BY <1>2, <1>5, <2>1, <2>2 DEF Reliable
<1>8. RestoredHasNone'
  <2> SUFFICES ASSUME NEW d \in Control, by'[d] = "restored"
               PROVE  status'[d] = "not_started" /\ SourcesOf(credits'[d]) = {}
    BY DEF RestoredHasNone
  <2>1. by[d] = "restored" /\ ~(d = t /\ Credited(status[t]) # status[t])
    BY <1>3
  <2>2. status[d] = "not_started" /\ SourcesOf(credits[d]) = {}
    BY <2>1 DEF SerialIInv, RestoredHasNone
  <2>3. QED
    BY <1>3, <1>6, <2>1, <2>2
<1>9. ASSUME NEW d \in Control, NEW s \in SourcesOf(credits'[d]) PROVE status'[s] \in Crediting
  <2>1. s \in Control
    BY <1>3, <1>9, SourceOfRow DEF SerialIInv, CreditIInv
  <2>2. status[s] \in Crediting
    BY <1>1, <1>3, <1>9, Only DEF Lapsing
  <2>3. QED
    BY <1>6, <2>1, <2>2
<1>10. QED
  BY <1>1, <1>3, <1>5, <1>7, <1>8, <1>9, Only, SerialEnds

\* The source that is recorded justifies the credit.
LEMMA SerialRecord ==
  ASSUME SerialIInv, CreditIInv', OneRequest', NEW h \in Handler, RecordCredits(h)
  PROVE  SerialIInv'
<1>1. PICK v : v = work[h]
  OBVIOUS
<1>2. /\ v.phase = "record" /\ work' = [work EXCEPT ![h] = Idle] /\ UNCHANGED <<status, by>>
      /\ \A t \in Control :
           SourcesOf(credits'[t]) = IF v.kept[t] = None THEN SourcesOf(credits[t])
                                    ELSE SourcesOf(credits[t]) \cup {v.control}
  BY <1>1, CreditsRecorded DEF SerialIInv, Finish
<1>3. \A g \in Handler : work'[g] = IF g = h THEN Idle ELSE work[g]
  BY <1>2 DEF SerialIInv, CreditIInv, IInv, TypeOK
<1>4. /\ status[v.control] \in Crediting
      /\ \A t \in Control : v.kept[t] # None => status[t] = Swc
  BY <1>1, <1>2 DEF SerialIInv, Reliable
<1>5. Reliable(work[h])'
  BY <1>3, IdleTidy DEF Reliable
<1>6. RestoredHasNone'
  <2>1. Swc # "not_started"
    BY DEF Swc
  <2>2. QED
    BY <1>2, <1>4, <2>1 DEF SerialIInv, RestoredHasNone
<1>7. ASSUME NEW t \in Control, NEW s \in SourcesOf(credits'[t]) PROVE status'[s] \in Crediting
  <2>1. s \in SourcesOf(credits[t]) \/ s = v.control
    BY <1>2, <1>7
  <2>2. s \in SourcesOf(credits[t]) => status[s] \in Crediting
    BY <1>1, <1>2, Only DEF Lapsing
  <2>3. QED
    BY <1>2, <1>4, <2>1, <2>2
<1>8. QED
  BY <1>1, <1>2, <1>3, <1>5, <1>6, <1>7, Only, SerialEnds

\* A withdrawal has every row of its source in hand.
LEMMA SerialDelete ==
  ASSUME SerialIInv, CreditIInv', OneRequest', NEW h \in Handler, DeleteCredits(h)
  PROVE  SerialIInv'
<1>1. PICK w : /\ work' = [work EXCEPT ![h] = w]
               /\ w.phase = "check" /\ w.control = work[h].control
               /\ w.restored = work[h].restored
               /\ \A t \in Control : /\ t \in w.todo <=> w.control \in SourcesOf(credits[t])
                                     /\ w.kept[t] = IF t \in w.todo THEN "not_started" ELSE None
  BY Deleted DEF SerialIInv
<1>2. work[h].phase = "withdraw" /\ UNCHANGED <<status, credits, by>>
  BY DEF DeleteCredits
<1>3. w.restored = {}
  BY <1>1, <1>2 DEF SerialIInv, CreditIInv, IInv, RequestsSound, Sound
<1>4. "not_started" # None
  BY NoneIsNoStatus DEF Status
<1>5. Reliable(w)
  BY <1>1, <1>3, <1>4 DEF Reliable
<1>6. QED
  BY <1>1, <1>2, <1>5, SerialRequest DEF Lapsing

\* A target that is not passed over has no source but the one that withdraws.
LEMMA SerialCheck ==
  ASSUME SerialIInv, CreditIInv', OneRequest', NEW h \in Handler, NEW t \in Control,
         CheckTarget(h, t)
  PROVE  SerialIInv'
<1>1. PICK w : /\ work' = [work EXCEPT ![h] = w]
               /\ w.control = work[h].control /\ w.kept = work[h].kept
               /\ w.restored = work[h].restored
               /\ \/ w.phase = "check"
                  \/ w.phase = "restore" /\ w.target = t /\ ~StillCredited(h, t)
  BY Checked DEF SerialIInv
<1>2. /\ work[h].phase = "check" /\ UNCHANGED <<status, credits, by>> /\ Reliable(work[h])
  BY DEF CheckTarget, SerialIInv
<1>3. ASSUME ~StillCredited(h, t) PROVE SourcesOf(credits[t]) \subseteq {w.control}
  <2> SUFFICES ASSUME NEW s \in SourcesOf(credits[t]), s # w.control PROVE FALSE
    OBVIOUS
  <2>1. status[s] \in Crediting
    BY <1>1, <1>2, Only
  <2>2. s \notin work[h].restored
    BY <2>1 DEF SerialIInv, CreditIInv, IInv, LocksHold, Crediting, Swc
  <2>3. View(h, s) \in Crediting
    BY <2>1, <2>2 DEF View
  <2>4. QED
    BY <1>1, <1>3, <2>3 DEF StillCredited, SourcesOf
<1>4. Reliable(w)
  BY <1>1, <1>2, <1>3 DEF Reliable
<1>5. QED
  BY <1>1, <1>2, <1>4, SerialRequest DEF Lapsing

\* What is restored has no source but the one that withdraws.
LEMMA SerialRestore ==
  ASSUME SerialIInv, CreditIInv', OneRequest', NEW h \in Handler, RestoreTarget(h)
  PROVE  SerialIInv'
<1>1. PICK w : /\ work' = [work EXCEPT ![h] = w]
               /\ w.control = work[h].control /\ w.kept = work[h].kept /\ w.phase = "check"
               /\ w.restored \subseteq work[h].restored \cup {work[h].target}
  BY Locked DEF SerialIInv
<1>2. work[h].phase = "restore" /\ UNCHANGED <<status, credits, by>> /\ Reliable(work[h])
  BY DEF RestoreTarget, SerialIInv
<1>3. Reliable(w)
  BY <1>1, <1>2 DEF Reliable
<1>4. QED
  BY <1>1, <1>2, <1>3, SerialRequest DEF Lapsing

\* A withdrawal leaves its source in no row, and what it restores without any.
LEMMA SerialCommit ==
  ASSUME SerialIInv, CreditIInv', OneRequest', NEW h \in Handler, CommitWithdrawal(h)
  PROVE  SerialIInv'
<1>1. PICK v : v = work[h]
  OBVIOUS
<1>2. /\ v.phase = "check" /\ work' = [work EXCEPT ![h] = Idle]
      /\ \A c \in v.restored : status[c] = Swc /\ v.kept[c] = "not_started"
      /\ \A c \in Control :
           /\ status'[c] = IF c \in v.restored THEN "not_started" ELSE status[c]
           /\ by'[c] = IF c \in v.restored THEN "restored" ELSE by[c]
           /\ SourcesOf(credits'[c]) = IF v.kept[c] = None THEN SourcesOf(credits[c])
                                       ELSE SourcesOf(credits[c]) \ {v.control}
  BY <1>1, Committed DEF SerialIInv, Finish
<1>3. \A g \in Handler : work'[g] = IF g = h THEN Idle ELSE work[g]
  BY <1>2 DEF SerialIInv, CreditIInv, IInv, TypeOK
<1>4. /\ \A t \in Control : v.control \in SourcesOf(credits[t]) => v.kept[t] # None
      /\ \A t \in v.restored : SourcesOf(credits[t]) \subseteq {v.control}
  BY <1>1, <1>2 DEF SerialIInv, Reliable
<1>5. "not_started" # None /\ Swc \notin Crediting
  BY NoneIsNoStatus DEF Status, Swc, Crediting
<1>6. Reliable(work[h])'
  BY <1>3, IdleTidy DEF Reliable
<1>7. RestoredHasNone'
  <2> SUFFICES ASSUME NEW c \in Control, by'[c] = "restored"
               PROVE  status'[c] = "not_started" /\ SourcesOf(credits'[c]) = {}
    BY DEF RestoredHasNone
  <2>1. CASE c \in v.restored
    BY <1>2, <1>4, <1>5, <2>1
  <2>2. CASE c \notin v.restored
    <3>1. status[c] = "not_started" /\ SourcesOf(credits[c]) = {}
      BY <1>2, <2>2 DEF SerialIInv, RestoredHasNone
    <3>2. QED
      BY <1>2, <2>2, <3>1
  <2>3. QED
    BY <2>1, <2>2
<1>8. ASSUME NEW t \in Control, NEW s \in SourcesOf(credits'[t]) PROVE status'[s] \in Crediting
  <2>1. s \in SourcesOf(credits[t]) /\ s # v.control
    BY <1>2, <1>4, <1>8
  <2>2. status[s] \in Crediting
    BY <1>1, <1>2, <2>1, Only
  <2>3. s \in Control /\ s \notin v.restored
    BY <1>2, <1>5, <2>1, <2>2, SourceOfRow DEF SerialIInv, CreditIInv
  <2>4. QED
    BY <1>2, <2>2, <2>3
<1>9. QED
  BY <1>1, <1>2, <1>3, <1>6, <1>7, <1>8, Only, SerialEnds

\* A row that is made sure of is what a request would have read.
LEMMA SerialEnsure ==
  ASSUME SerialIInv, CreditIInv', OneRequest', NEW c \in Control, Ensure(c)
  PROVE  SerialIInv'
<1>1. /\ \A d \in Control : status'[d] = IF d = c THEN "not_started" ELSE status[d]
      /\ status[c] = None /\ UNCHANGED <<credits, work, by>>
  BY DEF Ensure, SerialIInv, CreditIInv, IInv, TypeOK
<1>2. "not_started" # None /\ None \notin Crediting /\ None # Swc
  BY NoneIsNoStatus DEF Status, Crediting, Swc
<1>3. ASSUME NEW g \in Handler PROVE Reliable(work[g])'
  <2>1. PICK w : w = work[g] /\ w = work'[g]
    BY <1>1
  <2>2. Reliable(w) /\ TidyRequest(w) /\ (w.phase # "idle" => w.control \in Control)
    BY <2>1 DEF SerialIInv, CreditIInv, IInv, RequestsSound, Sound
  <2>3. Had("not_started") = Had(None)
    BY <1>2 DEF Had
  <2>4. w.phase = "write" => w.seen = Had(status'[w.control])
    BY <1>1, <2>2, <2>3 DEF Reliable
  <2>5. w.phase \in {"gate", "credit", "record"} => status'[w.control] = status[w.control]
    BY <1>1, <2>2 DEF TidyRequest
  <2>6. \A d \in Control : status[d] = Swc => status'[d] = Swc
    BY <1>1, <1>2
  <2>7. Reliable(w)'
    BY <1>1, <2>2, <2>4, <2>5, <2>6 DEF Reliable
  <2>8. QED
    BY <2>1, <2>7 DEF Reliable
<1>4. RestoredHasNone'
  BY <1>1, <1>2 DEF SerialIInv, RestoredHasNone
<1>5. SourcesJustify'
  <2> SUFFICES ASSUME NEW t \in Control, NEW s \in SourcesOf(credits[t]), status[s] \in Crediting
               PROVE  status'[s] \in Crediting
    BY <1>1 DEF SerialIInv, SourcesJustify
  <2>1. s \in Control
    BY SourceOfRow DEF SerialIInv, CreditIInv
  <2>2. QED
    BY <1>1, <1>2, <2>1
<1>6. QED
  BY <1>3, <1>4, <1>5 DEF SerialIInv

\* Every statement of the only request keeps what it can rely on.
LEMMA SerialCreditStep ==
  ASSUME Orderly, SerialIInv, [Next]_vars, OneRequest'
  PROVE  SerialIInv'
<1>1. CreditIInv'
  BY CreditStep DEF SerialIInv
<1>2. CASE UNCHANGED vars
  <2>1. UNCHANGED <<status, credits, work, by>>
    BY <1>2 DEF vars
  <2>2. \A g \in Handler : Reliable(work[g])'
    BY <2>1 DEF SerialIInv, Reliable
  <2>3. QED
    BY <1>1, <2>1, <2>2 DEF SerialIInv, RestoredHasNone, SourcesJustify
<1>3. ASSUME NEW h \in Handler, DeadlockAbort(h) PROVE FALSE
  BY <1>3 DEF DeadlockAbort, SerialIInv, OneRequest
<1>4. CreditIInv
  BY DEF SerialIInv
<1>5. ASSUME NEW h \in Handler, ServerStep(h) PROVE SerialIInv'
  BY <1>1, <1>3, <1>4, <1>5, OrderlyServer, SerialWrite, SerialGate, SerialResolve, SerialRecord,
     SerialDelete, SerialRestore, SerialCommit, SerialCredit, SerialCheck
<1>6. ASSUME NEW c \in Control, OneStatement(c) \/ \E h \in Handler : NewRequest(h, c)
      PROVE  SerialIInv'
  BY <1>1, <1>6, OrderlyClients, SerialBegin, SerialEnsure
<1>7. QED
  BY <1>2, <1>5, <1>6 DEF Next, Fail, Rehydrate, Orderly

\* An organization without rows has credited nothing.
LEMMA InitSerial == Init => SerialIInv
<1> SUFFICES ASSUME Init PROVE SerialIInv
  OBVIOUS
<1>1. \A h \in Handler : work[h] = Idle
  BY DEF Init
<1>2. OneRequest /\ \A h \in Handler : Reliable(work[h])
  BY <1>1, IdleTidy, IdleReliable DEF OneRequest
<1>3. RestoredHasNone /\ SourcesJustify
  BY DEF Init, RestoredHasNone, SourcesJustify, SourcesOf
<1>4. QED
  BY <1>2, <1>3, InitCredit DEF SerialIInv

\* What the invariant means when all is quiet.
LEMMA SerialMeaning == SerialIInv => CreditHasSource /\ KeptUntilLastLapses
<1> SUFFICES ASSUME SerialIInv, Quiet, NEW t \in Control
             PROVE  /\ status[t] = Swc /\ by[t] = "credit" => \E s \in Control : Justifies(s, t)
                    /\ by[t] = "restored" => ~\E s \in Control : Justifies(s, t)
  BY DEF CreditHasSource, KeptUntilLastLapses
<1>1. ASSUME NEW s \in Control
      PROVE  Justifies(s, t) <=> s \in SourcesOf(credits[t]) /\ status[s] \in Crediting
  BY DEF Justifies, RowsOf, SourcesOf
<1>2. \A s \in SourcesOf(credits[t]) : s \in Control /\ status[s] \in Crediting
  BY SourceOfRow DEF SerialIInv, CreditIInv, SourcesJustify, Quiet, Lapsing
<1>3. ASSUME status[t] = Swc, by[t] = "credit" PROVE \E s \in Control : Justifies(s, t)
  <2>1. ~Recording(t)
    BY DEF Recording, Quiet
  <2>2. PICK s : s \in SourcesOf(credits[t])
    BY <1>3, <2>1 DEF SerialIInv, CreditIInv, CreditAccounted
  <2>3. QED
    BY <1>1, <1>2, <2>2
<1>4. ASSUME by[t] = "restored" PROVE ~\E s \in Control : Justifies(s, t)
  BY <1>1, <1>4 DEF SerialIInv, RestoredHasNone
<1>5. QED
  BY <1>3, <1>4

\* A server that works on one request at a time keeps every credit justified: a
\* credited control has a crediting source in the ledger when all is quiet.
THEOREM SerialCreditHasSource ==
  ASSUME Orderly, \A g, h \in Handler : g = h PROVE Spec => []CreditHasSource
<1>1. OneRequest'
  BY DEF OneRequest
<1>2. SerialIInv /\ [Next]_vars => SerialIInv'
  BY <1>1, SerialCreditStep
<1>3. QED
  BY <1>2, InitSerial, SerialMeaning, PTL DEF Spec

\* With one request at a time a control credited by more than one source stays
\* satisfied until the last of them lapses.
THEOREM SerialKept ==
  ASSUME Orderly, \A g, h \in Handler : g = h PROVE Spec => []KeptUntilLastLapses
<1>1. OneRequest'
  BY DEF OneRequest
<1>2. SerialIInv /\ [Next]_vars => SerialIInv'
  BY <1>1, SerialCreditStep
<1>3. QED
  BY <1>2, InitSerial, SerialMeaning, PTL DEF Spec
-----------------------------------------------------------------------------
(***************************************************************************)
(* Both catalogues: the requests of the run                                *)
(***************************************************************************)

\* A statement of a request belongs to a request in flight, leaves the others
\* alone, takes no row away, and ends no request whose control has no row.
LEMMA ServerMoves ==
  ASSUME Orderly, CreditIInv, NEW h \in Handler, ServerStep(h)
  PROVE  /\ work[h].phase # "idle" /\ \A g \in Handler \ {h} : work'[g] = work[g]
         /\ \A c \in Control : status[c] # None => status'[c] # None
         /\ status'[work[h].control] # None \/ work'[h].control = work[h].control
<1>1. work[h].phase # "idle" /\ \A g \in Handler \ {h} : work'[g] = work[g]
  <2>1. \A t : CreditTarget(h, t) \/ CheckTarget(h, t) =>
          work[h].phase # "idle" /\ \A g \in Handler \ {h} : work'[g] = work[g]
    BY DEF CreditTarget, CheckTarget, CreditIInv, IInv, TypeOK
  <2>2. QED
    BY OrderlyServer, <2>1 DEF Write, Gate, Continue, Finish, ResolvePrevious, RecordCredits,
       DeleteCredits, RestoreTarget, CommitWithdrawal, DeadlockAbort, CreditIInv, IInv, TypeOK
<1>2. ASSUME NEW c \in Control, status[c] # None PROVE status'[c] # None
  <2>1. ASSUME Write(h) PROVE status'[c] # None
    BY <1>2, <2>1, Written, NoneIsNoStatus DEF CreditIInv
  <2>2. ASSUME NEW t \in Control, CreditTarget(h, t) PROVE status'[c] # None
    <3>1. status'[c] = IF c = t THEN Credited(status[t]) ELSE status[c]
      BY <2>2, TargetCredited DEF CreditIInv
    <3>2. QED
      BY <1>2, <3>1, NoneIsNoStatus DEF Credited, Swc, Status
  <2>3. ASSUME CommitWithdrawal(h) PROVE status'[c] # None
    BY <1>2, <2>3, Committed, NoneIsNoStatus DEF Status
  <2>4. ASSUME status' = status PROVE status'[c] # None
    BY <1>2, <2>4
  <2>5. QED
    BY OrderlyServer, <2>1, <2>2, <2>3, <2>4 DEF Gate, ResolvePrevious, RecordCredits,
       DeleteCredits, RestoreTarget, DeadlockAbort, CheckTarget
<1>3. work[h].control \in Control /\ TidyRequest(work[h])
  BY <1>1 DEF CreditIInv, IInv, RequestsSound, Sound
<1>4. CASE work[h].phase # "write"
  BY <1>1, <1>2, <1>3, <1>4 DEF TidyRequest
<1>5. CASE work[h].phase = "write"
  <2>1. Write(h)
    BY <1>5, OrderlyServer DEF Gate, ResolvePrevious, RecordCredits, DeleteCredits, RestoreTarget,
       CommitWithdrawal, DeadlockAbort, CreditTarget, CheckTarget
  <2>2. status'[work[h].control] # None
    BY <1>3, <2>1, Written, NoneIsNoStatus DEF CreditIInv
  <2>3. QED
    BY <1>1, <1>2, <2>2
<1>6. QED
  BY <1>1, <1>2, <1>4, <1>5

\* A request that is new is about its control; the others stay as they are.
LEMMA ClientMoves ==
  ASSUME Orderly, CreditIInv, NEW h \in Handler, NEW c \in Control, NewRequest(h, c)
  PROVE  /\ work[h].phase = "idle" /\ work'[h].control = c
         /\ \A g \in Handler \ {h} : work'[g] = work[g]
         /\ UNCHANGED status
<1>1. PICK s \in Asked : PutBegin(h, c, s) \/ PatchBegin(h, c, s)
  BY OrderlyClients
<1>2. PICK kind : Begin(h, kind, c, s)
  BY <1>1 DEF PutBegin, PatchBegin
<1>3. PICK w : work' = [work EXCEPT ![h] = w] /\ w.control = c
  <2> DEFINE w == [Idle EXCEPT !.phase = "write", !.kind = kind, !.control = c, !.to = s,
                               !.seen = Had(status[c])]
  <2>1. w.control = c
    BY DEF Idle
  <2>2. work' = [work EXCEPT ![h] = w]
    BY <1>2 DEF Begin
  <2> HIDE DEF w
  <2>3. QED
    BY <2>1, <2>2
<1>4. QED
  BY <1>1, <1>3 DEF PutBegin, PatchBegin, MayStart, CreditIInv, IInv, TypeOK

\* The invariant of the run: credit is accounted for in both catalogues, and as
\* long as nothing has happened in the second, one request at a time relies on it.
RequestsIInv == CreditIInv /\ (Alone(goal) => SerialIInv)

\* The controls of the first catalogue are controls.
FirstCatalogue == {s1, s2, goal} \subseteq Control

\* What the requests do is what CrosswalkCredits says they may do.
LEMMA RequestsAreNext == FirstCatalogue /\ [RequestsNext]_vars => [Next]_vars
BY DEF FirstCatalogue, Diamond, RequestsNext, Next

\* A second catalogue that has been used stays used: a row is never deleted, and a
\* request has given its control one before it ends.
LEMMA AloneBefore ==
  ASSUME Orderly, FirstCatalogue, CreditIInv, [RequestsNext]_vars, Alone(goal)'
  PROVE  Alone(goal)
<1> SUFFICES ASSUME NEW d \in Control, d \notin DOMAIN Diamond
             PROVE  status[d] = None /\ \A h \in Handler : work[h].control # d
  BY DEF Alone, Diamond
<1>1. status'[d] = None /\ \A h \in Handler : work'[h].control # d
  BY DEF Alone, Diamond
<1>2. CASE UNCHANGED vars
  BY <1>1, <1>2 DEF vars
<1>3. ASSUME NEW h \in Handler, ServerStep(h)
      PROVE  status[d] = None /\ \A g \in Handler : work[g].control # d
  <2>1. /\ \A g \in Handler \ {h} : work'[g] = work[g]
        /\ status[d] # None => status'[d] # None
        /\ status'[work[h].control] # None \/ work'[h].control = work[h].control
    BY <1>3, ServerMoves
  <2>2. QED
    BY <1>1, <2>1
<1>4. ASSUME NEW h \in Handler, NEW c \in Control, NewRequest(h, c)
      PROVE  status[d] = None /\ \A g \in Handler : work[g].control # d
  <2>1. /\ work[h].phase = "idle" /\ \A g \in Handler \ {h} : work'[g] = work[g]
        /\ UNCHANGED status
    BY <1>4, ClientMoves
  <2>2. work[h].control # d
    <3>1. work[h] = Idle
      BY <2>1 DEF CreditIInv, TidyRequest
    <3>2. None \notin Control
      BY Parameters DEF NoneIsNoControl
    <3>3. QED
      BY <3>1, <3>2 DEF Idle
  <2>3. QED
    BY <1>1, <2>1, <2>2
<1>5. ASSUME NEW c \in DOMAIN Diamond, OneStatement(c)
      PROVE  status[d] = None /\ \A g \in Handler : work[g].control # d
  <2>1. c \in Control /\ c # d
    BY DEF FirstCatalogue, Diamond
  <2>2. Ensure(c)
    BY <1>5, <2>1, OrderlyClients
  <2>3. status'[d] = status[d] /\ UNCHANGED work
    BY <2>1, <2>2 DEF Ensure, CreditIInv, IInv, TypeOK
  <2>4. QED
    BY <1>1, <2>3
<1>6. QED
  BY <1>2, <1>3, <1>4, <1>5 DEF RequestsNext

\* While only the first catalogue has been used, there is one request at a time.
LEMMA AloneIsSerial ==
  ASSUME Orderly, FirstCatalogue, SerialIInv, [RequestsNext]_vars, Alone(goal)'
  PROVE  OneRequest'
<1>1. CreditIInv /\ OneRequest
  BY DEF SerialIInv
<1>2. CASE UNCHANGED vars
  BY <1>1, <1>2 DEF vars, OneRequest
<1>3. ASSUME NEW h \in Handler, ServerStep(h) PROVE OneRequest'
  BY <1>1, <1>3, ServerMoves DEF OneRequest
<1>4. ASSUME NEW h \in Handler, NEW c \in Control, NewRequest(h, c), MaySend(h, c)
      PROVE  OneRequest'
  <2>1. work'[h].control = c /\ \A g \in Handler \ {h} : work'[g] = work[g]
    BY <1>1, <1>4, ClientMoves
  <2>2. c \in DOMAIN Diamond
    BY <2>1 DEF Alone, Diamond
  <2>3. \A g \in Handler : work[g].phase = "idle"
    BY <1>4, <2>2 DEF MaySend
  <2>4. QED
    BY <2>1, <2>3 DEF OneRequest
<1>5. ASSUME NEW c \in DOMAIN Diamond, OneStatement(c) PROVE OneRequest'
  <2>1. Ensure(c)
    BY <1>5, OrderlyClients DEF FirstCatalogue, Diamond
  <2>2. QED
    BY <1>1, <2>1 DEF Ensure, OneRequest
<1>6. QED
  BY <1>2, <1>3, <1>4, <1>5 DEF RequestsNext

\* Every step of the run keeps both invariants.
LEMMA RequestsStep ==
  ASSUME Orderly, FirstCatalogue, RequestsIInv, [RequestsNext]_vars
  PROVE  RequestsIInv'
<1>1. CreditIInv /\ [Next]_vars
  BY RequestsAreNext DEF RequestsIInv
<1>2. CreditIInv'
  BY <1>1, CreditStep
<1>3. ASSUME Alone(goal)' PROVE SerialIInv'
  <2>1. SerialIInv
    BY <1>1, <1>3, AloneBefore DEF RequestsIInv
  <2>2. QED
    BY <1>1, <1>3, <2>1, AloneIsSerial, SerialCreditStep
<1>4. QED
  BY <1>2, <1>3 DEF RequestsIInv

\* Requests that overlap, and withdrawals that the database aborts, leave every
\* credit with a row in the ledger; with one request at a time its source justifies it.
THEOREM RequestsAreTraced ==
  ASSUME Orderly, FirstCatalogue PROVE RequestsSpec => []CreditsAreTraced
<1>1. Init => RequestsIInv
  BY InitCredit, InitSerial DEF RequestsIInv
<1>2. RequestsIInv /\ [RequestsNext]_vars => RequestsIInv'
  BY RequestsStep
<1>3. RequestsIInv => CreditsAreTraced
  BY AccountedHasRow, SerialMeaning DEF RequestsIInv, CreditsAreTraced
<1>4. QED
  BY <1>1, <1>2, <1>3, PTL DEF RequestsSpec

\* A control credited by more than one source stays satisfied until the last of them
\* lapses, as long as clients send one request at a time.
THEOREM RequestsKeepCredit ==
  ASSUME Orderly, FirstCatalogue PROVE RequestsSpec => []SerialKeptUntilLastLapses
<1>1. Init => RequestsIInv
  BY InitCredit, InitSerial DEF RequestsIInv
<1>2. RequestsIInv /\ [RequestsNext]_vars => RequestsIInv'
  BY RequestsStep
<1>3. RequestsIInv => SerialKeptUntilLastLapses
  BY SerialMeaning DEF RequestsIInv, SerialKeptUntilLastLapses
<1>4. QED
  BY <1>1, <1>2, <1>3, PTL DEF RequestsSpec
=============================================================================
