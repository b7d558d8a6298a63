--------------------------- MODULE Registers_proofs ---------------------------
(***************************************************************************)
(* What is true of the POA&M register, for every number of users, items    *)
(* and requests in flight, and whatever statuses people give the items.    *)
(* Whatever requests overlap: type correctness, and that an item which the *)
(* gate or a submission put up for review has an approval request on file. *)
(* With one request at a time: that each such round of review has a        *)
(* request of its own, and that nobody decides about the request they have *)
(* filed.  And that the registers, side by side, are what each is alone.   *)
(***************************************************************************)
EXTENDS MCRegisters, PlatformApprovals_proofs, Evidence_proofs, Reviews_proofs,
        Measures_proofs, FiniteSetTheorems, TLAPS

\* The item has an approval request on file, or a person has declared it in review.
Accounted(i) == FiledFor(i) # {} \/ items[i].declared

\* What is true of one request in flight: the row in hand exists; a submission
\* is marked only when its approval request is on file, and an edit that will write
\* back that an item awaits review has read an item accounted for; and an auditor's
\* decision takes the item out of the queue.
Sound(w) ==
  /\ w.phase \in {"edit", "file", "mark", "decide"} => w.item \in DOMAIN items
  /\ w.phase = "gate" => w.item \in {0} \cup DOMAIN items
  /\ w.phase = "mark" => FiledFor(w.item) # {}
  /\ w.phase = "edit" /\ w.to = "pending_auditor_review" /\ ~w.declares => Accounted(w.item)
  /\ w.phase = "decide" => w.to # "pending_auditor_review"

\* The invariant that every step of every request keeps.
IInv ==
  /\ TypeOK
  /\ \A u \in User : Sound(work[u])
  /\ AwaitingHasRequest
-----------------------------------------------------------------------------
\* Rows are only ever added, items keep their place and stay accounted for.
Grows ==
  /\ items' \in Seq(Item) /\ requests' \in Seq(Request)
  /\ DOMAIN items \subseteq DOMAIN items'
  /\ \A i : FiledFor(i) \subseteq FiledFor(i)'
  /\ \A i \in DOMAIN items : Accounted(i) => Accounted(i)'

\* A step that changes no row only ever grows the tables.
LEMMA SameRows ==
  ASSUME TypeOK, UNCHANGED <<items, requests>>
  PROVE  Grows
BY DEF TypeOK, Grows, FiledFor, Accounted

\* Filing an approval request adds one for its item and loses none.
LEMMA FileGrows ==
  ASSUME TypeOK, NEW u \in User, NEW i \in Nat, File(u, i)
  PROVE  /\ requests' \in Seq(Request)
         /\ \A j : FiledFor(j) \subseteq FiledFor(j)'
         /\ FiledFor(i)' # {}
<1> DEFINE r == [item |-> i, by |-> u]
<1>1. r \in Request /\ r.item = i
  BY DEF Request
<1>2. requests' = Append(requests, r) /\ requests \in Seq(Request)
  BY DEF File, TypeOK
<1> HIDE DEF r
<1>3. /\ requests' \in Seq(Request)
      /\ DOMAIN requests' = 1..(Len(requests) + 1)
      /\ \A k \in DOMAIN requests : requests'[k] = requests[k]
      /\ requests'[Len(requests) + 1] = r
      /\ DOMAIN requests = 1..Len(requests) /\ Len(requests) \in Nat
  BY <1>1, <1>2
<1>4. \A j : FiledFor(j) \subseteq FiledFor(j)'
  BY <1>3 DEF FiledFor
<1>5. Len(requests) + 1 \in FiledFor(i)'
  BY <1>1, <1>3 DEF FiledFor
<1>6. QED
  BY <1>3, <1>4, <1>5

\* Creating an item leaves the others in their places.
LEMMA AddGrows ==
  ASSUME TypeOK, NEW item \in Item, AddItem(item)
  PROVE  /\ items' \in Seq(Item)
         /\ DOMAIN items' = DOMAIN items \cup {Len(items) + 1}
         /\ \A i \in DOMAIN items : items'[i] = items[i]
         /\ items'[Len(items) + 1] = item
         /\ Len(items) + 1 \in Nat
BY DEF TypeOK, AddItem

\* While rows only grow, the requests in flight that do not move stay sound.
LEMMA OthersStaySound ==
  ASSUME IInv, Grows, NEW u \in User, NEW w,
         work' = [work EXCEPT ![u] = w], Sound(w)', w \in Work
  PROVE  work' \in [User -> Work] /\ \A v \in User : Sound(work[v])'
<1>1. \A v \in User : work'[v] = IF v = u THEN w ELSE work[v]
  BY DEF IInv, TypeOK
<1>2. ASSUME NEW v \in User, v # u PROVE Sound(work[v])'
  <2>1. Sound(work[v]) /\ work'[v] = work[v]
    BY <1>1, <1>2 DEF IInv
  <2>2. QED
    BY <2>1 DEF Sound, Grows
<1>3. Sound(work[u])'
  BY <1>1 DEF Sound
<1>4. QED
  BY <1>2, <1>3 DEF IInv, TypeOK

\* A user without a request in flight has nothing to be sound about.
LEMMA IdleSound == Idle \in Work /\ Sound(Idle)'
BY DEF Idle, Work, Sound, Source, Status

\* A step in which one request moves and rows at most grow.
LEMMA RequestStep ==
  ASSUME IInv, Grows, AwaitingHasRequest', NEW u \in User, NEW w,
         work' = [work EXCEPT ![u] = w], Sound(w)', w \in Work
  PROVE  IInv'
<1>1. work' \in [User -> Work] /\ \A v \in User : Sound(work[v])'
  BY OthersStaySound
<1>2. TypeOK'
  BY <1>1 DEF TypeOK, Grows
<1>3. QED
  BY <1>1, <1>2 DEF IInv

\* A step in which one request moves and no row changes.
LEMMA ReadStep ==
  ASSUME IInv, UNCHANGED <<items, requests>>, NEW u \in User, NEW w,
         work' = [work EXCEPT ![u] = w], Sound(w), w \in Work
  PROVE  IInv'
<1>1. Grows
  BY SameRows DEF IInv
<1>2. Sound(w)'
  BY DEF Sound, FiledFor, Accounted
<1>3. AwaitingHasRequest'
  BY DEF IInv, AwaitingHasRequest, FiledFor
<1>4. QED
  BY <1>1, <1>2, <1>3, RequestStep

\* A step that ends one request and rows at most grow.
LEMMA EndStep ==
  ASSUME IInv, Grows, AwaitingHasRequest', NEW u \in User, Finish(u)
  PROVE  IInv'
BY IdleSound, RequestStep DEF Finish
-----------------------------------------------------------------------------
\* A request that reads and validates its row starts out sound.
LEMMA NewRequestStep ==
  ASSUME IInv, NEW u \in User, NewRequest(u)
  PROVE  IInv'
<1>1. DOMAIN items \subseteq Nat /\ \A i \in DOMAIN items : items[i] \in Item
  BY DEF IInv, TypeOK
<1>2. ASSUME NEW c \in Control, GateRead(u, c) PROVE IInv'
  <2>1. PICK i \in LatestOpen(c) :
          work' = [work EXCEPT ![u] =
                     [Idle EXCEPT !.phase = "gate", !.control = c, !.item = i]]
    BY <1>2 DEF GateRead
  <2> DEFINE w == [Idle EXCEPT !.phase = "gate", !.control = c, !.item = i]
  <2>2. i \in {0} \cup DOMAIN items /\ i \in Nat
    BY <1>1 DEF LatestOpen, OpenItems
  <2>3. /\ w \in Work
        /\ w.phase = "gate" /\ w.item = i
    BY <2>2 DEF Idle, Work, Source, Status
  <2>4. work' = [work EXCEPT ![u] = w] /\ UNCHANGED <<items, requests>>
    BY <1>2, <2>1 DEF GateRead
  <2> HIDE DEF w
  <2>5. Sound(w)
    BY <2>2, <2>3 DEF Sound
  <2>6. QED
    BY <2>3, <2>4, <2>5, ReadStep
<1>3. ASSUME NEW c \in Control, NEW s \in GapSource, RaiseRead(u, c, s) PROVE IInv'
  <2> DEFINE w == [Idle EXCEPT !.phase = "raise", !.control = c, !.source = s]
  <2>1. w \in Work /\ Sound(w)
    BY DEF Idle, Work, Sound, Source, Status
  <2>2. QED
    BY <1>3, <2>1, ReadStep DEF RaiseRead
<1>4. ASSUME NEW i \in DOMAIN items, SubmitRead(u, i) PROVE IInv'
  <2> DEFINE w == [Idle EXCEPT !.phase = "file", !.item = i]
  <2>1. w \in Work /\ Sound(w)
    BY <1>1 DEF Idle, Work, Sound, Source, Status
  <2>2. QED
    BY <1>4, <2>1, ReadStep DEF SubmitRead
<1>5. ASSUME NEW i \in DOMAIN items, NEW s \in Status, NEW named \in BOOLEAN,
             EditRead(u, i, s, named)
      PROVE  IInv'
  <2>1. PICK declares \in BOOLEAN : declares <=> named /\ s \in Reviewing
    OBVIOUS
  <2> DEFINE w == [Idle EXCEPT !.phase = "edit", !.item = i, !.to = s, !.declares = declares]
  <2>2. /\ w \in Work
        /\ w.phase = "edit" /\ w.item = i /\ w.to = s /\ w.declares = declares
    BY <1>1 DEF Idle, Work, Source, Status
  <2>3. work' = [work EXCEPT ![u] = w] /\ UNCHANGED <<items, requests>>
    BY <1>5, <2>1 DEF EditRead
  <2>4. s = "pending_auditor_review" /\ ~declares => Accounted(i)
    BY <1>5, <2>1 DEF EditRead, Reviewing, IInv, AwaitingHasRequest, Accounted
  <2> HIDE DEF w
  <2>5. Sound(w)
    BY <2>2, <2>4 DEF Sound
  <2>6. QED
    BY <2>2, <2>3, <2>5, ReadStep
<1>6. ASSUME NEW i \in DOMAIN items, NEW o \in Outcome, ReviewRead(u, i, o) PROVE IInv'
  <2> DEFINE w == [Idle EXCEPT !.phase = "decide", !.item = i, !.to = Verdict(o)]
  <2>1. Verdict(o) \in Status \ {"pending_auditor_review"}
    BY DEF Outcome, Verdict, Status
  <2>2. w \in Work /\ Sound(w)
    BY <1>1, <2>1 DEF Idle, Work, Sound, Source
  <2>3. QED
    BY <1>6, <2>2, ReadStep DEF ReviewRead
<1>7. QED
  BY <1>2, <1>3, <1>4, <1>5, <1>6 DEF NewRequest

\* A row added to the register awaits no review, or is accounted for.
LEMMA AddedAwaits ==
  ASSUME IInv, NEW item \in Item, AddItem(item),
         NEW new, new = Len(items) + 1,
         \A i : FiledFor(i) \subseteq FiledFor(i)',
         item.status = "pending_auditor_review" => FiledFor(new)' # {} \/ item.declared
  PROVE  AwaitingHasRequest'
<1>1. /\ DOMAIN items' = DOMAIN items \cup {new}
      /\ \A i \in DOMAIN items : items'[i] = items[i]
      /\ items'[new] = item
  BY AddGrows DEF IInv
<1>2. ASSUME NEW i \in DOMAIN items', items'[i].status = "pending_auditor_review",
             ~items'[i].declared
      PROVE  FiledFor(i)' # {}
  <2>1. CASE i \in DOMAIN items
    <3>1. FiledFor(i) # {}
      BY <1>1, <1>2, <2>1 DEF IInv, AwaitingHasRequest
    <3>2. FiledFor(i) \subseteq FiledFor(i)'
      OBVIOUS
    <3>3. QED
      BY <3>1, <3>2
  <2>2. CASE i = new
    BY <1>1, <1>2, <2>2
  <2>3. QED
    BY <1>1, <2>1, <2>2
<1>3. QED
  BY <1>2 DEF AwaitingHasRequest

\* An item that people create as one awaiting review is declared to be.
LEMMA CreateStep ==
  ASSUME IInv, NEW c \in Control \cup {None}, NEW s \in Status, Create(c, s)
  PROVE  IInv'
<1> DEFINE item == NewItem(c, "manual", s, None)
<1>1. /\ item \in Item /\ AddItem(item)
      /\ item.status = "pending_auditor_review" => item.declared
  BY PoamParameters DEF Create, NewItem, Item, Source, Reviewing
<1> HIDE DEF item
<1>2. requests' = requests /\ work' = work
  BY DEF Create
<1>3. Grows
  BY <1>1, <1>2, AddGrows DEF IInv, TypeOK, Grows, FiledFor, Accounted
<1>4. AwaitingHasRequest'
  BY <1>1, <1>3, AddedAwaits DEF Grows
<1>5. \A v \in User : Sound(work[v])'
  BY <1>2, <1>3 DEF IInv, Sound, Grows
<1>6. QED
  BY <1>2, <1>3, <1>4, <1>5 DEF IInv, TypeOK, Grows

\* An item raised from a gap awaits no review.
LEMMA RaiseWriteStep ==
  ASSUME IInv, NEW u \in User, RaiseWrite(u)
  PROVE  IInv'
<1> DEFINE item == NewItem(work[u].control, work[u].source, "open", None)
<1>1. work[u] \in Work
  BY DEF IInv, TypeOK
<1>2. item \in Item /\ item.status # "pending_auditor_review" /\ AddItem(item)
  BY <1>1 DEF RaiseWrite, NewItem, Item, Work, Status
<1> HIDE DEF item
<1>3. Grows
  BY <1>2, AddGrows DEF RaiseWrite, IInv, TypeOK, Grows, FiledFor, Accounted
<1>4. AwaitingHasRequest'
  BY <1>2, <1>3, AddedAwaits DEF Grows
<1>5. QED
  BY <1>3, <1>4, EndStep DEF RaiseWrite

\* Rewriting one row of the register keeps the register's type and size.
LEMMA Rewritten ==
  ASSUME IInv, NEW i \in DOMAIN items, NEW row \in Item,
         items' = [items EXCEPT ![i] = row]
  PROVE  /\ items' \in Seq(Item)
         /\ DOMAIN items' = DOMAIN items
         /\ \A j \in DOMAIN items : items'[j] = IF j = i THEN row ELSE items[j]
BY DEF IInv, TypeOK

\* Advancing an item rewrites its row and no other.
LEMMA AdvancedRow ==
  ASSUME IInv, NEW i \in DOMAIN items, NEW u \in User, items' = Advanced(i, u)
  PROVE  /\ items' \in Seq(Item)
         /\ DOMAIN items' = DOMAIN items
         /\ \A j \in DOMAIN items : j # i => items'[j] = items[j]
<1> DEFINE row == [items[i] EXCEPT !.status = "pending_auditor_review", !.submitter = u,
                                   !.declared = FALSE]
<1>1. items[i] \in Item
  BY DEF IInv, TypeOK
<1>2. row \in Item
  BY <1>1 DEF Item, Status
<1>3. items' = [items EXCEPT ![i] = row]
  BY <1>1 DEF Advanced, IInv, TypeOK, Item
<1> HIDE DEF row
<1>4. QED
  BY <1>2, <1>3, Rewritten

\* An item advanced to review has its request on file, and the others are as they were.
LEMMA AdvancedAwaits ==
  ASSUME IInv, NEW i \in DOMAIN items, NEW u \in User, items' = Advanced(i, u),
         \A j : FiledFor(j) \subseteq FiledFor(j)', FiledFor(i)' # {}
  PROVE  /\ AwaitingHasRequest'
         /\ \A j \in DOMAIN items : Accounted(j) => Accounted(j)'
<1>1. /\ DOMAIN items' = DOMAIN items
      /\ \A j \in DOMAIN items : j # i => items'[j] = items[j]
  BY AdvancedRow
<1>2. ASSUME NEW j \in DOMAIN items', items'[j].status = "pending_auditor_review",
             ~items'[j].declared
      PROVE  FiledFor(j)' # {}
  <2>1. CASE j = i
    BY <2>1
  <2>2. CASE j # i
    <3>1. FiledFor(j) # {}
      BY <1>1, <1>2, <2>2 DEF IInv, AwaitingHasRequest
    <3>2. FiledFor(j) \subseteq FiledFor(j)'
      OBVIOUS
    <3>3. QED
      BY <3>1, <3>2
  <2>3. QED
    BY <2>1, <2>2
<1>3. ASSUME NEW j \in DOMAIN items, Accounted(j) PROVE Accounted(j)'
  <2>1. CASE j = i
    BY <2>1 DEF Accounted
  <2>2. CASE j # i
    BY <1>1, <1>3, <2>2 DEF Accounted
  <2>3. QED
    BY <2>1, <2>2
<1>4. QED
  BY <1>2, <1>3 DEF AwaitingHasRequest

\* The transaction of the gate advances an item, or adds one, and files.
LEMMA GateWriteStep ==
  ASSUME IInv, NEW u \in User, GateWrite(u)
  PROVE  IInv'
<1> DEFINE w == work[u]
<1>1. w \in Work /\ Sound(w) /\ w.phase = "gate" /\ Finish(u)
  BY DEF IInv, TypeOK, GateWrite
<1>2. CASE w.item # 0
  <2>1. PICK i \in DOMAIN items \cap Nat : i = w.item
    BY <1>1, <1>2 DEF Sound, Work
  <2>2. items' = Advanced(i, u) /\ File(u, i)
    BY <1>2, <2>1 DEF GateWrite
  <2> HIDE DEF w
  <2>3. /\ requests' \in Seq(Request)
        /\ \A j : FiledFor(j) \subseteq FiledFor(j)'
        /\ FiledFor(i)' # {}
    <3>1. TypeOK
      BY DEF IInv
    <3>2. QED
      BY <2>1, <2>2, <3>1, FileGrows
  <2>4. AwaitingHasRequest' /\ \A j \in DOMAIN items : Accounted(j) => Accounted(j)'
    BY <2>1, <2>2, <2>3, AdvancedAwaits
  <2>5. Grows
    BY <2>1, <2>2, <2>3, <2>4, AdvancedRow DEF Grows
  <2>6. QED
    BY <1>1, <2>4, <2>5, EndStep
<1>3. CASE w.item = 0
  <2> DEFINE item == NewItem(w.control, "control", "pending_auditor_review", u)
  <2>1. item \in Item
    BY <1>1 DEF NewItem, Item, Work, Source, Status
  <2>2. TypeOK /\ Len(items) + 1 \in Nat
    BY DEF IInv, TypeOK
  <2>3. PICK new \in Nat : new = Len(items) + 1
    BY <2>2
  <2>4. AddItem(item) /\ File(u, new)
    BY <1>3, <2>3 DEF GateWrite
  <2> HIDE DEF item, w
  <2>5. /\ requests' \in Seq(Request)
        /\ \A j : FiledFor(j) \subseteq FiledFor(j)'
        /\ FiledFor(new)' # {}
    BY <2>2, <2>4, FileGrows
  <2>6. AwaitingHasRequest'
    BY <2>1, <2>3, <2>4, <2>5, AddedAwaits
  <2>7. Grows
    <3>1. /\ items' \in Seq(Item) /\ DOMAIN items \subseteq DOMAIN items'
          /\ \A i \in DOMAIN items : items'[i] = items[i]
      BY <2>1, <2>2, <2>4, AddGrows
    <3>2. ASSUME NEW i \in DOMAIN items, Accounted(i) PROVE Accounted(i)'
      BY <2>5, <3>1, <3>2 DEF Accounted
    <3>3. QED
      BY <2>5, <3>1, <3>2 DEF Grows
  <2>8. QED
    BY <1>1, <2>6, <2>7, EndStep
<1>4. QED
  BY <1>2, <1>3

\* An edit or a decision writes the status the request carries, and no item is less
\* declared for it.
LEMMA StatusWritten ==
  ASSUME IInv, UNCHANGED requests, NEW i \in DOMAIN items, NEW row \in Item,
         items' = [items EXCEPT ![i] = row],
         items[i].declared => row.declared,
         row.status = "pending_auditor_review" => FiledFor(i) # {} \/ row.declared
  PROVE  Grows /\ AwaitingHasRequest'
<1>1. /\ items' \in Seq(Item)
      /\ DOMAIN items' = DOMAIN items
      /\ \A j \in DOMAIN items : items'[j] = IF j = i THEN row ELSE items[j]
  BY Rewritten
<1>2. \A j : FiledFor(j)' = FiledFor(j)
  BY DEF FiledFor
<1>3. Grows
  BY <1>1, <1>2 DEF IInv, TypeOK, Grows, Accounted
<1>4. AwaitingHasRequest'
  BY <1>1, <1>2 DEF IInv, AwaitingHasRequest
<1>5. QED
  BY <1>3, <1>4

\* An edit writes back that an item awaits review only when the item is accounted for.
LEMMA EditWriteStep ==
  ASSUME IInv, NEW u \in User, EditWrite(u)
  PROVE  IInv'
<1> DEFINE w == work[u]
           i == w.item
           row == [items[i] EXCEPT !.status = w.to,
                                   !.declared = items[i].declared \/ w.declares]
<1>1. w \in Work /\ Sound(w) /\ w.phase = "edit" /\ Finish(u) /\ UNCHANGED requests
  BY DEF IInv, TypeOK, EditWrite
<1>2. i \in DOMAIN items /\ w.to \in Status /\ w.declares \in BOOLEAN
  BY <1>1 DEF Sound, Work
<1>3. items[i] \in Item
  BY <1>2 DEF IInv, TypeOK
<1>4. /\ row \in Item /\ row.status = w.to
      /\ row.declared <=> items[i].declared \/ w.declares
  BY <1>2, <1>3 DEF Item
<1>5. items' = [items EXCEPT ![i] = row]
  BY <1>2, <1>3 DEF EditWrite, IInv, TypeOK, Item
<1>6. w.to = "pending_auditor_review" => FiledFor(i) # {} \/ row.declared
  BY <1>1, <1>4 DEF Sound, Accounted
<1> HIDE DEF w, row, i
<1>7. Grows /\ AwaitingHasRequest'
  BY <1>1, <1>2, <1>4, <1>5, <1>6, StatusWritten
<1>8. QED
  BY <1>1, <1>7, EndStep

\* A submission files its approval request before it marks the item.
LEMMA SubmitFileStep ==
  ASSUME IInv, NEW u \in User, SubmitFile(u)
  PROVE  IInv'
<1>1. work[u] \in Work /\ Sound(work[u]) /\ work[u].phase = "file" /\ TypeOK
  BY DEF IInv, TypeOK, SubmitFile
<1>2. PICK i \in DOMAIN items \cap Nat : i = work[u].item
  BY <1>1 DEF Sound, Work
<1>3. PICK marked \in Work : marked = [work[u] EXCEPT !.phase = "mark"]
  BY <1>1 DEF Work
<1>4. marked.phase = "mark" /\ marked.item = i
  BY <1>1, <1>2, <1>3 DEF Work
<1>5. File(u, i) /\ work' = [work EXCEPT ![u] = marked] /\ UNCHANGED items
  BY <1>1, <1>2, <1>3 DEF SubmitFile, TypeOK
<1>6. /\ requests' \in Seq(Request)
      /\ \A j : FiledFor(j) \subseteq FiledFor(j)'
      /\ FiledFor(i)' # {}
  BY <1>1, <1>2, <1>5, FileGrows
<1>7. Grows
  <2>1. ASSUME NEW j \in DOMAIN items, Accounted(j) PROVE Accounted(j)'
    BY <1>5, <1>6, <2>1 DEF Accounted
  <2>2. QED
    BY <1>1, <1>5, <1>6, <2>1 DEF Grows, TypeOK
<1>8. AwaitingHasRequest'
  <2>1. ASSUME NEW j \in DOMAIN items', items'[j].status = "pending_auditor_review",
               ~items'[j].declared
        PROVE  FiledFor(j)' # {}
    <3>1. FiledFor(j) # {}
      BY <1>5, <2>1 DEF IInv, AwaitingHasRequest
    <3>2. FiledFor(j) \subseteq FiledFor(j)'
      BY <1>6
    <3>3. QED
      BY <3>1, <3>2
  <2>2. QED
    BY <2>1 DEF AwaitingHasRequest
<1>9. Sound(marked)'
  <2>1. i \in DOMAIN items' /\ FiledFor(i)' # {}
    BY <1>2, <1>5, <1>6
  <2>2. QED
    BY <1>4, <2>1 DEF Sound
<1>10. QED
  BY <1>5, <1>7, <1>8, <1>9, RequestStep

\* A submission marks an item that has its approval request on file.
LEMMA SubmitMarkStep ==
  ASSUME IInv, NEW u \in User, SubmitMark(u)
  PROVE  IInv'
<1>1. work[u].item \in DOMAIN items /\ FiledFor(work[u].item) # {}
  BY DEF IInv, SubmitMark, Sound
<1>2. PICK i \in DOMAIN items :
        /\ FiledFor(i) # {}
        /\ items' = Advanced(i, u) /\ UNCHANGED requests /\ Finish(u)
  BY <1>1 DEF SubmitMark
<1>3. \A j : FiledFor(j)' = FiledFor(j)
  BY <1>2 DEF FiledFor
<1>4. AwaitingHasRequest' /\ \A j \in DOMAIN items : Accounted(j) => Accounted(j)'
  BY <1>2, <1>3, AdvancedAwaits
<1>5. Grows
  BY <1>2, <1>3, <1>4, AdvancedRow DEF Grows, IInv, TypeOK
<1>6. QED
  BY <1>2, <1>4, <1>5, EndStep

\* A request that ends changing no row.
LEMMA EndsQuietly ==
  ASSUME IInv, NEW u \in User, Finish(u), UNCHANGED <<items, requests>>
  PROVE  IInv'
<1>1. Grows
  BY SameRows DEF IInv
<1>2. AwaitingHasRequest'
  BY DEF IInv, AwaitingHasRequest, FiledFor
<1>3. QED
  BY <1>1, <1>2, EndStep

\* A decision takes the item out of the queue.
LEMMA ReviewDecideStep ==
  ASSUME IInv, NEW u \in User, ReviewDecide(u)
  PROVE  IInv'
<1> DEFINE w == work[u]
           row == [items[w.item] EXCEPT !.status = w.to, !.reviewer = u,
                                        !.heard = Len(requests)]
<1>1. w \in Work /\ Sound(w) /\ w.phase = "decide" /\ UNCHANGED requests
  BY DEF IInv, TypeOK, ReviewDecide
<1>2. PICK i \in DOMAIN items : i = w.item
  BY <1>1 DEF Sound
<1>3. items[i] \in Item /\ w.to \in Status /\ Len(requests) \in Nat
  BY <1>1, <1>2 DEF IInv, TypeOK, Work
<1>4. /\ row \in Item /\ row.status = w.to /\ w.to # "pending_auditor_review"
      /\ row.declared = items[i].declared
  BY <1>1, <1>2, <1>3 DEF Item, Sound
<1>5. items' = [items EXCEPT ![i] = row]
  BY <1>2, <1>3 DEF ReviewDecide, IInv, TypeOK, Item
<1>6. PICK recording \in Work : recording = [w EXCEPT !.phase = "record"]
  <2>1. [w EXCEPT !.phase = "record"] \in Work
    BY <1>1 DEF Work
  <2>2. QED
    BY <2>1
<1>7. work' = [work EXCEPT ![u] = recording]
  BY <1>1, <1>6 DEF ReviewDecide, IInv, TypeOK
<1> HIDE DEF w, row
<1>8. Grows /\ AwaitingHasRequest'
  BY <1>1, <1>4, <1>5, StatusWritten
<1>9. Sound(recording)'
  <2>1. recording.phase = "record"
    BY <1>1, <1>6 DEF Work
  <2>2. QED
    BY <2>1 DEF Sound
<1>10. QED
  BY <1>7, <1>8, <1>9, RequestStep
-----------------------------------------------------------------------------
\* The empty register satisfies the invariant.
LEMMA Initially == Init => IInv
<1> SUFFICES ASSUME Init PROVE IInv
  OBVIOUS
<1>1. TypeOK
  BY IdleSound DEF Init, TypeOK
<1>2. \A u \in User : Sound(work[u])
  BY DEF Init, Sound, Idle
<1>3. AwaitingHasRequest
  BY DEF Init, AwaitingHasRequest
<1>4. QED
  BY <1>1, <1>2, <1>3 DEF IInv

\* Every step of every request keeps the invariant.
LEMMA EveryStep ==
  ASSUME IInv, [Next]_vars
  PROVE  IInv'
<1>1. ASSUME NEW u \in User, ServerStep(u) PROVE IInv'
  <2>1. CASE ReviewRecord(u)
    BY <2>1, EndsQuietly DEF ReviewRecord
  <2>2. QED
    BY <1>1, <2>1, RaiseWriteStep, GateWriteStep, EditWriteStep, SubmitFileStep,
       SubmitMarkStep, ReviewDecideStep DEF ServerStep
<1>2. ASSUME NEW u \in User, Fail(u) PROVE IInv'
  BY <1>2, EndsQuietly DEF Fail
<1>3. CASE UNCHANGED vars
  BY <1>3 DEF vars, IInv, TypeOK, Sound, AwaitingHasRequest, FiledFor, Accounted
<1>4. QED
  BY <1>1, <1>2, <1>3, CreateStep, NewRequestStep DEF Next

\* The invariant holds in every run, whatever statuses people give the items.
THEOREM RegisterInvariance == Spec => []IInv
BY Initially, EveryStep, PTL DEF Spec

\* Type correctness of the register and of the requests in flight.
THEOREM RegisterTypeCorrect == Spec => []TypeOK
BY RegisterInvariance, PTL DEF IInv

\* The gate and the submission leave an auditor something to act on: whatever
\* requests overlap or fail half-way, an item awaiting review has an approval
\* request on file, unless a person has declared it in review since.
THEOREM ReviewIsPossible == Spec => []AwaitingHasRequest
BY RegisterInvariance, PTL DEF IInv

-----------------------------------------------------------------------------
(***************************************************************************)
(* One request at a time                                                   *)
(***************************************************************************)

OneAtATime == \A u, v \in User : work[u].phase # "idle" /\ work[v].phase # "idle" => u = v

\* An approval request was filed since an auditor last decided about the item.
Fresh(i) == \E k \in FiledFor(i) : k > items[i].heard

\* The latest approval request of the item is that of the user.
LatestBy(i, u) == \E k \in FiledFor(i) : (\A j \in FiledFor(i) : j <= k) /\ requests[k].by = u

\* Unless a person has declared it so, what awaits review was submitted by whom its
\* latest request says, and what has been decided was decided by somebody else.
ItemInOrder(i) ==
  /\ items[i].heard <= Len(requests)
  /\ items[i].status = "pending_auditor_review" /\ ~items[i].declared =>
       Fresh(i) /\ LatestBy(i, items[i].submitter)
  /\ items[i].status \in Decided /\ ~items[i].declared =>
       \E u \in User : u # items[i].reviewer /\ LatestBy(i, u)

\* What a request has read is still so.
WorkInOrder(u) ==
  LET w == work[u] IN
  /\ w.phase = "file" => items[w.item].status \in {"in_progress", "pending_review"}
  /\ w.phase = "mark" => Fresh(w.item) /\ LatestBy(w.item, u)
  /\ w.phase = "edit" /\ w.to \in Reviewing /\ ~w.declares => w.to = items[w.item].status
  /\ w.phase = "decide" => /\ items[w.item].status = "pending_auditor_review"
                           /\ items[w.item].submitter # u

SerialIInv ==
  /\ IInv /\ OneAtATime
  /\ \A i \in DOMAIN items : ItemInOrder(i)
  /\ \A u \in User : WorkInOrder(u)

\* Filing a request makes it the latest of its item, and leaves the others'.
LEMMA FiledInOrder ==
  ASSUME TypeOK, NEW u \in User, NEW i \in Nat, File(u, i)
  PROVE  /\ Len(requests') = Len(requests) + 1 /\ Len(requests) \in Nat
         /\ FiledFor(i)' = FiledFor(i) \cup {Len(requests) + 1}
         /\ LatestBy(i, u)'
         /\ \A j : j # i => FiledFor(j)' = FiledFor(j)
         /\ \A j, v : j # i /\ LatestBy(j, v) => LatestBy(j, v)'
<1> DEFINE r == [item |-> i, by |-> u]
<1>1. r.item = i /\ r.by = u /\ requests' = Append(requests, r) /\ requests \in Seq(Request)
  BY DEF File, TypeOK
<1> HIDE DEF r
<1>2. /\ DOMAIN requests' = 1..(Len(requests) + 1) /\ Len(requests') = Len(requests) + 1
      /\ \A k \in DOMAIN requests : requests'[k] = requests[k]
      /\ requests'[Len(requests) + 1] = r
      /\ DOMAIN requests = 1..Len(requests) /\ Len(requests) \in Nat
  BY <1>1
<1>3. FiledFor(i)' = FiledFor(i) \cup {Len(requests) + 1}
  BY <1>1, <1>2 DEF FiledFor
<1>4. \A j : j # i => FiledFor(j)' = FiledFor(j)
  BY <1>1, <1>2 DEF FiledFor
<1>5. LatestBy(i, u)'
  BY <1>1, <1>2, <1>3 DEF LatestBy, FiledFor
<1>6. ASSUME NEW j, NEW v, j # i, LatestBy(j, v) PROVE LatestBy(j, v)'
  BY <1>2, <1>4, <1>6 DEF LatestBy, FiledFor
<1>7. QED
  BY <1>2, <1>3, <1>4, <1>5, <1>6

\* Nothing changes for an item that keeps its row, and for which no request is
\* filed.
LEMMA ItemStays ==
  ASSUME TypeOK, NEW i \in DOMAIN items, ItemInOrder(i), items'[i] = items[i],
         \/ UNCHANGED requests
         \/ \E u \in User, j \in Nat : j # i /\ File(u, j)
  PROVE  ItemInOrder(i)'
<1>1. items[i] \in Item
  BY DEF TypeOK
<1>2. items[i].heard \in Nat
  BY <1>1 DEF Item
<1>3. CASE UNCHANGED requests
  BY <1>3 DEF ItemInOrder, Fresh, LatestBy, FiledFor
<1>4. ASSUME NEW u \in User, NEW j \in Nat, j # i, File(u, j) PROVE ItemInOrder(i)'
  <2>1. /\ Len(requests') = Len(requests) + 1 /\ Len(requests) \in Nat
        /\ FiledFor(i)' = FiledFor(i)
        /\ \A v : LatestBy(i, v) => LatestBy(i, v)'
    BY <1>4, FiledInOrder
  <2>2. Fresh(i) => Fresh(i)'
    BY <2>1 DEF Fresh
  <2>3. items'[i].heard <= Len(requests')
    BY <1>2, <2>1 DEF ItemInOrder
  <2>4. PICK x : x = items[i]
    OBVIOUS
  <2>5. LatestBy(i, x.submitter) => LatestBy(i, x.submitter)'
    BY <2>1
  <2>6. QED
    BY <2>1, <2>2, <2>3, <2>4, <2>5 DEF ItemInOrder
<1>5. QED
  BY <1>3, <1>4

\* A step of one request, after which the others are idle.
LEMMA SerialWork ==
  ASSUME SerialIInv, IInv', OneAtATime', NEW u \in User, work[u].phase # "idle" \/ work'[u].phase # "idle",
         \A v \in User \ {u} : work'[v] = work[v],
         \A i \in DOMAIN items' : ItemInOrder(i)', WorkInOrder(u)',
         work[u].phase = "idle" => UNCHANGED <<items, requests>>
  PROVE  SerialIInv'
<1>1. ASSUME NEW v \in User, v # u PROVE WorkInOrder(v)'
  <2>1. work'[v] = work[v]
    BY <1>1
  <2>2. work'[v].phase = "idle"
    BY <1>1, <2>1 DEF SerialIInv, OneAtATime
  <2>3. QED
    BY <2>2 DEF WorkInOrder
<1>2. QED
  BY <1>1 DEF SerialIInv

\* A request reads: what it has read is so.
LEMMA SerialRead ==
  ASSUME SerialIInv, IInv', OneAtATime', NEW u \in User, NewRequest(u)
  PROVE  SerialIInv'
<1>1. UNCHANGED <<items, requests>> /\ work[u].phase = "idle"
  BY DEF NewRequest, GateRead, RaiseRead, SubmitRead, EditRead, ReviewRead, MayStart
<1>2. work \in [User -> Work] /\ Idle \in Work
  BY IdleSound DEF SerialIInv, IInv, TypeOK
<1>3. PICK w : /\ work' = [work EXCEPT ![u] = w]
               /\ w.phase \in {"gate", "raise", "file", "edit", "decide"}
               /\ w.phase = "file" => items[w.item].status \in {"in_progress", "pending_review"}
               /\ w.phase = "edit" /\ w.to \in Reviewing /\ ~w.declares =>
                    w.to = items[w.item].status
               /\ w.phase = "decide" => /\ items[w.item].status = "pending_auditor_review"
                                        /\ items[w.item].submitter # u
  <2> DEFINE Reads(w) ==
        /\ work' = [work EXCEPT ![u] = w]
        /\ w.phase \in {"gate", "raise", "file", "edit", "decide"}
        /\ w.phase = "file" => items[w.item].status \in {"in_progress", "pending_review"}
        /\ w.phase = "edit" /\ w.to \in Reviewing /\ ~w.declares =>
             w.to = items[w.item].status
        /\ w.phase = "decide" => /\ items[w.item].status = "pending_auditor_review"
                                 /\ items[w.item].submitter # u
  <2>1. ASSUME NEW c \in Control, GateRead(u, c) PROVE \E w : Reads(w)
    <3>1. PICK i : work' = [work EXCEPT ![u] =
                              [Idle EXCEPT !.phase = "gate", !.control = c, !.item = i]]
      BY <2>1 DEF GateRead
    <3> DEFINE w == [Idle EXCEPT !.phase = "gate", !.control = c, !.item = i]
    <3>2. w.phase = "gate" /\ work' = [work EXCEPT ![u] = w]
      BY <3>1 DEF Idle
    <3> HIDE DEF w
    <3>3. QED
      BY <3>2
  <2>2. ASSUME NEW c \in Control, NEW s \in GapSource, RaiseRead(u, c, s) PROVE \E w : Reads(w)
    <3> DEFINE w == [Idle EXCEPT !.phase = "raise", !.control = c, !.source = s]
    <3>1. w.phase = "raise"
      BY DEF Idle
    <3>2. work' = [work EXCEPT ![u] = w]
      BY <2>2 DEF RaiseRead
    <3> HIDE DEF w
    <3>3. Reads(w)
      BY <2>2, <3>1, <3>2 DEF RaiseRead
    <3>4. QED
      BY <3>3
  <2>3. ASSUME NEW i \in DOMAIN items, SubmitRead(u, i) PROVE \E w : Reads(w)
    <3> DEFINE w == [Idle EXCEPT !.phase = "file", !.item = i]
    <3>1. w.phase = "file" /\ w.item = i
      BY DEF Idle
    <3>2. work' = [work EXCEPT ![u] = w]
      BY <2>3 DEF SubmitRead
    <3> HIDE DEF w
    <3>3. Reads(w)
      BY <2>3, <3>1, <3>2 DEF SubmitRead
    <3>4. QED
      BY <3>3
  <2>4. ASSUME NEW i \in DOMAIN items, NEW s \in Status, NEW named \in BOOLEAN,
               EditRead(u, i, s, named)
        PROVE  \E w : Reads(w)
    <3> DEFINE w == [Idle EXCEPT !.phase = "edit", !.item = i, !.to = s,
                                 !.declares = named /\ s \in Reviewing]
    <3>1. /\ w.phase = "edit" /\ w.item = i /\ w.to = s
          /\ w.declares <=> named /\ s \in Reviewing
      BY DEF Idle
    <3>2. work' = [work EXCEPT ![u] = w]
      BY <2>4 DEF EditRead
    <3> HIDE DEF w
    <3>3. Reads(w)
      BY <2>4, <3>1, <3>2 DEF EditRead
    <3>4. QED
      BY <3>3
  <2>5. ASSUME NEW i \in DOMAIN items, NEW o \in Outcome, ReviewRead(u, i, o) PROVE \E w : Reads(w)
    <3> DEFINE w == [Idle EXCEPT !.phase = "decide", !.item = i, !.to = Verdict(o)]
    <3>1. w.phase = "decide" /\ w.item = i
      BY DEF Idle
    <3>2. work' = [work EXCEPT ![u] = w]
      BY <2>5 DEF ReviewRead
    <3> HIDE DEF w
    <3>3. Reads(w)
      BY <2>5, <3>1, <3>2 DEF ReviewRead
    <3>4. QED
      BY <3>3
  <2>6. QED
    BY <2>1, <2>2, <2>3, <2>4, <2>5 DEF NewRequest
<1>4. work'[u] = w /\ \A v \in User \ {u} : work'[v] = work[v]
  BY <1>2, <1>3
<1>5. WorkInOrder(u)'
  BY <1>1, <1>3, <1>4 DEF WorkInOrder
<1>6. \A i \in DOMAIN items' : ItemInOrder(i)'
  BY <1>1 DEF SerialIInv, ItemInOrder, Fresh, LatestBy, FiledFor
<1>7. QED
  BY <1>1, <1>3, <1>4, <1>5, <1>6, SerialWork

\* An item that is created awaits no review and has not been decided, unless a person
\* declares it so.
LEMMA AddedInOrder ==
  ASSUME SerialIInv, NEW item \in Item, AddItem(item), UNCHANGED requests,
         item.heard = 0, item.declared \/ item.status \notin Reviewing
  PROVE  /\ \A i \in DOMAIN items' : ItemInOrder(i)'
         /\ \A i \in DOMAIN items : i \in DOMAIN items' /\ items'[i] = items[i]
<1>1. TypeOK /\ Len(requests) \in Nat
  BY DEF SerialIInv, IInv, TypeOK
<1>2. PICK new : new = Len(items) + 1
  OBVIOUS
<1>3. /\ DOMAIN items' = DOMAIN items \cup {new}
      /\ \A i \in DOMAIN items : items'[i] = items[i]
      /\ items'[new] = item
  BY <1>1, <1>2, AddGrows
<1>4. ASSUME NEW i \in DOMAIN items PROVE ItemInOrder(i)'
  BY <1>1, <1>3, ItemStays DEF SerialIInv
<1>5. ItemInOrder(new)'
  BY <1>1, <1>3 DEF ItemInOrder, Reviewing
<1>6. QED
  BY <1>3, <1>4, <1>5

\* People create an item, at any time.
LEMMA SerialCreate ==
  ASSUME SerialIInv, IInv', OneAtATime',
         NEW c \in Control \cup {None}, NEW s \in Status, Create(c, s)
  PROVE  SerialIInv'
<1> DEFINE item == NewItem(c, "manual", s, None)
<1>1. /\ item \in Item /\ item.heard = 0 /\ item.status = s /\ AddItem(item)
      /\ UNCHANGED <<requests, work>>
  BY PoamParameters DEF Create, NewItem, Item, Source
<1>2. item.declared \/ item.status \notin Reviewing
  BY DEF NewItem
<1> HIDE DEF item
<1>3. /\ \A i \in DOMAIN items' : ItemInOrder(i)'
      /\ \A i \in DOMAIN items : items'[i] = items[i]
  BY <1>1, <1>2, AddedInOrder
<1>4. ASSUME NEW v \in User PROVE WorkInOrder(v)'
  <2>1. Sound(work[v]) /\ WorkInOrder(v)
    BY DEF SerialIInv, IInv
  <2>2. PICK w : w = work[v]
    OBVIOUS
  <2>3. w.phase \in {"edit", "file", "mark", "decide"} => items'[w.item] = items[w.item]
    BY <1>3, <2>1, <2>2 DEF Sound
  <2>4. work'[v] = w
    BY <1>1, <2>2
  <2>5. w.phase = "mark" => Fresh(w.item)' /\ LatestBy(w.item, v)'
    BY <1>1, <2>1, <2>2, <2>3 DEF WorkInOrder, Fresh, LatestBy, FiledFor
  <2>6. QED
    BY <2>1, <2>2, <2>3, <2>4, <2>5 DEF WorkInOrder
<1>5. QED
  BY <1>3, <1>4 DEF SerialIInv

\* A request that ends has nothing in hand.
LEMMA FinishedInOrder ==
  ASSUME SerialIInv, IInv', OneAtATime', NEW u \in User, work[u].phase # "idle", Finish(u),
         \A i \in DOMAIN items' : ItemInOrder(i)'
  PROVE  SerialIInv'
<1>1. work \in [User -> Work]
  BY DEF SerialIInv, IInv, TypeOK
<1>2. work'[u] = Idle /\ \A v \in User \ {u} : work'[v] = work[v]
  BY <1>1 DEF Finish
<1>3. WorkInOrder(u)'
  BY <1>2 DEF WorkInOrder, Idle
<1>4. QED
  BY <1>2, <1>3, SerialWork

\* An item is advanced for the user whose request is the latest.
LEMMA AdvancedInOrder ==
  ASSUME SerialIInv, NEW u \in User, NEW i \in DOMAIN items, i \in Nat, items' = Advanced(i, u),
         \/ UNCHANGED requests /\ Fresh(i) /\ LatestBy(i, u)
         \/ File(u, i)
  PROVE  \A j \in DOMAIN items' : ItemInOrder(j)'
<1> DEFINE row == [items[i] EXCEPT !.status = "pending_auditor_review", !.submitter = u,
                                   !.declared = FALSE]
<1>1. TypeOK /\ IInv /\ items[i] \in Item /\ ItemInOrder(i)
  BY DEF SerialIInv, IInv, TypeOK
<1>2. /\ row \in Item /\ row.status = "pending_auditor_review" /\ row.submitter = u
      /\ row.heard = items[i].heard
  BY <1>1 DEF Item, Status
<1>3. items' = [items EXCEPT ![i] = row]
  BY <1>1 DEF Advanced, TypeOK, Item
<1> HIDE DEF row
<1>4. DOMAIN items' = DOMAIN items /\ \A j \in DOMAIN items : items'[j] = IF j = i THEN row ELSE items[j]
  BY <1>1, <1>2, <1>3, Rewritten
<1>5. ASSUME NEW j \in DOMAIN items, j # i PROVE ItemInOrder(j)'
  <2>1. ItemInOrder(j) /\ items'[j] = items[j]
    BY <1>4, <1>5 DEF SerialIInv
  <2>2. UNCHANGED requests \/ \E v \in User, k \in Nat : k # j /\ File(v, k)
    BY <1>5
  <2>3. QED
    BY <1>1, <2>1, <2>2, ItemStays
<1>6. items[i].heard \in Nat /\ items[i].heard <= Len(requests) /\ Len(requests) \in Nat
  BY <1>1 DEF Item, ItemInOrder, TypeOK
<1>7. items[i].heard <= Len(requests') /\ Fresh(i)' /\ LatestBy(i, u)'
  <2>1. CASE UNCHANGED requests /\ Fresh(i) /\ LatestBy(i, u)
    BY <1>2, <1>4, <1>6, <2>1 DEF Fresh, LatestBy, FiledFor
  <2>2. CASE File(u, i)
    <3>1. /\ Len(requests') = Len(requests) + 1 /\ Len(requests) + 1 \in FiledFor(i)'
          /\ LatestBy(i, u)'
      BY <1>1, <2>2, FiledInOrder
    <3>2. QED
      BY <1>2, <1>4, <1>6, <3>1 DEF Fresh
  <2>3. QED
    BY <2>1, <2>2
<1>8. ItemInOrder(i)'
  BY <1>2, <1>4, <1>7 DEF ItemInOrder, Decided
<1>9. QED
  BY <1>4, <1>5, <1>8

\* The gate advances an item and files for it, or creates one.
LEMMA SerialGate ==
  ASSUME SerialIInv, IInv', OneAtATime', NEW u \in User, GateWrite(u)
  PROVE  SerialIInv'
<1> DEFINE w == work[u]
<1>1. w \in Work /\ Sound(w) /\ w.phase = "gate" /\ Finish(u) /\ TypeOK
  BY DEF SerialIInv, IInv, TypeOK, GateWrite
<1>2. CASE w.item # 0
  <2>1. PICK i \in DOMAIN items : i = w.item /\ i \in Nat
    BY <1>1, <1>2 DEF Sound, Work
  <2>2. items' = Advanced(i, u) /\ File(u, i)
    BY <1>2, <2>1 DEF GateWrite
  <2> HIDE DEF w
  <2>3. \A j \in DOMAIN items' : ItemInOrder(j)'
    BY <2>1, <2>2, AdvancedInOrder
  <2> USE DEF w
  <2>4. QED
    BY <1>1, <2>3, FinishedInOrder
<1>3. CASE w.item = 0
  <2> DEFINE item == NewItem(w.control, "control", "pending_auditor_review", u)
  <2>1. item \in Item /\ item.status = "pending_auditor_review" /\ item.submitter = u /\ item.heard = 0
    BY <1>1 DEF NewItem, Item, Work, Source, Status
  <2>2. Len(items) + 1 \in Nat /\ Len(requests) \in Nat /\ DOMAIN items = 1 .. Len(items)
    BY <1>1 DEF TypeOK
  <2>3. PICK new \in Nat : new = Len(items) + 1
    BY <2>2
  <2>4. AddItem(item) /\ File(u, new)
    BY <1>3, <2>3 DEF GateWrite
  <2> HIDE DEF item
  <2>5. /\ DOMAIN items' = DOMAIN items \cup {new} /\ items'[new] = item
        /\ \A j \in DOMAIN items : items'[j] = items[j]
    BY <1>1, <2>1, <2>3, <2>4, AddGrows
  <2>6. ASSUME NEW j \in DOMAIN items PROVE ItemInOrder(j)'
    <3>1. j # new /\ ItemInOrder(j)
      BY <2>2, <2>3 DEF SerialIInv
    <3>2. QED
      BY <1>1, <2>3, <2>4, <2>5, <3>1, ItemStays
  <2>7. /\ Len(requests') = Len(requests) + 1 /\ Len(requests) + 1 \in FiledFor(new)'
        /\ LatestBy(new, u)'
    BY <1>1, <2>4, FiledInOrder
  <2>8. ItemInOrder(new)'
    BY <2>1, <2>2, <2>5, <2>7 DEF ItemInOrder, Fresh, Decided
  <2>9. \A j \in DOMAIN items' : ItemInOrder(j)'
    BY <2>5, <2>6, <2>8
  <2>10. QED
    BY <1>1, <2>9, FinishedInOrder
<1>4. QED
  BY <1>2, <1>3

\* An edit writes the status it has read, or declares the one the client names.
LEMMA SerialEdit ==
  ASSUME SerialIInv, IInv', OneAtATime', NEW u \in User, EditWrite(u)
  PROVE  SerialIInv'
<1>1. PICK w : w = work[u]
  OBVIOUS
<1>2. /\ w \in Work /\ w.phase = "edit" /\ Finish(u) /\ UNCHANGED requests
      /\ w.item \in DOMAIN items /\ TypeOK
      /\ w.to \in Reviewing /\ ~w.declares => w.to = items[w.item].status
  BY <1>1 DEF SerialIInv, IInv, TypeOK, EditWrite, Sound, WorkInOrder
<1>3. PICK i \in DOMAIN items : i = w.item
  BY <1>2
<1> DEFINE row == [items[i] EXCEPT !.status = w.to,
                                   !.declared = items[i].declared \/ w.declares]
<1>4. items[i] \in Item /\ w.to \in Status /\ w.declares \in BOOLEAN /\ ItemInOrder(i)
  BY <1>2, <1>3 DEF TypeOK, Work, SerialIInv
<1>5. /\ row \in Item /\ row.status = w.to /\ row.submitter = items[i].submitter
      /\ row.reviewer = items[i].reviewer /\ row.heard = items[i].heard
      /\ row.declared <=> items[i].declared \/ w.declares
  BY <1>4 DEF Item
<1>6. items' = [items EXCEPT ![i] = row]
  BY <1>1, <1>2, <1>3, <1>4 DEF EditWrite, TypeOK, Item
<1> HIDE DEF row
<1>7. DOMAIN items' = DOMAIN items /\ \A j \in DOMAIN items : items'[j] = IF j = i THEN row ELSE items[j]
  BY <1>5, <1>6, Rewritten DEF SerialIInv
<1>8. ASSUME NEW j \in DOMAIN items, j # i PROVE ItemInOrder(j)'
  <2>1. ItemInOrder(j) /\ items'[j] = items[j]
    BY <1>7, <1>8 DEF SerialIInv
  <2>2. QED
    BY <1>2, <2>1, ItemStays
<1>9. ItemInOrder(i)'
  <2>1. items'[i] = row
    BY <1>7
  <2>2. /\ Fresh(i) => Fresh(i)'
        /\ \A v : LatestBy(i, v) => LatestBy(i, v)'
    BY <1>2, <1>5, <2>1 DEF Fresh, LatestBy, FiledFor
  <2>3. PICK x : x = items[i]
    OBVIOUS
  <2>4. CASE w.to \notin Reviewing \/ row.declared
    BY <1>2, <1>4, <1>5, <2>1, <2>4 DEF Reviewing, ItemInOrder
  <2>5. CASE w.to = items[i].status /\ ~row.declared
    BY <1>2, <1>4, <1>5, <2>1, <2>2, <2>3, <2>5 DEF ItemInOrder
  <2>6. w.to \in Reviewing /\ ~row.declared => w.to = items[i].status
    BY <1>2, <1>3, <1>5
  <2>7. QED
    BY <2>4, <2>5, <2>6
<1>10. \A j \in DOMAIN items' : ItemInOrder(j)'
  BY <1>7, <1>8, <1>9
<1>11. QED
  BY <1>1, <1>2, <1>10, FinishedInOrder

\* A submission files the request, which is the latest of its item.
LEMMA SerialFile ==
  ASSUME SerialIInv, IInv', OneAtATime', NEW u \in User, SubmitFile(u)
  PROVE  SerialIInv'
<1>1. /\ work[u].phase = "file" /\ work \in [User -> Work] /\ TypeOK /\ UNCHANGED items
      /\ work[u].item \in DOMAIN items /\ work[u].item \in Nat /\ File(u, work[u].item)
      /\ items[work[u].item].status \in {"in_progress", "pending_review"}
  BY DEF SubmitFile, SerialIInv, IInv, TypeOK, Sound, WorkInOrder, Work
<1>2. PICK i \in DOMAIN items : i = work[u].item /\ i \in Nat
  BY <1>1
<1>3. File(u, i) /\ items[i].status \in {"in_progress", "pending_review"}
  BY <1>1, <1>2
<1>4. /\ Len(requests') = Len(requests) + 1 /\ Len(requests) \in Nat
      /\ Len(requests) + 1 \in FiledFor(i)' /\ LatestBy(i, u)'
  BY <1>1, <1>2, <1>3, FiledInOrder
<1>5. ItemInOrder(i) /\ items[i].heard \in Nat
  <2>1. items[i] \in Item
    BY <1>1, <1>2 DEF TypeOK
  <2>2. QED
    BY <1>2, <2>1 DEF SerialIInv, Item
<1>6. Fresh(i)' /\ ItemInOrder(i)'
  BY <1>1, <1>3, <1>4, <1>5 DEF Fresh, ItemInOrder, Decided
<1>7. ASSUME NEW j \in DOMAIN items, j # i PROVE ItemInOrder(j)'
  BY <1>1, <1>2, <1>3, <1>7, ItemStays DEF SerialIInv
<1>8. /\ work'[u].phase = "mark" /\ work'[u].item = i
      /\ \A v \in User \ {u} : work'[v] = work[v]
  BY <1>1, <1>2 DEF SubmitFile, Work
<1>9. WorkInOrder(u)'
  BY <1>4, <1>6, <1>8 DEF WorkInOrder
<1>10. QED
  BY <1>1, <1>6, <1>7, <1>8, <1>9, SerialWork

\* An auditor decides about an item that somebody else has submitted.
LEMMA SerialDecide ==
  ASSUME SerialIInv, IInv', OneAtATime', NEW u \in User, ReviewDecide(u)
  PROVE  SerialIInv'
<1>1. PICK w : w = work[u]
  OBVIOUS
<1>2. /\ w \in Work /\ w.phase = "decide" /\ UNCHANGED requests /\ TypeOK
      /\ w.item \in DOMAIN items /\ w.to # "pending_auditor_review"
      /\ items[w.item].status = "pending_auditor_review" /\ items[w.item].submitter # u
  BY <1>1 DEF SerialIInv, IInv, TypeOK, ReviewDecide, Sound, WorkInOrder
<1>3. PICK i \in DOMAIN items : i = w.item
  BY <1>2
<1> DEFINE row == [items[i] EXCEPT !.status = w.to, !.reviewer = u, !.heard = Len(requests)]
<1>4. items[i] \in Item /\ w.to \in Status /\ ItemInOrder(i) /\ Len(requests) \in Nat
  BY <1>2, <1>3 DEF TypeOK, Work, SerialIInv
<1>5. /\ row \in Item /\ row.status = w.to /\ row.reviewer = u /\ row.heard = Len(requests)
      /\ row.declared = items[i].declared
  BY <1>4 DEF Item
<1>6. items' = [items EXCEPT ![i] = row]
  BY <1>1, <1>2, <1>3, <1>4 DEF ReviewDecide, TypeOK, Item
<1> HIDE DEF row
<1>7. DOMAIN items' = DOMAIN items /\ \A j \in DOMAIN items : items'[j] = IF j = i THEN row ELSE items[j]
  BY <1>5, <1>6, Rewritten DEF SerialIInv
<1>8. ASSUME NEW j \in DOMAIN items, j # i PROVE ItemInOrder(j)'
  <2>1. ItemInOrder(j) /\ items'[j] = items[j]
    BY <1>7, <1>8 DEF SerialIInv
  <2>2. QED
    BY <1>2, <2>1, ItemStays
<1>9. ItemInOrder(i)'
  <2>1. PICK v : v = items[i].submitter
    OBVIOUS
  <2>2. ~row.declared => LatestBy(i, v) /\ v # u
    BY <1>2, <1>3, <1>4, <1>5, <2>1 DEF ItemInOrder
  <2>3. ~row.declared => LatestBy(i, v)'
    BY <1>2, <2>2 DEF LatestBy, FiledFor
  <2>4. ASSUME ~row.declared PROVE v \in User
    <3>1. PICK k \in DOMAIN requests : requests[k].by = v
      BY <2>2, <2>4 DEF LatestBy, FiledFor
    <3>2. requests[k] \in Request
      BY <1>2 DEF TypeOK
    <3>3. QED
      BY <3>1, <3>2 DEF Request
  <2>5. items'[i] = row
    BY <1>7
  <2>6. QED
    BY <1>2, <1>4, <1>5, <2>2, <2>3, <2>4, <2>5 DEF ItemInOrder
<1>10. \A j \in DOMAIN items' : ItemInOrder(j)'
  BY <1>7, <1>8, <1>9
<1>11. work'[u].phase = "record" /\ \A v \in User \ {u} : work'[v] = work[v]
  BY <1>1, <1>2 DEF ReviewDecide, TypeOK, Work
<1>12. WorkInOrder(u)'
  BY <1>11 DEF WorkInOrder
<1>13. QED
  BY <1>1, <1>2, <1>10, <1>11, <1>12, SerialWork

\* Every step after which at most one request is in flight keeps the order.
LEMMA SerialStep ==
  ASSUME SerialIInv, [Next]_vars, OneAtATime'
  PROVE  SerialIInv'
<1>1. IInv'
  BY EveryStep DEF SerialIInv
<1>2. ASSUME NEW u \in User, Finish(u), work[u].phase # "idle", UNCHANGED <<items, requests>>
      PROVE  SerialIInv'
  <2>1. \A i \in DOMAIN items' : ItemInOrder(i)'
    BY <1>2 DEF SerialIInv, ItemInOrder, Fresh, LatestBy, FiledFor
  <2>2. QED
    BY <1>1, <1>2, <2>1, FinishedInOrder
<1>3. ASSUME NEW u \in User, RaiseWrite(u) PROVE SerialIInv'
  <2> DEFINE item == NewItem(work[u].control, work[u].source, "open", None)
  <2>1. work[u] \in Work
    BY DEF SerialIInv, IInv, TypeOK
  <2>2. /\ item \in Item /\ item.heard = 0 /\ item.status = "open" /\ AddItem(item)
        /\ UNCHANGED requests /\ Finish(u) /\ work[u].phase # "idle"
    BY <1>3, <2>1 DEF RaiseWrite, NewItem, Item, Work, Status
  <2> HIDE DEF item
  <2>3. \A i \in DOMAIN items' : ItemInOrder(i)'
    BY <2>2, AddedInOrder DEF Reviewing, Decided
  <2>4. QED
    BY <1>1, <2>2, <2>3, FinishedInOrder
<1>4. ASSUME NEW u \in User, SubmitMark(u) PROVE SerialIInv'
  <2>1. work[u] \in Work /\ Sound(work[u]) /\ WorkInOrder(u) /\ work[u].phase = "mark"
    BY <1>4 DEF SerialIInv, IInv, TypeOK, SubmitMark
  <2>2. PICK i \in DOMAIN items : i = work[u].item /\ i \in Nat /\ Fresh(i) /\ LatestBy(i, u)
    BY <2>1 DEF Sound, WorkInOrder, Work
  <2>3. items' = Advanced(i, u) /\ UNCHANGED requests /\ Finish(u)
    BY <1>4, <2>2 DEF SubmitMark
  <2>4. \A j \in DOMAIN items' : ItemInOrder(j)'
    BY <2>2, <2>3, AdvancedInOrder
  <2>5. QED
    BY <1>1, <2>1, <2>3, <2>4, FinishedInOrder
<1>5. ASSUME NEW u \in User, ServerStep(u) PROVE SerialIInv'
  <2>1. CASE ReviewRecord(u)
    BY <1>2, <2>1 DEF ReviewRecord
  <2>2. QED
    BY <1>1, <1>3, <1>4, <1>5, <2>1, SerialGate, SerialEdit, SerialFile, SerialDecide DEF ServerStep
<1>6. ASSUME NEW u \in User, Fail(u) PROVE SerialIInv'
  BY <1>2, <1>6 DEF Fail
<1>7. CASE UNCHANGED vars
  BY <1>1, <1>7 DEF vars, SerialIInv, OneAtATime, ItemInOrder, WorkInOrder, Fresh, LatestBy, FiledFor
<1>8. QED
  BY <1>1, <1>5, <1>6, <1>7, SerialCreate, SerialRead DEF Next

\* What the invariant says about rounds of review and about who decides.
LEMMA SerialMeaning ==
  ASSUME SerialIInv
  PROVE  AwaitingHasFreshRequest /\ DecidedByAnother
<1>1. AwaitingHasFreshRequest
  BY DEF SerialIInv, ItemInOrder, Fresh, AwaitingHasFreshRequest
<1>2. ASSUME NEW i \in DOMAIN items, items[i].status \in Decided, ~items[i].declared
      PROVE  FiledFor(i) # {} /\ requests[Max(FiledFor(i))].by # items[i].reviewer
  <2>1. PICK u \in User : u # items[i].reviewer /\ LatestBy(i, u)
    BY <1>2 DEF SerialIInv, ItemInOrder
  <2>2. PICK k \in FiledFor(i) : (\A j \in FiledFor(i) : j <= k) /\ requests[k].by = u
    BY <2>1 DEF LatestBy
  <2>3. \A j \in FiledFor(i) : j \in Nat
    BY DEF FiledFor, SerialIInv, IInv, TypeOK
  <2>4. \A x \in FiledFor(i) : (\A y \in FiledFor(i) : x >= y) => x = k
    BY <2>2, <2>3
  <2>5. \A y \in FiledFor(i) : k >= y
    BY <2>2, <2>3
  <2>6. Max(FiledFor(i)) = k
    BY <2>2, <2>4, <2>5 DEF Max
  <2>7. QED
    BY <2>1, <2>2, <2>6
<1>3. QED
  BY <1>1, <1>2 DEF DecidedByAnother

\* The empty register is in order.
LEMMA SerialInitially == Init => SerialIInv
<1> SUFFICES ASSUME Init PROVE SerialIInv
  OBVIOUS
<1>1. items = <<>> /\ \A u \in User : work[u].phase = "idle"
  BY DEF Init, Idle
<1>2. QED
  BY <1>1, Initially DEF SerialIInv, OneAtATime, WorkInOrder

\* Without overlap a request begins when the others are done.
LEMMA NoOverlap ==
  ASSUME ~Overlap, IInv, OneAtATime, [Next]_vars
  PROVE  OneAtATime'
<1>1. work \in [User -> Work]
  BY DEF IInv, TypeOK
<1>2. ASSUME NEW u \in User, NEW w, work' = [work EXCEPT ![u] = w], MayStart(u) \/ work[u].phase # "idle"
      PROVE  OneAtATime'
  BY <1>1, <1>2 DEF OneAtATime, MayStart
<1>3. ASSUME NEW u \in User, NewRequest(u) PROVE OneAtATime'
  <2>1. MayStart(u) /\ \E w : work' = [work EXCEPT ![u] = w]
    BY <1>3 DEF NewRequest, GateRead, RaiseRead, SubmitRead, EditRead, ReviewRead
  <2>2. QED
    BY <1>2, <2>1
<1>4. ASSUME NEW u \in User, ServerStep(u) \/ Fail(u) PROVE OneAtATime'
  <2>1. work[u].phase # "idle" /\ \E w : work' = [work EXCEPT ![u] = w]
    BY <1>4 DEF ServerStep, Fail, RaiseWrite, GateWrite, EditWrite, SubmitFile, SubmitMark,
                ReviewDecide, ReviewRecord, Finish
  <2>2. QED
    BY <1>2, <2>1
<1>5. ASSUME UNCHANGED work PROVE OneAtATime'
  BY <1>5 DEF OneAtATime
<1>6. QED
  BY <1>3, <1>4, <1>5 DEF Next, Create, vars

\* One request at a time, the order of rounds and deciders is kept.
LEMMA SerialInvariance == ASSUME ~Overlap PROVE Spec => []SerialIInv
<1>1. ASSUME SerialIInv, [Next]_vars PROVE SerialIInv'
  <2>1. OneAtATime'
    BY <1>1, NoOverlap DEF SerialIInv
  <2>2. QED
    BY <1>1, <2>1, SerialStep
<1>2. QED
  BY <1>1, SerialInitially, PTL DEF Spec

\* Where requests do not overlap, every round of review that the gate or a submission
\* opens has an approval request of its own, whatever fails half-way.
THEOREM RoundsAreFiled == ASSUME ~Overlap PROVE Spec => []AwaitingHasFreshRequest
BY SerialInvariance, SerialMeaning, PTL

\* Where requests do not overlap, and unless a person has declared the item in review
\* since, nobody but another user has decided about the request that a user has filed.
THEOREM DutiesAreSeparate == ASSUME ~Overlap PROVE Spec => []DecidedByAnother
BY SerialInvariance, SerialMeaning, PTL
-----------------------------------------------------------------------------
\* The registers side by side: the part with one request at a time is in order.
RegistersIInv == IInv /\ (part = "poam_serial" => SerialIInv)

\* The step of any component is a step of the POA&M register or leaves it alone,
\* and in the serial part at most one request is then in flight.
LEMMA RegisterRests ==
  ASSUME [RegistersNext]_allVars
  PROVE  /\ part' = part
         /\ \/ UNCHANGED vars
            \/ Next /\ (part = "poam_serial" => Cardinality(Busy) <= 1)
<1>1. CASE UNCHANGED allVars
  BY <1>1 DEF allVars, recordVars
<1>2. CASE RecordsNext /\ part' = part
  BY <1>2 DEF RecordsNext, PoamStep
<1>3. CASE UNCHANGED recordVars /\ part' = part
  BY <1>3 DEF recordVars
<1>4. QED
  BY <1>1, <1>2, <1>3 DEF RegistersNext

\* At most one element: any two are the same.
LEMMA AtMostOne ==
  ASSUME NEW S, IsFiniteSet(S), Cardinality(S) <= 1
  PROVE  \A x, y \in S : x = y
<1>1. Cardinality(S) \in Nat
  BY FS_CardinalityType
<1>2. CASE Cardinality(S) = 0
  BY <1>2, FS_EmptySet
<1>3. CASE Cardinality(S) = 1
  BY <1>3, FS_Singleton
<1>4. QED
  BY <1>1, <1>2, <1>3

\* Every step of the registers keeps the invariant.
LEMMA RegistersStep ==
  ASSUME IsFiniteSet(User), RegistersIInv, [RegistersNext]_allVars
  PROVE  RegistersIInv'
<1>1. IInv'
  BY RegisterRests, EveryStep DEF RegistersIInv
<1>2. ASSUME part' = "poam_serial" PROVE SerialIInv'
  <2>1. SerialIInv /\ [Next]_vars
    BY <1>2, RegisterRests DEF RegistersIInv
  <2>2. OneAtATime'
    <3>1. CASE UNCHANGED vars
      BY <2>1, <3>1 DEF SerialIInv, OneAtATime, vars
    <3>2. CASE Cardinality(Busy) <= 1
      <4>1. IsFiniteSet(Busy)
        BY FS_Subset DEF Busy
      <4>2. QED
        BY <3>2, <4>1, AtMostOne DEF Busy, OneAtATime
    <3>3. QED
      BY <1>2, <3>1, <3>2, RegisterRests
  <2>3. QED
    BY <2>1, <2>2, SerialStep
<1>3. QED
  BY <1>1, <1>2 DEF RegistersIInv

\* The invariant holds beside the other registers.
LEMMA RegistersInvariance ==
  ASSUME IsFiniteSet(User) PROVE RegistersSpec => []RegistersIInv
<1>1. RegistersInit => RegistersIInv
  BY Initially, SerialInitially DEF RegistersInit, RegistersIInv
<1>2. QED
  BY <1>1, RegistersStep, PTL DEF RegistersSpec

\* In the part with one request at a time every round of review that the gate or a
\* submission opens has an approval request of its own, whatever fails half-way and
\* whatever statuses people set in between.
THEOREM SerialRounds ==
  ASSUME IsFiniteSet(User) PROVE RegistersSpec => []SerialRoundsAreFiled
<1>1. RegistersIInv => SerialRoundsAreFiled
  BY SerialMeaning DEF RegistersIInv, SerialRoundsAreFiled
<1>2. QED
  BY <1>1, RegistersInvariance, PTL

\* In the part with one request at a time nobody decides about the request that the
\* same person filed, in a round that the gate or a submission opened.
THEOREM SerialDuties ==
  ASSUME IsFiniteSet(User) PROVE RegistersSpec => []SerialSeparation
<1>1. RegistersIInv => SerialSeparation
  BY SerialMeaning DEF RegistersIInv, SerialSeparation
<1>2. QED
  BY <1>1, RegistersInvariance, PTL

-----------------------------------------------------------------------------
\* A step of the registers is a step of one of them, or of none.
LEMMA EachSteps ==
  ASSUME [RegistersNext]_allVars
  PROVE  /\ [Next]_vars /\ [ApprovalsNext]_approvalVars /\ [SuggestionsNext]_suggestionVars
         /\ [ReviewNext]_reviewVars /\ [EvidenceNext]_evidenceVars /\ [CollectNext]_collectVars
         /\ [WebhooksNext]_webhookVars /\ [IncidentNext]_incidentVars
         /\ [IndicatorNext]_indicatorVars /\ [ObligationNext]_obligationVars
         /\ [AccessNext]_accessVars /\ [QuestionnaireNext]_formVars
<1>1. CASE UNCHANGED allVars
  BY <1>1 DEF allVars, recordVars, measureVars
<1>2. CASE RecordsNext /\ UNCHANGED measureVars
  BY <1>2 DEF RecordsNext, PoamStep, measureVars
<1>3. CASE MeasuresNext /\ UNCHANGED recordVars
  BY <1>3 DEF MeasuresNext, recordVars
<1>4. QED
  BY <1>1, <1>2, <1>3 DEF RegistersNext

\* Side by side, the registers behave as each of their specifications says: what is
\* proved of a register alone holds beside the others.
THEOREM RegistersAreTheirs ==
  RegistersSpec =>
    /\ Spec /\ ApprovalsSpec /\ SuggestionsSpec /\ ReviewSpec /\ EvidenceSpec /\ CollectSpec
    /\ WebhooksSpec /\ IncidentSpec /\ IndicatorSpec /\ ObligationSpec /\ AccessSpec
    /\ QuestionnaireSpec
<1>1. RegistersInit =>
        /\ Init /\ ApprovalsInit /\ SuggestionsInit /\ ReviewInit /\ EvidenceInit /\ CollectInit
        /\ WebhooksInit /\ IncidentInit /\ IndicatorInit /\ ObligationInit /\ AccessInit
        /\ QuestionnaireInit
  BY DEF RegistersInit
<1>2. QED
  BY <1>1, EachSteps, PTL
     DEF RegistersSpec, Spec, ApprovalsSpec, SuggestionsSpec, ReviewSpec, EvidenceSpec, CollectSpec,
         WebhooksSpec, IncidentSpec, IndicatorSpec, ObligationSpec, AccessSpec, QuestionnaireSpec

\* Type correctness of the registers: what a request in flight is about exists, and a
\* row's lock has the holder that is about to write.
THEOREM RegistersTyped == RegistersSpec => []RegistersTypeOK
<1>1. /\ SuggestionsIInv => SuggestionsTypeOK
      /\ ReviewIInv => ReviewTypeOK
      /\ IncidentIInv => IncidentTypeOK
      /\ IndicatorIInv => IndicatorTypeOK
  BY DEF SuggestionsIInv, ReviewIInv, IncidentIInv, IndicatorIInv
<1>2. TypeOK /\ ApprovalsTypeOK /\ SuggestionsTypeOK /\ ReviewTypeOK /\ EvidenceTypeOK
      /\ CollectTypeOK /\ WebhooksTypeOK /\ IncidentTypeOK /\ IndicatorTypeOK
      /\ ObligationTypeOK /\ AccessTypeOK /\ QuestionnaireTypeOK =>
        RegistersTypeOK
  BY DEF RegistersTypeOK
<1>3. QED
  BY <1>1, <1>2, RegistersAreTheirs, RegisterTypeCorrect, ApprovalsTyped, SuggestionsInvariance,
     ReviewInvariance, EvidenceTyped, CollectTypeCorrect, WebhooksTypeCorrect,
     IncidentInvariance, IndicatorInvariance, ObligationTypes, AccessTypeCorrect,
     QuestionnaireTyped, PTL
=============================================================================
