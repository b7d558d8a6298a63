---------------------- MODULE PlatformApprovals_proofs ----------------------
(***************************************************************************)
(* That approvals take two owners, that a live subscription is never       *)
(* forgotten, and that an approval is decided once: for every number of    *)
(* owners, approvals and failures, and in every order of the statements.   *)
(***************************************************************************)
EXTENDS PlatformApprovals, TLAPS

ApprovalRow ==
  [status : {"none", "pending", "approved", "rejected", "expired"}, kind : Kind,
   by : Owner \cup {Nobody}, reviewer : Owner \cup {Nobody}, lapsed : BOOLEAN]

RequestRow ==
  [phase : {"idle", "flags", "lookup", "stripe", "update", "confirm"},
   approval : Approval \cup {NoApproval}]

ApprovalTypes ==
  /\ approvals \in [Approval -> ApprovalRow]
  /\ request \in [Caller -> RequestRow]
  /\ flagOn \in BOOLEAN /\ subscribed \in BOOLEAN
  /\ organization \in [status : {"active_paid", "canceled"}, subscription : BOOLEAN]
  /\ executed \in [Approval -> SUBSET Owner]
  /\ approvalFaults \in Nat

\* What is true of the request w of owner o: it is about an approval that another
\* owner has staged, and by the time of its confirmation o has carried it out.
OwnerSound(o, w) ==
  w.phase # "idle" =>
    /\ w.approval \in Approval
    /\ approvals[w.approval].status # "none"
    /\ approvals[w.approval].by # o
    /\ w.phase = "confirm" => o \in executed[w.approval]

Staged == \A a \in Approval : approvals[a].status # "none" => approvals[a].by \in Owner

\* An organization's row is only rewritten when the subscription is gone.
EndedBeforeForgotten == \A c \in Caller : request[c].phase = "update" => ~subscribed

\* The invariant that every statement of every request keeps.
ApprovalsIInv ==
  /\ ApprovalTypes /\ Staged
  /\ \A o \in Owner : OwnerSound(o, request[o])
  /\ EndedBeforeForgotten /\ LiveIsKnown
  /\ ApprovedByAnother
-----------------------------------------------------------------------------
\* Approvals keep the owner who staged them and are never unmade, and what was
\* carried out stays so.
Advances ==
  \A a \in Approval :
    /\ approvals[a].status # "none" =>
         approvals'[a].status # "none" /\ approvals'[a].by = approvals[a].by
    /\ executed[a] \subseteq executed'[a]

\* Requests that do not move stay sound while approvals advance.
LEMMA OwnersStaySound ==
  ASSUME ApprovalsIInv, ApprovalTypes', Advances, NEW o \in Owner, request'[o] = request[o]
  PROVE  OwnerSound(o, request[o])'
<1>1. OwnerSound(o, request[o])
  BY DEF ApprovalsIInv
<1>2. CASE request[o].phase = "idle"
  BY <1>2 DEF OwnerSound
<1>3. CASE request[o].phase # "idle"
  BY <1>1, <1>3 DEF OwnerSound, Advances
<1>4. QED
  BY <1>2, <1>3

\* A step of caller c in which approvals and what was carried out do not change.
LEMMA RequestMoves ==
  ASSUME ApprovalsIInv, NEW c \in Caller, NEW w \in RequestRow,
         request' = [request EXCEPT ![c] = w],
         UNCHANGED <<approvals, executed>>, ApprovalTypes',
         c \in Owner => OwnerSound(c, w)
  PROVE  /\ Staged' /\ ApprovedByAnother'
         /\ \A o \in Owner : OwnerSound(o, request[o])'
<1>1. Advances
  BY DEF Advances
<1>2. ASSUME NEW o \in Owner PROVE OwnerSound(o, request[o])'
  <2>1. CASE o = c
    <3>1. request'[c] = w
      BY DEF ApprovalsIInv, ApprovalTypes
    <3>2. QED
      BY <2>1, <3>1 DEF OwnerSound
  <2>2. CASE o # c
    BY <1>1, <2>2, OwnersStaySound DEF ApprovalsIInv, ApprovalTypes
  <2>3. QED
    BY <2>1, <2>2
<1>3. QED
  BY <1>2 DEF ApprovalsIInv, Staged, ApprovedByAnother

\* A step in which approvals alone change, and advance.
LEMMA ApprovalsMove ==
  ASSUME ApprovalsIInv, ApprovalTypes', Advances, Staged', ApprovedByAnother',
         UNCHANGED <<request, flagOn, organization, subscribed, executed>>
  PROVE  ApprovalsIInv'
<1>1. \A o \in Owner : OwnerSound(o, request[o])'
  BY OwnersStaySound
<1>2. QED
  BY <1>1 DEF ApprovalsIInv, EndedBeforeForgotten, LiveIsKnown
-----------------------------------------------------------------------------
\* Before anything is staged the invariant holds.
LEMMA ApprovalsInitially == ApprovalsInit => ApprovalsIInv
<1> SUFFICES ASSUME ApprovalsInit PROVE ApprovalsIInv
  OBVIOUS
<1>1. ApprovalTypes
  BY DEF ApprovalsInit, ApprovalTypes, NoRow, NoRequest, ApprovalRow, RequestRow, Kind
<1>2. /\ Staged /\ ApprovedByAnother /\ EndedBeforeForgotten /\ LiveIsKnown
      /\ \A o \in Owner : OwnerSound(o, request[o])
  BY DEF ApprovalsInit, Staged, ApprovedByAnother, EndedBeforeForgotten, LiveIsKnown,
         OwnerSound, NoRow, NoRequest, Caller
<1>3. QED
  BY <1>1, <1>2 DEF ApprovalsIInv

\* Staging makes a new approval.
LEMMA StageKeeps ==
  ASSUME ApprovalsIInv, NEW o \in Owner, NEW a \in Approval, NEW kind \in Kind,
         Stage(o, a, kind)
  PROVE  ApprovalsIInv'
<1> DEFINE row == [NoRow EXCEPT !.status = "pending", !.kind = kind, !.by = o]
<1>1. row \in ApprovalRow /\ row.status = "pending" /\ row.by = o
  BY DEF NoRow, ApprovalRow, Kind
<1>2. \A b \in Approval : approvals'[b] = IF b = a THEN row ELSE approvals[b]
  BY DEF Stage, ApprovalsIInv, ApprovalTypes
<1>3. ApprovalTypes'
  BY <1>1 DEF Stage, ApprovalsIInv, ApprovalTypes
<1> HIDE DEF row
<1>4. Advances
  BY <1>1, <1>2 DEF Advances, Stage
<1>5. Staged' /\ ApprovedByAnother'
  BY <1>1, <1>2 DEF Stage, ApprovalsIInv, Staged, ApprovedByAnother
<1>6. QED
  BY <1>3, <1>4, <1>5, ApprovalsMove DEF Stage

\* The expiry of approvals marks none as approved.
LEMMA LapseKeeps ==
  ASSUME ApprovalsIInv, ExpireStale \/ \E a \in Approval : Lapse(a)
  PROVE  ApprovalsIInv'
<1>1. /\ ApprovalTypes' /\ UNCHANGED <<request, flagOn, organization, subscribed, executed>>
      /\ \A b \in Approval : /\ approvals'[b].by = approvals[b].by
                             /\ approvals'[b].reviewer = approvals[b].reviewer
                             /\ \/ approvals'[b].status = approvals[b].status
                                \/ /\ approvals[b].status = "pending"
                                   /\ approvals'[b].status = "expired"
  <2>1. CASE ExpireStale
    <3> DEFINE row(b) == IF approvals[b].status = "pending" /\ approvals[b].lapsed
                         THEN [approvals[b] EXCEPT !.status = "expired"] ELSE approvals[b]
    <3>1. \A b \in Approval : row(b) \in ApprovalRow /\ approvals'[b] = row(b)
      BY <2>1 DEF ExpireStale, ApprovalsIInv, ApprovalTypes, ApprovalRow
    <3>2. approvals' = [b \in Approval |-> row(b)]
      BY <2>1 DEF ExpireStale
    <3>3. approvals' \in [Approval -> ApprovalRow]
      BY <3>1, <3>2
    <3>4. QED
      BY <2>1, <3>1, <3>3 DEF ExpireStale, ApprovalsIInv, ApprovalTypes, ApprovalRow
  <2>2. ASSUME NEW a \in Approval, Lapse(a) PROVE <1>1!1 /\ <1>1!2
    <3>1. [approvals[a] EXCEPT !.lapsed = TRUE] \in ApprovalRow
      BY DEF ApprovalsIInv, ApprovalTypes, ApprovalRow
    <3>2. QED
      BY <2>2, <3>1 DEF Lapse, ApprovalsIInv, ApprovalTypes, ApprovalRow
  <2>3. QED
    BY <2>1, <2>2
<1>2. Advances
  BY <1>1 DEF Advances
<1>3. Staged' /\ ApprovedByAnother'
  BY <1>1 DEF ApprovalsIInv, Staged, ApprovedByAnother
<1>4. QED
  BY <1>1, <1>2, <1>3, ApprovalsMove

\* What approveAction and rejectAction make of a row.
LEMMA ResolvedRows ==
  ASSUME NEW row \in ApprovalRow, NEW o \in Owner, NEW verdict \in {"approved", "rejected"},
         NEW new \in Resolved(row, o, verdict)
  PROVE  /\ new \in ApprovalRow /\ new.by = row.by
         /\ \/ new = row
            \/ row.status = "pending" /\ new.status = "expired"
            \/ row.status = "pending" /\ new.status = verdict /\ new.reviewer = o
<1>1. CASE row.status # "pending"
  BY <1>1 DEF Resolved
<1>2. CASE row.status = "pending" /\ row.lapsed
  BY <1>2 DEF Resolved, ApprovalRow
<1>3. CASE row.status = "pending" /\ ~row.lapsed
  BY <1>3 DEF Resolved, ApprovalRow
<1>4. QED
  BY <1>1, <1>2, <1>3 DEF ApprovalRow

\* A step that resolves a row keeps the rest of what holds of approvals: an owner
\* who approves has carried the action out, and has not staged it.
LEMMA ResolutionKeeps ==
  ASSUME ApprovalsIInv, NEW o \in Owner, NEW a \in Approval,
         NEW verdict \in {"approved", "rejected"},
         NEW row \in Resolved(approvals[a], o, verdict),
         approvals' = [approvals EXCEPT ![a] = row],
         approvals[a].status # "none",
         verdict = "approved" => o \in executed[a] /\ approvals[a].by # o,
         UNCHANGED executed
  PROVE  /\ approvals' \in [Approval -> ApprovalRow]
         /\ Advances /\ Staged' /\ ApprovedByAnother'
<1>1. approvals[a] \in ApprovalRow /\ approvals \in [Approval -> ApprovalRow]
  BY DEF ApprovalsIInv, ApprovalTypes
<1>2. /\ row \in ApprovalRow /\ row.by = approvals[a].by
      /\ \/ row = approvals[a]
         \/ approvals[a].status = "pending" /\ row.status = "expired"
         \/ approvals[a].status = "pending" /\ row.status = verdict /\ row.reviewer = o
  BY <1>1, ResolvedRows
<1>3. \A b \in Approval : approvals'[b] = IF b = a THEN row ELSE approvals[b]
  BY <1>1
<1>4. approvals' \in [Approval -> ApprovalRow]
  BY <1>1, <1>2
<1>5. row.status # "none"
  BY <1>2
<1>6. Advances
  BY <1>2, <1>3, <1>5 DEF Advances
<1>7. Staged'
  BY <1>2, <1>3, <1>5 DEF ApprovalsIInv, Staged
<1>8. ASSUME NEW b \in Approval, approvals'[b].status = "approved"
      PROVE  approvals'[b].reviewer \in executed'[b] \ {approvals'[b].by}
  <2>1. CASE b = a /\ row # approvals[a]
    BY <1>2, <1>3, <1>8, <2>1
  <2>2. CASE b # a \/ row = approvals[a]
    BY <1>3, <1>8, <2>2 DEF ApprovalsIInv, ApprovedByAnother
  <2>3. QED
    BY <2>1, <2>2
<1>9. QED
  BY <1>4, <1>6, <1>7, <1>8 DEF ApprovedByAnother

\* A rejection.
LEMMA RejectKeeps ==
  ASSUME ApprovalsIInv, NEW o \in Owner, NEW a \in Approval, Reject(o, a)
  PROVE  ApprovalsIInv'
<1>1. PICK row \in Resolved(approvals[a], o, "rejected") :
        approvals' = [approvals EXCEPT ![a] = row]
  BY DEF Reject
<1>2. /\ approvals' \in [Approval -> ApprovalRow]
      /\ Advances /\ Staged' /\ ApprovedByAnother'
  BY <1>1, ResolutionKeeps DEF Reject
<1>3. ApprovalTypes'
  BY <1>2 DEF Reject, ApprovalsIInv, ApprovalTypes
<1>4. QED
  BY <1>2, <1>3, ApprovalsMove DEF Reject

\* The confirmation that ends an approval.
LEMMA ConfirmKeeps ==
  ASSUME ApprovalsIInv, NEW o \in Owner, Confirm(o)
  PROVE  ApprovalsIInv'
<1> DEFINE a == request[o].approval
<1>1. /\ a \in Approval /\ approvals[a].status # "none" /\ approvals[a].by # o
      /\ o \in executed[a]
  BY DEF Confirm, ApprovalsIInv, OwnerSound
<1>2. PICK row \in Resolved(approvals[a], o, "approved") :
        approvals' = [approvals EXCEPT ![a] = row]
  BY DEF Confirm
<1>3. UNCHANGED <<flagOn, organization, subscribed, executed, approvalFaults>>
  BY DEF Confirm
<1> HIDE DEF a
<1>4. /\ approvals' \in [Approval -> ApprovalRow]
      /\ Advances /\ Staged' /\ ApprovedByAnother'
  BY <1>1, <1>2, <1>3, ResolutionKeeps
<1>5. NoRequest \in RequestRow
  BY DEF NoRequest, RequestRow
<1>6. request' = [request EXCEPT ![o] = NoRequest] /\ o \in Caller
  BY DEF Confirm, Answer, Caller
<1>7. ApprovalTypes'
  BY <1>3, <1>4, <1>5, <1>6 DEF ApprovalsIInv, ApprovalTypes
<1>8. \A c \in Caller : request'[c] = IF c = o THEN NoRequest ELSE request[c]
  BY <1>6 DEF ApprovalsIInv, ApprovalTypes
<1>9. ASSUME NEW q \in Owner PROVE OwnerSound(q, request[q])'
  <2>1. CASE q = o
    BY <1>8, <2>1 DEF Caller, OwnerSound, NoRequest
  <2>2. CASE q # o
    BY <1>4, <1>7, <1>8, <2>2, OwnersStaySound DEF Caller
  <2>3. QED
    BY <2>1, <2>2
<1>10. EndedBeforeForgotten' /\ LiveIsKnown'
  BY <1>3, <1>8 DEF ApprovalsIInv, EndedBeforeForgotten, LiveIsKnown, NoRequest
<1>11. QED
  BY <1>4, <1>7, <1>9, <1>10 DEF ApprovalsIInv
-----------------------------------------------------------------------------
\* The checks at the beginning of an approval.
LEMMA ApproveKeeps ==
  ASSUME ApprovalsIInv, NEW o \in Owner, NEW a \in Approval, Approve(o, a)
  PROVE  ApprovalsIInv'
<1> DEFINE w == [phase |-> IF approvals[a].kind = "feature_flag.disable"
                           THEN "flags" ELSE "lookup", approval |-> a]
<1>1. /\ w \in RequestRow /\ w.approval = a /\ w.phase \in {"flags", "lookup"}
      /\ request' = [request EXCEPT ![o] = w] /\ o \in Caller
      /\ UNCHANGED <<approvals, flagOn, organization, subscribed, executed, approvalFaults>>
  BY DEF Approve, RequestRow, Caller
<1>2. OwnerSound(o, w)
  BY <1>1 DEF OwnerSound, Approve, MayApprove
<1> HIDE DEF w
<1>3. ApprovalTypes'
  BY <1>1 DEF ApprovalsIInv, ApprovalTypes
<1>4. EndedBeforeForgotten' /\ LiveIsKnown'
  BY <1>1 DEF ApprovalsIInv, ApprovalTypes, EndedBeforeForgotten, LiveIsKnown
<1>5. QED
  BY <1>1, <1>2, <1>3, <1>4, RequestMoves DEF ApprovalsIInv

\* Steps of the cancellations before the organization's row is written, and the
\* ends of requests.
LEMMA CancellationKeeps ==
  ASSUME ApprovalsIInv, NEW c \in Caller,
         NEW phase \in {"idle", "lookup", "stripe", "update"},
         request' = [request EXCEPT ![c] =
           IF phase = "idle" THEN NoRequest ELSE [@ EXCEPT !.phase = phase]],
         c \in Owner => request[c].phase # "idle",
         subscribed' \in {subscribed, FALSE},
         phase = "update" => ~subscribed',
         approvalFaults' \in Nat,
         UNCHANGED <<approvals, flagOn, organization, executed>>
  PROVE  ApprovalsIInv'
<1> DEFINE w == IF phase = "idle" THEN NoRequest ELSE [request[c] EXCEPT !.phase = phase]
<1>1. request[c] \in RequestRow
  BY DEF ApprovalsIInv, ApprovalTypes
<1>2. /\ w \in RequestRow /\ w.phase = phase
      /\ phase # "idle" => w.approval = request[c].approval
  BY <1>1 DEF RequestRow, NoRequest
<1>3. request' = [request EXCEPT ![c] = w]
  BY DEF ApprovalsIInv, ApprovalTypes
<1>4. c \in Owner => OwnerSound(c, w)
  <2>1. CASE c \in Owner /\ phase # "idle"
    <3>1. OwnerSound(c, request[c]) /\ request[c].phase # "idle"
      BY <2>1 DEF ApprovalsIInv
    <3>2. QED
      BY <1>2, <2>1, <3>1 DEF OwnerSound
  <2>2. QED
    BY <1>2, <2>1 DEF OwnerSound
<1> HIDE DEF w
<1>5. ApprovalTypes'
  BY <1>2, <1>3 DEF ApprovalsIInv, ApprovalTypes
<1>6. \A d \in Caller : request'[d] = IF d = c THEN w ELSE request[d]
  BY <1>3 DEF ApprovalsIInv, ApprovalTypes
<1>7. EndedBeforeForgotten'
  BY <1>2, <1>6 DEF ApprovalsIInv, EndedBeforeForgotten
<1>8. LiveIsKnown'
  BY DEF ApprovalsIInv, LiveIsKnown
<1>9. QED
  BY <1>2, <1>3, <1>4, <1>5, <1>7, <1>8, RequestMoves DEF ApprovalsIInv

\* The cancellations' steps, up to Stripe, and their failures.
LEMMA BeforeTheRowIsWritten ==
  ASSUME ApprovalsIInv, NEW c \in Caller,
         LookUp(c) \/ CancelAtStripe(c) \/ StripeFails(c) \/ RequestDies(c)
  PROVE  ApprovalsIInv'
<1>1. CASE LookUp(c)
  <2>1. ~organization.subscription => ~subscribed
    BY DEF ApprovalsIInv, LiveIsKnown
  <2> DEFINE phase == IF organization.subscription THEN "stripe" ELSE "update"
  <2>2. /\ phase \in {"idle", "lookup", "stripe", "update"}
        /\ request' = [request EXCEPT ![c] =
             IF phase = "idle" THEN NoRequest ELSE [@ EXCEPT !.phase = phase]]
        /\ phase = "update" => ~subscribed' /\ approvalFaults' \in Nat
    BY <1>1, <2>1 DEF LookUp, ToPhase, ApprovalsIInv, ApprovalTypes
  <2>3. subscribed' \in {subscribed, FALSE} /\ approvalFaults' \in Nat
    BY <1>1 DEF LookUp, ApprovalsIInv, ApprovalTypes
  <2> HIDE DEF phase
  <2>4. QED
    BY <1>1, <2>2, <2>3, CancellationKeeps DEF LookUp
<1>2. CASE CancelAtStripe(c)
  <2> DEFINE phase == "update"
  <2>1. /\ phase \in {"idle", "lookup", "stripe", "update"}
        /\ request' = [request EXCEPT ![c] =
             IF phase = "idle" THEN NoRequest ELSE [@ EXCEPT !.phase = phase]]
        /\ request[c].phase # "idle"
        /\ subscribed' \in {subscribed, FALSE}
        /\ phase = "update" => ~subscribed'
        /\ approvalFaults' \in Nat
        /\ UNCHANGED <<approvals, flagOn, organization, executed>>
    BY <1>2 DEF CancelAtStripe, ToPhase, ApprovalsIInv, ApprovalTypes
  <2> HIDE DEF phase
  <2>2. QED
    BY <2>1, CancellationKeeps
<1>3. CASE StripeFails(c) \/ RequestDies(c)
  <2>1. request' = [request EXCEPT ![c] = NoRequest] /\ request[c].phase # "idle"
    BY <1>3 DEF StripeFails, RequestDies, Answer
  <2>2. UNCHANGED <<approvals, flagOn, organization, executed>>
    BY <1>3 DEF StripeFails, RequestDies
  <2>3. subscribed' \in {subscribed, FALSE}
    BY <1>3 DEF StripeFails, RequestDies
  <2>4. approvalFaults' \in Nat
    <3>1. approvalFaults \in Nat
      BY DEF ApprovalsIInv, ApprovalTypes
    <3>2. approvalFaults' \in {approvalFaults, approvalFaults + 1}
      BY <1>3 DEF StripeFails, RequestDies
    <3>3. QED
      BY <3>1, <3>2
  <2> DEFINE phase == "idle"
  <2>5. /\ phase \in {"idle", "lookup", "stripe", "update"} /\ phase # "update"
        /\ request' = [request EXCEPT ![c] =
             IF phase = "idle" THEN NoRequest ELSE [@ EXCEPT !.phase = phase]]
    BY <2>1
  <2> HIDE DEF phase
  <2>6. QED
    BY <2>1, <2>2, <2>3, <2>4, <2>5, CancellationKeeps
<1>4. QED
  BY <1>1, <1>2, <1>3

\* An owner carries out what was approved.
LEMMA ExecutionKeeps ==
  ASSUME ApprovalsIInv, NEW o \in Owner, request[o].phase # "idle",
         ToPhase(o, "confirm"), Executed(o), UNCHANGED approvals
  PROVE  /\ executed' \in [Approval -> SUBSET Owner] /\ request' \in [Caller -> RequestRow]
         /\ Staged' /\ ApprovedByAnother'
         /\ \A q \in Owner : OwnerSound(q, request[q])'
         /\ \A c \in Caller : request'[c].phase = "update" => request[c].phase = "update"
<1> DEFINE a == request[o].approval
           w == [request[o] EXCEPT !.phase = "confirm"]
<1>1. /\ a \in Approval /\ approvals[a].status # "none" /\ approvals[a].by # o
      /\ OwnerSound(o, request[o])
  BY DEF ApprovalsIInv, OwnerSound
<1>2. o \in Caller /\ o # Tenant
  BY ApprovalParameters DEF Caller
<1>3. request[o] \in RequestRow
  BY <1>2 DEF ApprovalsIInv, ApprovalTypes
<1>4. w \in RequestRow /\ w.phase = "confirm" /\ w.approval = a
  BY <1>3 DEF RequestRow
<1>5. request' = [request EXCEPT ![o] = w]
  BY DEF ToPhase
<1>6. executed' = [executed EXCEPT ![a] = @ \cup {o}]
  BY <1>2 DEF Executed
<1> HIDE DEF a, w
<1>7. /\ executed' \in [Approval -> SUBSET Owner]
      /\ \A b \in Approval : executed[b] \subseteq executed'[b]
      /\ o \in executed'[a]
  BY <1>1, <1>6 DEF ApprovalsIInv, ApprovalTypes
<1>8. /\ request' \in [Caller -> RequestRow]
      /\ \A c \in Caller : request'[c] = IF c = o THEN w ELSE request[c]
  BY <1>2, <1>4, <1>5 DEF ApprovalsIInv, ApprovalTypes
<1>9. Staged' /\ ApprovedByAnother'
  BY <1>7 DEF ApprovalsIInv, Staged, ApprovedByAnother
<1>10. ASSUME NEW q \in Owner PROVE OwnerSound(q, request[q])'
  <2>1. CASE q = o
    BY <1>1, <1>2, <1>4, <1>7, <1>8, <2>1 DEF OwnerSound
  <2>2. CASE q # o
    <3>1. request'[q] = request[q] /\ OwnerSound(q, request[q])
      BY <1>8, <2>2 DEF Caller, ApprovalsIInv
    <3>2. QED
      BY <1>7, <3>1 DEF OwnerSound
  <2>3. QED
    BY <2>1, <2>2
<1>11. QED
  BY <1>4, <1>7, <1>8, <1>9, <1>10

\* A flag that is disabled.
LEMMA DisableKeeps ==
  ASSUME ApprovalsIInv, NEW o \in Owner, DisableFlag(o)
  PROVE  ApprovalsIInv'
<1>1. /\ request[o].phase # "idle" /\ ToPhase(o, "confirm") /\ Executed(o)
      /\ flagOn' = FALSE
      /\ UNCHANGED <<approvals, organization, subscribed, approvalFaults>>
  BY DEF DisableFlag
<1>2. /\ executed' \in [Approval -> SUBSET Owner] /\ request' \in [Caller -> RequestRow]
      /\ Staged' /\ ApprovedByAnother'
      /\ \A q \in Owner : OwnerSound(q, request[q])'
      /\ \A c \in Caller : request'[c].phase = "update" => request[c].phase = "update"
  BY <1>1, ExecutionKeeps
<1>3. ApprovalTypes'
  BY <1>1, <1>2 DEF ApprovalsIInv, ApprovalTypes
<1>4. EndedBeforeForgotten' /\ LiveIsKnown'
  BY <1>1, <1>2 DEF ApprovalsIInv, EndedBeforeForgotten, LiveIsKnown
<1>5. QED
  BY <1>2, <1>3, <1>4 DEF ApprovalsIInv

\* The organization's row is written when Stripe's subscription has ended.
LEMMA CancelKeeps ==
  ASSUME ApprovalsIInv, NEW c \in Caller, CancelSubscription(c)
  PROVE  ApprovalsIInv'
<1>1. ~subscribed /\ ~subscribed'
  BY DEF CancelSubscription, ApprovalsIInv, EndedBeforeForgotten
<1>2. /\ organization' \in [status : {"active_paid", "canceled"}, subscription : BOOLEAN]
      /\ UNCHANGED <<approvals, flagOn, subscribed, approvalFaults>>
      /\ request[c].phase = "update" /\ Executed(c)
  BY DEF CancelSubscription
<1>3. CASE c = Tenant
  <2>1. request' = [request EXCEPT ![c] = NoRequest] /\ executed' = executed /\ c \notin Owner
    BY <1>3, ApprovalParameters DEF CancelSubscription, Answer, Executed
  <2>2. NoRequest \in RequestRow /\ NoRequest.phase = "idle"
    BY DEF NoRequest, RequestRow
  <2>3. /\ request' \in [Caller -> RequestRow]
        /\ \A d \in Caller : request'[d] = IF d = c THEN NoRequest ELSE request[d]
    BY <2>1, <2>2 DEF ApprovalsIInv, ApprovalTypes
  <2>4. ApprovalTypes'
    BY <1>2, <2>1, <2>3 DEF ApprovalsIInv, ApprovalTypes
  <2>5. EndedBeforeForgotten' /\ LiveIsKnown'
    BY <1>1 DEF EndedBeforeForgotten, LiveIsKnown
  <2>6. QED
    BY <1>2, <2>1, <2>2, <2>4, <2>5, RequestMoves DEF ApprovalsIInv
<1>4. CASE c # Tenant
  <2>1. c \in Owner /\ ToPhase(c, "confirm")
    BY <1>4 DEF CancelSubscription, Caller
  <2>2. /\ executed' \in [Approval -> SUBSET Owner] /\ request' \in [Caller -> RequestRow]
        /\ Staged' /\ ApprovedByAnother'
        /\ \A q \in Owner : OwnerSound(q, request[q])'
    BY <1>2, <2>1, ExecutionKeeps
  <2>3. ApprovalTypes'
    BY <1>2, <2>2 DEF ApprovalsIInv, ApprovalTypes
  <2>4. EndedBeforeForgotten' /\ LiveIsKnown'
    BY <1>1 DEF EndedBeforeForgotten, LiveIsKnown
  <2>5. QED
    BY <2>2, <2>3, <2>4 DEF ApprovalsIInv
<1>5. QED
  BY <1>3, <1>4


\* The tenant's request, and what platform owners do without an approval.
LEMMA OthersKeep ==
  ASSUME ApprovalsIInv, CancelAccount \/ EnableFlag \/ Reactivate
  PROVE  ApprovalsIInv'
<1>1. CASE CancelAccount
  <2>1. Tenant \in Caller /\ Tenant \notin Owner
    BY ApprovalParameters DEF Caller
  <2> DEFINE phase == "lookup"
  <2>2. /\ phase \in {"idle", "lookup", "stripe", "update"} /\ phase # "update"
        /\ request' = [request EXCEPT ![Tenant] =
             IF phase = "idle" THEN NoRequest ELSE [@ EXCEPT !.phase = phase]]
    BY <1>1 DEF CancelAccount, ToPhase
  <2>3. /\ subscribed' \in {subscribed, FALSE} /\ approvalFaults' \in Nat
        /\ UNCHANGED <<approvals, flagOn, organization, executed>>
    BY <1>1 DEF CancelAccount, ApprovalsIInv, ApprovalTypes
  <2> HIDE DEF phase
  <2>4. QED
    BY <2>1, <2>2, <2>3, CancellationKeeps
<1>2. CASE EnableFlag \/ Reactivate
  <2>1. UNCHANGED <<approvals, request, subscribed, executed, approvalFaults>>
    BY <1>2 DEF EnableFlag, Reactivate
  <2>2. /\ flagOn' \in BOOLEAN
        /\ organization' \in [status : {"active_paid", "canceled"}, subscription : BOOLEAN]
        /\ organization'.subscription = organization.subscription
    BY <1>2 DEF EnableFlag, Reactivate, ApprovalsIInv, ApprovalTypes
  <2>3. ApprovalTypes' /\ EndedBeforeForgotten' /\ LiveIsKnown' /\ Staged' /\ ApprovedByAnother'
    BY <2>1, <2>2 DEF ApprovalsIInv, ApprovalTypes, EndedBeforeForgotten, LiveIsKnown, Staged,
                      ApprovedByAnother
  <2>4. \A o \in Owner : OwnerSound(o, request[o])'
    BY <2>1 DEF ApprovalsIInv, OwnerSound
  <2>5. QED
    BY <2>3, <2>4 DEF ApprovalsIInv
<1>3. QED
  BY <1>1, <1>2

\* Every step keeps the invariant.
LEMMA ApprovalsStep == ApprovalsIInv /\ [ApprovalsNext]_approvalVars => ApprovalsIInv'
<1> SUFFICES ASSUME ApprovalsIInv, [ApprovalsNext]_approvalVars PROVE ApprovalsIInv'
  OBVIOUS
<1>1. ASSUME NEW o \in Owner, NEW a \in Approval,
             Approve(o, a) \/ Reject(o, a) \/ \E kind \in Kind : Stage(o, a, kind)
      PROVE  ApprovalsIInv'
  BY <1>1, ApproveKeeps, RejectKeeps, StageKeeps
<1>2. ASSUME NEW o \in Owner, DisableFlag(o) \/ Confirm(o) PROVE ApprovalsIInv'
  BY <1>2, DisableKeeps, ConfirmKeeps
<1>3. ASSUME NEW c \in Caller,
             LookUp(c) \/ CancelAtStripe(c) \/ StripeFails(c)
               \/ CancelSubscription(c) \/ RequestDies(c)
      PROVE  ApprovalsIInv'
  BY <1>3, BeforeTheRowIsWritten, CancelKeeps
<1>4. CASE ExpireStale \/ \E a \in Approval : Lapse(a)
  BY <1>4, LapseKeeps
<1>5. CASE EnableFlag \/ Reactivate \/ CancelAccount
  BY <1>5, OthersKeep
<1>6. CASE UNCHANGED approvalVars
  <2>1. UNCHANGED <<approvals, request, flagOn, organization, subscribed, executed,
                    approvalFaults>>
    BY <1>6 DEF approvalVars
  <2>2. \A o \in Owner : OwnerSound(o, request[o])'
    BY <2>1 DEF ApprovalsIInv, OwnerSound
  <2>3. QED
    BY <2>1, <2>2 DEF ApprovalsIInv, ApprovalTypes, Staged, EndedBeforeForgotten, LiveIsKnown,
                      ApprovedByAnother
<1>7. QED
  BY <1>1, <1>2, <1>3, <1>4, <1>5, <1>6 DEF ApprovalsNext

\* The invariant holds of every state.
LEMMA ApprovalsInvariance == ApprovalsSpec => []ApprovalsIInv
<1>1. QED
  BY ApprovalsInitially, ApprovalsStep, PTL DEF ApprovalsSpec
-----------------------------------------------------------------------------
\* Type correctness of the approvals, for every number of owners and approvals: a
\* request that is under way is about a staged approval.
THEOREM ApprovalsTyped == ApprovalsSpec => []ApprovalsTypeOK
<1>1. ApprovalsIInv => ApprovalsTypeOK
  <2> SUFFICES ASSUME ApprovalsIInv PROVE ApprovalsTypeOK
    OBVIOUS
  <2>1. ASSUME NEW a \in Approval
        PROVE  /\ approvals[a].status \in {"none", "pending", "approved", "rejected", "expired"}
               /\ approvals[a].status # "none" => approvals[a].by \in Owner
    BY DEF ApprovalsIInv, ApprovalTypes, Staged, ApprovalRow
  <2>2. DOMAIN request = Caller
    BY DEF ApprovalsIInv, ApprovalTypes
  <2>3. ASSUME NEW c \in Caller
        PROVE  /\ request[c].phase \in {"idle", "flags", "lookup", "stripe", "update", "confirm"}
               /\ c \in Owner /\ request[c].phase # "idle" =>
                    /\ request[c].approval \in Approval
                    /\ approvals[request[c].approval].status # "none"
    BY DEF ApprovalsIInv, ApprovalTypes, RequestRow, OwnerSound
  <2>4. /\ {flagOn, subscribed, organization.subscription} \subseteq BOOLEAN
        /\ executed \in [Approval -> SUBSET Owner] /\ approvalFaults \in Nat
    BY DEF ApprovalsIInv, ApprovalTypes
  <2>5. QED
    BY <2>1, <2>2, <2>3, <2>4 DEF ApprovalsTypeOK
<1>2. QED
  BY <1>1, ApprovalsInvariance, PTL

\* Two owners are behind every approval that is marked as approved, for every number
\* of owners, approvals and failures.
THEOREM TwoOwners == ApprovalsSpec => []ApprovedByAnother
<1>1. ApprovalsIInv => ApprovedByAnother
  BY DEF ApprovalsIInv
<1>2. QED
  BY <1>1, ApprovalsInvariance, PTL

\* No live subscription is forgotten, for every number of callers and failures.
THEOREM SubscriptionsKnown == ApprovalsSpec => []LiveIsKnown
<1>1. ApprovalsIInv => LiveIsKnown
  BY DEF ApprovalsIInv
<1>2. QED
  BY <1>1, ApprovalsInvariance, PTL

-----------------------------------------------------------------------------
\* The decisions that the rows stand for.
Decisions == [a \in Approval |-> approvals[a].status]

\* A statement that writes one row opens it, decides it or leaves its decision alone.
LEMMA OneRowMaps ==
  ASSUME ApprovalsIInv, NEW a \in Approval, NEW row \in ApprovalRow,
         approvals' = [approvals EXCEPT ![a] = row],
         \/ row.status = approvals[a].status
         \/ approvals[a].status = "none" /\ row.status = "pending"
         \/ approvals[a].status = "pending"
              /\ row.status \in {"approved", "rejected", "expired"}
  PROVE  Decision!DecideNext \/ Decisions' = Decisions
<1>1. \A b \in Approval : approvals'[b] = IF b = a THEN row ELSE approvals[b]
  BY DEF ApprovalsIInv, ApprovalTypes
<1>2. CASE row.status = approvals[a].status
  BY <1>1, <1>2 DEF Decisions
<1>3. CASE approvals[a].status = "none" /\ row.status = "pending"
  <2>1. [b \in Approval |-> approvals'[b].status]
          = [[b \in Approval |-> approvals[b].status] EXCEPT ![a] = "pending"]
    <3> DEFINE f == [b \in Approval |-> approvals[b].status]
               g == [b \in Approval |-> approvals'[b].status]
    <3>1. \A b \in Approval : g[b] = [f EXCEPT ![a] = "pending"][b]
      BY <1>1, <1>3
    <3>2. DOMAIN g = Approval /\ DOMAIN [f EXCEPT ![a] = "pending"] = Approval
      OBVIOUS
    <3>3. QED
      BY <3>1, <3>2
  <2>2. Decision!Open(a)
    BY <1>3, <2>1 DEF Decision!Open
  <2>3. QED
    BY <2>2 DEF Decision!DecideNext
<1>4. CASE approvals[a].status = "pending" /\ row.status \in {"approved", "rejected", "expired"}
  <2>1. Decision!Decide({a}, row.status)
    BY <1>1, <1>4 DEF Decision!Decide
  <2>2. {a} \in SUBSET Approval /\ row.status \in Decision!Verdict
    BY <1>4 DEF Decision!Verdict
  <2>3. QED
    BY <2>1, <2>2 DEF Decision!DecideNext
<1>5. QED
  BY <1>2, <1>3, <1>4

\* The rows that expire together are decided together.
LEMMA ExpiryMaps ==
  ASSUME ApprovalsIInv, ExpireStale
  PROVE  Decision!DecideNext
<1> DEFINE R == {a \in Approval : approvals[a].status = "pending" /\ approvals[a].lapsed}
<1>1. \A a \in Approval : approvals[a] \in ApprovalRow
  BY DEF ApprovalsIInv, ApprovalTypes
<1>2. \A a \in Approval :
        approvals'[a].status = IF a \in R THEN "expired" ELSE approvals[a].status
  BY <1>1 DEF ExpireStale, ApprovalRow
<1>3. Decision!Decide(R, "expired")
  BY <1>2 DEF Decision!Decide
<1>4. R \in SUBSET Approval /\ "expired" \in Decision!Verdict
  BY DEF Decision!Verdict
<1>5. QED
  BY <1>3, <1>4 DEF Decision!DecideNext

\* The verdicts of approveAction and rejectAction are decisions.
LEMMA ResolutionMaps ==
  ASSUME ApprovalsIInv, NEW o \in Owner, NEW a \in Approval,
         NEW verdict \in {"approved", "rejected"},
         NEW row \in Resolved(approvals[a], o, verdict),
         approvals' = [approvals EXCEPT ![a] = row]
  PROVE  Decision!DecideNext \/ Decisions' = Decisions
<1>1. approvals[a] \in ApprovalRow
  BY DEF ApprovalsIInv, ApprovalTypes
<1>2. /\ row \in ApprovalRow
      /\ \/ row.status = approvals[a].status
         \/ approvals[a].status = "pending"
              /\ row.status \in {"approved", "rejected", "expired"}
  BY <1>1, ResolvedRows
<1>3. QED
  BY <1>2, OneRowMaps

\* Every step opens, decides, or leaves the decisions as they are.
LEMMA StepsMap ==
  ApprovalsIInv /\ [ApprovalsNext]_approvalVars => [Decision!DecideNext]_Decisions
<1> SUFFICES ASSUME ApprovalsIInv, [ApprovalsNext]_approvalVars
             PROVE  Decision!DecideNext \/ Decisions' = Decisions
  OBVIOUS
<1>1. ASSUME UNCHANGED approvals PROVE Decisions' = Decisions
  BY <1>1 DEF Decisions
<1>2. ASSUME NEW o \in Owner, NEW a \in Approval, NEW kind \in Kind, Stage(o, a, kind)
      PROVE  Decision!DecideNext \/ Decisions' = Decisions
  <2> DEFINE row == [NoRow EXCEPT !.status = "pending", !.kind = kind, !.by = o]
  <2>1. /\ row \in ApprovalRow /\ row.status = "pending" /\ approvals[a].status = "none"
        /\ approvals' = [approvals EXCEPT ![a] = row]
    BY <1>2 DEF Stage, NoRow, ApprovalRow, Kind
  <2> HIDE DEF row
  <2>2. QED
    BY <2>1, OneRowMaps
<1>3. ASSUME NEW o \in Owner, NEW a \in Approval, Reject(o, a)
      PROVE  Decision!DecideNext \/ Decisions' = Decisions
  <2>1. PICK row \in Resolved(approvals[a], o, "rejected") :
          approvals' = [approvals EXCEPT ![a] = row]
    BY <1>3 DEF Reject
  <2>2. QED
    BY <2>1, ResolutionMaps
<1>4. ASSUME NEW o \in Owner, Confirm(o)
      PROVE  Decision!DecideNext \/ Decisions' = Decisions
  <2> DEFINE a == request[o].approval
  <2>1. a \in Approval
    BY <1>4 DEF Confirm, ApprovalsIInv, OwnerSound
  <2>2. PICK row \in Resolved(approvals[a], o, "approved") :
          approvals' = [approvals EXCEPT ![a] = row]
    BY <1>4 DEF Confirm
  <2> HIDE DEF a
  <2>3. QED
    BY <2>1, <2>2, ResolutionMaps
<1>5. ASSUME NEW a \in Approval, Lapse(a)
      PROVE  Decision!DecideNext \/ Decisions' = Decisions
  <2> DEFINE row == [approvals[a] EXCEPT !.lapsed = TRUE]
  <2>1. /\ row \in ApprovalRow /\ row.status = approvals[a].status
        /\ approvals' = [approvals EXCEPT ![a] = row]
    BY <1>5 DEF Lapse, ApprovalsIInv, ApprovalTypes, ApprovalRow
  <2> HIDE DEF row
  <2>2. QED
    BY <2>1, OneRowMaps
<1>6. ASSUME NEW o \in Owner, DisableFlag(o) \/ \E a \in Approval : Approve(o, a)
      PROVE  UNCHANGED approvals
  BY <1>6 DEF DisableFlag, Approve
<1>7. ASSUME NEW c \in Caller,
             LookUp(c) \/ CancelAtStripe(c) \/ StripeFails(c)
               \/ CancelSubscription(c) \/ RequestDies(c)
      PROVE  UNCHANGED approvals
  BY <1>7 DEF LookUp, CancelAtStripe, StripeFails, CancelSubscription, RequestDies
<1>8. ASSUME EnableFlag \/ Reactivate \/ CancelAccount \/ UNCHANGED approvalVars
      PROVE  UNCHANGED approvals
  BY <1>8 DEF EnableFlag, Reactivate, CancelAccount, approvalVars
<1>9. CASE ExpireStale
  BY <1>9, ExpiryMaps
<1>10. QED
  BY <1>1, <1>2, <1>3, <1>4, <1>5, <1>6, <1>7, <1>8, <1>9 DEF ApprovalsNext

\* The approvals implement DecideOnce: each is opened once and decided once and its
\* decision stands, for every number of owners, approvals and failures.
THEOREM DecisionsStand == ApprovalsSpec => DecidesOnce
<1>1. ApprovalsInit => Decision!DecideInit
  BY DEF ApprovalsInit, Decision!DecideInit, NoRow
<1>2. Decisions = [a \in Approval |-> approvals[a].status]
  BY DEF Decisions
<1>3. QED
  BY <1>1, <1>2, ApprovalsInvariance, StepsMap, PTL
  DEF ApprovalsSpec, DecidesOnce, Decision!DecideSpec, Decisions

=============================================================================
