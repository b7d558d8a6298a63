--------------------------- MODULE MCPoamWorkflow ---------------------------
(***************************************************************************)
(* Instances of PoamWorkflow for TLC, which remember who has put an item   *)
(* up for review last, in whatever way: by submitting it, by a claim       *)
(* through the gate, or by giving it the status.                           *)
(***************************************************************************)
EXTENDS PoamWorkflow, TLC

VARIABLE putUp  \* per item, the user who has put it up for review, or None

peopleVars == <<vars, putUp>>

PeopleInit == Init /\ putUp = <<>>

\* A step of user u, who puts up every item that the step writes as awaiting review.
StepOf(u) ==
  LET before(i) == IF i \in DOMAIN items THEN <<items[i]>> ELSE <<>>
      writes(i) == items'[i].status = "pending_auditor_review" /\ before(i) # <<items'[i]>>
  IN putUp' = [i \in DOMAIN items' |->
                 IF writes(i) THEN u ELSE IF i \in DOMAIN items THEN putUp[i] ELSE None]

PeopleNext ==
  \E u \in User :
    /\ \/ \E c \in Control \cup {None}, s \in Status : MayStart(u) /\ Create(c, s)
       \/ NewRequest(u) \/ ServerStep(u) \/ Fail(u)
    /\ StepOf(u)

PeopleSpec == PeopleInit /\ [][PeopleNext]_peopleVars

Symmetry == Permutations(User)
-----------------------------------------------------------------------------
\* What the guide says without exception, "the submitter cannot review their own
\* item": no step of the user who has put an item up for review makes it a decided one.
NotDecidedBySubmitter ==
  [][\A i \in DOMAIN items :
       putUp[i] # None /\ items[i].status \notin Decided /\ items'[i].status \in Decided
         => work'[putUp[i]] = work[putUp[i]]]_peopleVars
=============================================================================
