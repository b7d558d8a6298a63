-------------------------- MODULE CrosswalkPosture --------------------------
(***************************************************************************)
(* What the crosswalk automation promises about compliance statuses, with  *)
(* no ledger, no requests in flight and no transactions: a person may set  *)
(* any status, but the automation only ever credits a control nobody has   *)
(* started and only ever takes back a credit (the header comment of        *)
(* crosswalkCreditService.js: "it never touches human work").              *)
(***************************************************************************)
EXTENDS ControlStatus

CONSTANT Control

VARIABLES
  status,  \* the status column of each control's row, or None without a row
  asked    \* the status a person last asked for, or None

Init ==
  /\ status = [c \in Control |-> None]
  /\ asked = [c \in Control |-> None]

\* A person, through any endpoint, sets the status of one control.
PersonSets(c, s) ==
  /\ status' = [status EXCEPT ![c] = s]
  /\ asked' = [asked EXCEPT ![c] = s]

\* The dashboard makes sure a row exists.
Enrol(c) ==
  /\ status[c] = None
  /\ status' = [status EXCEPT ![c] = "not_started"]
  /\ UNCHANGED asked

\* Controls nobody has started become satisfied through a mapped control.
Credit(T) ==
  /\ \A c \in T : status[c] \in {None, "not_started"}
  /\ status' = [c \in Control |-> IF c \in T THEN Swc ELSE status[c]]
  /\ UNCHANGED asked

\* Credits are taken back: only credited controls change, and none of them
\* is handed a status that is itself only crosswalk credit.
Withdraw(T) ==
  /\ \A c \in T : status[c] = Swc
  /\ \E back \in [Control -> Status \ {Swc}] :
       status' = [c \in Control |-> IF c \in T THEN back[c] ELSE status[c]]
  /\ UNCHANGED asked

Next ==
  \/ \E c \in Control, s \in Status : PersonSets(c, s)
  \/ \E c \in Control : Enrol(c)
  \/ \E T \in SUBSET Control : Credit(T) \/ Withdraw(T)

vars == <<status, asked>>

Spec == Init /\ [][Next]_vars
============================================================================
