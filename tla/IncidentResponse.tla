-------------------------- MODULE IncidentResponse --------------------------
(***************************************************************************)
(* The response to one incident: its status, and the times at which the    *)
(* phases of the response were first reached, from which the response      *)
(* metrics are computed.                                                   *)
(*                                                                         *)
(* POST /incidents/:id/status begins a transaction, waits for the row's    *)
(* lock, checks the transition, and stamps the phase with now(): the time  *)
(* at which the transaction began, not the time at which it got the lock.  *)
(* What happens under the lock is one step.  A time is the number of the   *)
(* transaction; 0 stands for NULL.  Titles, severities, notes, the         *)
(* timeline and notifications are left out.                                *)
(***************************************************************************)
EXTENDS Naturals

CONSTANTS
  Responder,   \* requests in flight at once
  MaxChanges,  \* bound: requests ever made
  NoChange

ASSUME IncidentParameters == MaxChanges \in Nat

VARIABLES
  incident,       \* the row: status and phase times
  changes,        \* [Responder -> the change in flight, and when it began]
  lastBegun,      \* when the latest transaction began
  changesOverlap  \* history: two changes have been in flight at the same time

incidentVars == <<incident, changes, lastBegun, changesOverlap>>

AllowedTransitions ==
  [new            |-> {"triaged", "investigating", "false_positive", "closed"},
   triaged        |-> {"investigating", "contained", "false_positive", "closed"},
   investigating  |-> {"contained", "false_positive", "closed"},
   contained      |-> {"eradicated", "investigating", "closed"},
   eradicated     |-> {"recovered", "investigating", "closed"},
   recovered      |-> {"closed", "investigating"},
   closed         |-> {"investigating"},
   false_positive |-> {"investigating"}]

IncidentStatus == DOMAIN AllowedTransitions

\* The phases that have a column for their time; recovered has resolved_at.
Stamped == {"triaged", "contained", "eradicated", "recovered", "closed"}

NotChanging == [to |-> NoChange, at |-> 0]

IncidentInit ==
  /\ incident = [status |-> "new", at |-> [s \in Stamped |-> 0]]
  /\ changes = [r \in Responder |-> NotChanging]
  /\ lastBegun = 0
  /\ changesOverlap = FALSE

Changing(r) == changes[r] # NotChanging
EndChange(r) == changes' = [changes EXCEPT ![r] = NotChanging]

\* A status may also follow itself.
CanTransition(from, to) == from = to \/ to \in AllowedTransitions[from]

\* Mutant of Stamp: the time of the latest arrival is kept.
StampAgain(at, to, now) == [s \in Stamped |-> IF s = to THEN now ELSE at[s]]

\* COALESCE keeps the first time that a phase was reached.
Stamp(at, to, now) == [s \in Stamped |-> IF s = to /\ at[s] = 0 THEN now ELSE at[s]]
-----------------------------------------------------------------------------
\* The BEGIN.
BeginChange(r, to) ==
  /\ ~Changing(r) /\ lastBegun < MaxChanges
  /\ lastBegun' = lastBegun + 1
  /\ changes' = [changes EXCEPT ![r] = [to |-> to, at |-> lastBegun + 1]]
  /\ changesOverlap' = (changesOverlap \/ \E q \in Responder : Changing(q))
  /\ UNCHANGED incident

\* From the lock to the COMMIT.
ApplyStatusChange(r) ==
  LET change == changes[r] IN
  /\ Changing(r)
  /\ CanTransition(incident.status, change.to)
  /\ incident' = [status |-> change.to, at |-> Stamp(incident.at, change.to, change.at)]
  /\ EndChange(r)
  /\ UNCHANGED <<lastBegun, changesOverlap>>

\* 409, a failing statement or a server that dies: a rollback.
RollbackChange(r) ==
  /\ Changing(r)
  /\ EndChange(r)
  /\ UNCHANGED <<incident, lastBegun, changesOverlap>>

IncidentNext ==
  \E r \in Responder :
    \/ \E to \in IncidentStatus : BeginChange(r, to)
    \/ ApplyStatusChange(r) \/ RollbackChange(r)

IncidentSpec == IncidentInit /\ [][IncidentNext]_incidentVars
-----------------------------------------------------------------------------
\* Type correctness: no time is later than the latest transaction.
IncidentTypeOK ==
  /\ incident \in [status : IncidentStatus, at : [Stamped -> 0 .. lastBegun]]
  /\ changes \in [Responder -> [to : IncidentStatus \cup {NoChange}, at : 0 .. lastBegun]]
  /\ lastBegun \in Nat /\ changesOverlap \in BOOLEAN

\* a is the phase before b: b has no time without a, and unless changes overlap, no
\* earlier one.
Precedes(a, b) ==
  incident.at[b] # 0 =>
    incident.at[a] # 0 /\ (changesOverlap \/ incident.at[a] < incident.at[b])

\* incidentService.js:12-15 - "an incident cannot be eradicated before it is
\* contained": however it is reopened and phases are gone through again, the times
\* on record have the phases in their order, as long as changes do not overlap.
PhasesInOrder == Precedes("contained", "eradicated") /\ Precedes("eradicated", "recovered")
=============================================================================
