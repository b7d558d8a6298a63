---------------------------- MODULE Obligations ----------------------------
(***************************************************************************)
(* The due date of one obligation: attesting to it moves the date along    *)
(* its frequency, and past today when periods were missed.                 *)
(*                                                                         *)
(* A date is a month, counted from the January of a leap year, and a day;  *)
(* the server's clock is taken to be UTC.  Attestations lock the row, so   *)
(* every request is one step.  Outcomes, compliance status, periods and    *)
(* evidence are left out.                                                  *)
(***************************************************************************)
EXTENDS Integers

CONSTANTS
  Frequency,               \* the frequencies that clients choose
  DueMonths, DueDays,      \* the dates that clients choose
  EventMonths, EventDays,  \* the dates on which something happens
  LastMonth,               \* bound: the last month of the calendar
  NoDate

FrequencyMonths ==
  [monthly |-> 1, quarterly |-> 3, semiannual |-> 6, annual |-> 12, biennial |-> 24]
FrequencyDays == [daily |-> 1, weekly |-> 7]

EarlierOf(m, n) == IF m < n THEN m ELSE n

DaysIn(month) ==
  IF month % 12 \in {3, 5, 8, 10} THEN 30
  ELSE IF month % 12 # 1 THEN 31
  ELSE IF month % 48 = 1 THEN 29 ELSE 28

Calendar == [month : 0 .. LastMonth, day : 1 .. 31]
DatesOf(months, days) == {d \in [month : months, day : days] : d.day <= DaysIn(d.month)}
Dates == DatesOf(DueMonths, DueDays)
Todays == DatesOf(EventMonths, EventDays)

\* The longest period is 24 months.
ASSUME ObligationParameters ==
  /\ Frequency \subseteq DOMAIN FrequencyMonths \cup DOMAIN FrequencyDays
  /\ LastMonth \in Nat /\ DueMonths \cup EventMonths \subseteq 0 .. LastMonth - 24
  /\ DueDays \cup EventDays \subseteq 1 .. 31 /\ NoDate \notin Calendar

VARIABLES
  frequency,   \* compliance_obligations.frequency, or "none": a one-off obligation
  due,         \* next_due_date
  today,
  anchor       \* history: the due date that a person, or the creation, set last

obligationVars == <<frequency, due, today, anchor>>

Before(d, e) == d.month < e.month \/ (d.month = e.month /\ d.day < e.day)

\* setUTCDate: days that the month does not have are days of the next.
AddDays(d, k) ==
  IF d.day + k <= DaysIn(d.month) THEN [d EXCEPT !.day = @ + k]
  ELSE [month |-> d.month + 1, day |-> d.day + k - DaysIn(d.month)]

\* setUTCMonth, with the day pinned back to the last of a shorter month.
AddMonths(d, k) ==
  [month |-> d.month + k, day |-> EarlierOf(d.day, DaysIn(d.month + k))]

OnePeriodOn(f, d) ==
  IF f \in DOMAIN FrequencyDays THEN AddDays(d, FrequencyDays[f])
  ELSE AddMonths(d, FrequencyMonths[f])

\* Mutant of AdvanceDueDate: what was missed is left on the overdue list.
AdvanceOnce(f, d, now) == OnePeriodOn(f, IF d = NoDate THEN now ELSE d)

\* advanceDueDate: one period, and then periods until the date is in the future.  A
\* date is midnight, before the time of any attestation of that day.
AdvanceDueDate(f, d, now) ==
  LET walk[e \in Calendar] == IF Before(now, e) THEN e ELSE walk[OnePeriodOn(f, e)] IN
  walk[OnePeriodOn(f, IF d = NoDate THEN now ELSE d)]

\* POST /obligations: a recurring obligation without a due date gets its first.
ObligationInit ==
  /\ today \in Todays
  /\ frequency \in Frequency \cup {"none"}
  /\ \E d \in Dates \cup {NoDate} :
       due = IF d = NoDate /\ frequency # "none"
             THEN AdvanceDueDate(frequency, NoDate, today) ELSE d
  /\ anchor = due

\* PUT /obligations/:id: a frequency or a date that is not named stays.
EditObligation(f, d) ==
  /\ frequency' = f
  /\ due' = IF d = NoDate THEN due ELSE d
  /\ anchor' = due'
  /\ UNCHANGED today

\* POST /obligations/:id/attestations: a one-off obligation keeps its date.
Attest ==
  /\ due # NoDate => due.month <= LastMonth - 24
  /\ due' = IF frequency = "none" THEN due ELSE AdvanceDueDate(frequency, due, today)
  /\ anchor' = IF anchor = NoDate THEN due' ELSE anchor
  /\ UNCHANGED <<frequency, today>>

DaysPass ==
  /\ \E d \in Todays : Before(today, d) /\ today' = d
  /\ UNCHANGED <<frequency, due, anchor>>

ObligationNext ==
  \/ \E f \in Frequency \cup {frequency}, d \in Dates \cup {NoDate} : EditObligation(f, d)
  \/ Attest \/ DaysPass

ObligationSpec == ObligationInit /\ [][ObligationNext]_obligationVars
-----------------------------------------------------------------------------
\* Type correctness.
ObligationTypeOK ==
  /\ frequency \in Frequency \cup {"none"} /\ today \in Todays
  /\ {due, anchor} \subseteq Calendar \cup {NoDate}

\* The dates any number of periods away from start, by the calendar: for days that
\* every month has.
OnSchedule(f, start, d) ==
  LET before[m \in 0 .. LastMonth] == IF m = 0 THEN 0 ELSE before[m - 1] + DaysIn(m - 1)
      number(e) == before[e.month] + e.day
  IN
  IF f \in DOMAIN FrequencyDays THEN (number(d) - number(start)) % FrequencyDays[f] = 0
  ELSE d.day = start.day /\ (d.month - start.month) % FrequencyMonths[f] = 0

\* However late, early or often it is attested to, a recurring obligation falls due
\* next on the first date of its anchored schedule after the old one and today: no
\* period is skipped, and none that has been missed stays on the overdue list.
FirstDateAhead ==
  [][frequency # "none" /\ due # NoDate
     /\ (frequency \in DOMAIN FrequencyDays \/ anchor.day <= 28) /\ Attest =>
       LET ahead(d) == Before(due, d) /\ Before(today, d) IN
       /\ OnSchedule(frequency, anchor, due') /\ ahead(due')
       /\ \A d \in DatesOf(due.month .. due'.month, 1 .. 31) :
            Before(d, due') /\ OnSchedule(frequency, anchor, d) => ~ahead(d)]_obligationVars
=============================================================================
