--------------------------- MODULE Measures_proofs ---------------------------
(***************************************************************************)
(* That an indicator shows its newest measurement and classifies it        *)
(* soundly, that the phases of an incident's response are in order, and    *)
(* that attesting to an obligation leaves no period of its schedule out:   *)
(* for all values, times, thresholds, requests and dates.                  *)
(***************************************************************************)
EXTENDS Indicators, IncidentResponse, Obligations, WebhookDelivery,
        CountLemmas, FiniteSetTheorems, TLAPS

\* The type invariant and what it is about are kept together by every step.
IndicatorIInv == IndicatorTypeOK /\ LatestIsNewest

\* Nothing has been measured at first.
LEMMA IndicatorInitially == IndicatorInit => IndicatorIInv
<1> SUFFICES ASSUME IndicatorInit PROVE IndicatorIInv
  OBVIOUS
<1>1. IndicatorTypeOK
  BY DEF IndicatorInit, IndicatorTypeOK
<1>2. Measured = {}
  BY DEF IndicatorInit, Measured
<1>3. LatestIsNewest
  BY <1>2 DEF IndicatorInit, LatestIsNewest
<1>4. QED
  BY <1>1, <1>3 DEF IndicatorIInv

\* A measurement, whenever it was taken.
LEMMA MeasurementKeeps ==
  ASSUME IndicatorIInv, NEW value \in Value, NEW t \in Time, RecordMeasurement(value, t)
  PROVE  IndicatorIInv'
<1> DEFINE reading == [value |-> value, level |-> EvaluateBreach(value, indicator)]
<1>1. reading \in Reading /\ reading # NoReading
  BY IndicatorParameters DEF Reading, NoReading, EvaluateBreach, Level
<1>2. /\ measurements' = [measurements EXCEPT ![t] = reading]
      /\ latest' = IF latest.at <= t THEN [at |-> t, reading |-> reading] ELSE latest
      /\ indicator' = indicator
  BY DEF RecordMeasurement
<1> HIDE DEF reading
<1>3. \A u \in Time : measurements'[u] = IF u = t THEN reading ELSE measurements[u]
  BY <1>2 DEF IndicatorIInv, IndicatorTypeOK
<1>4. IndicatorTypeOK'
  <2>1. measurements' \in [Time -> Reading \cup {NoReading}]
    BY <1>1, <1>2 DEF IndicatorIInv, IndicatorTypeOK
  <2>2. latest' \in [at : Time \cup {0}, reading : Reading \cup {NoReading}]
    BY <1>1, <1>2 DEF IndicatorIInv, IndicatorTypeOK
  <2>3. QED
    BY <1>2, <2>1, <2>2 DEF IndicatorIInv, IndicatorTypeOK
<1>5. Measured' = Measured \cup {t}
  BY <1>1, <1>3 DEF Measured
<1>6. t \in Nat \ {0} /\ latest.at \in Nat /\ \A u \in Time : u \in Nat \ {0}
  <2>1. \A u \in Time : u \in Nat \ {0}
    BY IndicatorParameters
  <2>2. latest.at \in Time \cup {0}
    BY DEF IndicatorIInv, IndicatorTypeOK
  <2>3. QED
    BY <2>1, <2>2
<1>7. CASE latest.at <= t
  <2>1. latest'.at = t /\ latest'.reading = reading
    BY <1>2, <1>7
  <2>2. ASSUME NEW u \in Measured PROVE u <= t
    <3>1. u \in Nat
      BY <1>6 DEF Measured
    <3>2. u <= latest.at
      BY DEF IndicatorIInv, LatestIsNewest
    <3>3. QED
      BY <1>6, <1>7, <3>1, <3>2
  <2>3. QED
    BY <1>3, <1>4, <1>5, <1>6, <2>1, <2>2 DEF IndicatorIInv, LatestIsNewest
<1>8. CASE ~(latest.at <= t)
  <2>1. latest' = latest /\ t < latest.at /\ latest.at # 0
    BY <1>2, <1>6, <1>8
  <2>2. latest.at \in Measured /\ latest.reading = measurements[latest.at]
    BY <2>1 DEF IndicatorIInv, LatestIsNewest
  <2>3. measurements'[latest.at] = measurements[latest.at]
    BY <1>3, <1>6, <2>1, <2>2 DEF Measured
  <2>4. \A u \in Measured : u <= latest.at
    BY <2>2 DEF IndicatorIInv, LatestIsNewest
  <2>5. \A u \in Measured' : u <= latest'.at
    BY <1>5, <1>6, <2>1, <2>4 DEF Measured
  <2>6. QED
    BY <1>4, <1>5, <2>1, <2>2, <2>3, <2>5 DEF IndicatorIInv, LatestIsNewest
<1>9. QED
  BY <1>7, <1>8

\* Every step keeps it.
LEMMA IndicatorStep == IndicatorIInv /\ [IndicatorNext]_indicatorVars => IndicatorIInv'
<1> SUFFICES ASSUME IndicatorIInv, [IndicatorNext]_indicatorVars PROVE IndicatorIInv'
  OBVIOUS
<1>1. ASSUME NEW direction \in Direction, NEW amber \in Threshold, NEW red \in Threshold,
             Tune(direction, amber, red)
      PROVE  IndicatorIInv'
  BY <1>1 DEF Tune, IndicatorIInv, IndicatorTypeOK, LatestIsNewest, Measured
<1>2. ASSUME NEW value \in Value, NEW t \in Time, RecordMeasurement(value, t)
      PROVE  IndicatorIInv'
  BY <1>2, MeasurementKeeps
<1>3. CASE UNCHANGED indicatorVars
  BY <1>3 DEF indicatorVars, IndicatorIInv, IndicatorTypeOK, LatestIsNewest, Measured
<1>4. QED
  BY <1>1, <1>2, <1>3 DEF IndicatorNext

\* The invariant holds of every state.
LEMMA IndicatorInvariance == IndicatorSpec => []IndicatorIInv
<1>1. QED
  BY IndicatorInitially, IndicatorStep, PTL DEF IndicatorSpec

\* The dashboard shows the newest measurement, for all values and times.
THEOREM NewestIsShown == IndicatorSpec => []LatestIsNewest
<1>1. IndicatorIInv => LatestIsNewest
  BY DEF IndicatorIInv
<1>2. QED
  BY <1>1, IndicatorInvariance, PTL

\* A value reaches whatever a better one reaches.
LEMMA WorseReaches ==
  ASSUME NEW v \in Int, NEW w \in Int, NEW direction \in Direction,
         NEW threshold \in Int \cup {NoValue},
         NoBetter(v, w, direction), Reaches(w, threshold, direction)
  PROVE  Reaches(v, threshold, direction)
<1>1. threshold \in Int
  BY DEF Reaches
<1>2. QED
  BY <1>1 DEF Reaches, NoBetter, Direction

\* A worse value is not a milder breach, for all values, directions and thresholds.
THEOREM WorseIsWorse == IndicatorSpec => []WorseIsNotMilder
<1>1. IndicatorIInv => WorseIsNotMilder
  <2> SUFFICES ASSUME IndicatorIInv, NEW v \in Value, NEW w \in Value,
                      NoBetter(v, w, indicator.direction)
               PROVE  Severity(EvaluateBreach(v, indicator))
                        >= Severity(EvaluateBreach(w, indicator))
    BY DEF WorseIsNotMilder
  <2>1. /\ v \in Int /\ w \in Int /\ indicator.direction \in Direction
        /\ indicator.red \in Int \cup {NoValue} /\ indicator.amber \in Int \cup {NoValue}
    BY IndicatorParameters DEF IndicatorIInv, IndicatorTypeOK, Threshold
  <2>2. /\ Reaches(w, indicator.red, indicator.direction)
             => Reaches(v, indicator.red, indicator.direction)
        /\ Reaches(w, indicator.amber, indicator.direction)
             => Reaches(v, indicator.amber, indicator.direction)
    BY <2>1, WorseReaches
  <2>3. Severity("green") = 0 /\ Severity("amber") = 1 /\ Severity("red") = 2
    BY DEF Severity
  <2>4. QED
    BY <2>2, <2>3 DEF EvaluateBreach
<1>2. QED
  BY <1>1, IndicatorInvariance, PTL
-----------------------------------------------------------------------------
\* What the phases' order rests on: no time is ahead of the transactions; a request
\* in flight has a time of its own, the latest one unless changes overlap; and the
\* states that are entered from a phase have its time.
Recorded(s) == incident.at[s] # 0

IncidentIInv ==
  /\ IncidentTypeOK /\ PhasesInOrder
  /\ incident.status = "contained" => Recorded("contained")
  /\ incident.status = "eradicated" => Recorded("eradicated")
  /\ incident.status = "recovered" => Recorded("recovered")
  /\ \A r \in Responder : Changing(r) => changes[r].to \in IncidentStatus /\ changes[r].at # 0
  /\ ~changesOverlap =>
       /\ \A s \in Stamped : \A r \in Responder : Changing(r) => incident.at[s] < changes[r].at
       /\ \A q, r \in Responder : Changing(q) /\ Changing(r) => q = r

\* The statuses, and the transitions into the phases that are ordered.
LEMMA Transitions ==
  /\ IncidentStatus = {"new", "triaged", "investigating", "contained", "eradicated",
                       "recovered", "closed", "false_positive"}
  /\ \A from, to \in IncidentStatus :
       CanTransition(from, to) =>
         /\ to = "eradicated" => from \in {"contained", "eradicated"}
         /\ to = "recovered" => from \in {"eradicated", "recovered"}
<1>1. IncidentStatus = {"new", "triaged", "investigating", "contained", "eradicated",
                        "recovered", "closed", "false_positive"}
  BY DEF IncidentStatus, AllowedTransitions
<1>2. QED
  BY <1>1 DEF CanTransition, AllowedTransitions

\* Nothing has been reached at first.
LEMMA IncidentInitially == IncidentInit => IncidentIInv
<1> SUFFICES ASSUME IncidentInit PROVE IncidentIInv
  OBVIOUS
<1>1. IncidentTypeOK
  <2>1. NotChanging \in [to : IncidentStatus \cup {NoChange}, at : 0 .. lastBegun]
    BY DEF IncidentInit, NotChanging
  <2>2. changes \in [Responder -> [to : IncidentStatus \cup {NoChange}, at : 0 .. lastBegun]]
    BY <2>1 DEF IncidentInit
  <2>3. incident \in [status : IncidentStatus, at : [Stamped -> 0 .. lastBegun]]
    BY Transitions DEF IncidentInit
  <2>4. QED
    BY <2>2, <2>3 DEF IncidentInit, IncidentTypeOK
<1>2. PhasesInOrder
  BY DEF IncidentInit, PhasesInOrder, Precedes, Stamped
<1>3. QED
  BY <1>1, <1>2 DEF IncidentInit, IncidentIInv, Changing

\* A request begins, with the latest time.
LEMMA BeginChangeKeeps ==
  ASSUME IncidentIInv, NEW r \in Responder, NEW to \in IncidentStatus, BeginChange(r, to)
  PROVE  IncidentIInv'
<1> DEFINE w == [to |-> to, at |-> lastBegun + 1]
<1>1. /\ lastBegun \in Nat /\ lastBegun' = lastBegun + 1 /\ incident' = incident
      /\ changes' = [changes EXCEPT ![r] = w] /\ ~Changing(r)
      /\ changesOverlap' = (changesOverlap \/ \E q \in Responder : Changing(q))
  BY DEF BeginChange, IncidentIInv, IncidentTypeOK
<1>2. w.to = to /\ w.at = lastBegun + 1 /\ w # NotChanging
  BY <1>1 DEF NotChanging
<1>3. w \in [to : IncidentStatus \cup {NoChange}, at : 0 .. lastBegun']
  BY <1>1
<1> HIDE DEF w
<1>4. \A q \in Responder : changes'[q] = IF q = r THEN w ELSE changes[q]
  BY <1>1 DEF IncidentIInv, IncidentTypeOK
<1>5. \A q \in Responder : Changing(q)' <=> q = r \/ Changing(q)
  BY <1>2, <1>4 DEF Changing
<1>6. \A s \in Stamped : incident.at[s] \in 0 .. lastBegun
  BY DEF IncidentIInv, IncidentTypeOK
<1>7. IncidentTypeOK'
  <2>1. incident' \in [status : IncidentStatus, at : [Stamped -> 0 .. lastBegun']]
    BY <1>1, <1>6 DEF IncidentIInv, IncidentTypeOK
  <2>2. changes' \in [Responder -> [to : IncidentStatus \cup {NoChange}, at : 0 .. lastBegun']]
    <3>1. \A q \in Responder :
            changes[q] \in [to : IncidentStatus \cup {NoChange}, at : 0 .. lastBegun']
      BY <1>1 DEF IncidentIInv, IncidentTypeOK
    <3>2. QED
      BY <1>1, <1>3, <3>1 DEF IncidentIInv, IncidentTypeOK
  <2>3. QED
    BY <1>1, <2>1, <2>2 DEF IncidentIInv, IncidentTypeOK
<1>8. PhasesInOrder' /\ (changesOverlap => changesOverlap')
  BY <1>1 DEF IncidentIInv, PhasesInOrder, Precedes
<1>9. \A q \in Responder :
        Changing(q)' => changes'[q].to \in IncidentStatus /\ changes'[q].at # 0
  BY <1>1, <1>2, <1>4, <1>5 DEF IncidentIInv
<1>10. ~changesOverlap' =>
         /\ \A s \in Stamped : \A q \in Responder :
              Changing(q)' => incident'.at[s] < changes'[q].at
         /\ \A p, q \in Responder : Changing(p)' /\ Changing(q)' => p = q
  <2> SUFFICES ASSUME ~changesOverlap'
               PROVE  /\ \A s \in Stamped : \A q \in Responder :
                           Changing(q)' => incident'.at[s] < changes'[q].at
                      /\ \A p, q \in Responder : Changing(p)' /\ Changing(q)' => p = q
    OBVIOUS
  <2>1. \A q \in Responder : Changing(q)' => q = r
    BY <1>1, <1>5
  <2>2. ASSUME NEW s \in Stamped PROVE incident'.at[s] < w.at
    <3>1. incident.at[s] \in 0 .. lastBegun
      BY <1>6
    <3>2. QED
      BY <1>1, <1>2, <3>1
  <2>3. QED
    BY <1>4, <2>1, <2>2
<1>11. QED
  BY <1>1, <1>7, <1>8, <1>9, <1>10 DEF IncidentIInv, Recorded

\* A request ends without a change.
LEMMA RollbackKeeps ==
  ASSUME IncidentIInv, NEW r \in Responder, RollbackChange(r)
  PROVE  IncidentIInv'
<1>1. /\ UNCHANGED <<incident, lastBegun, changesOverlap>>
      /\ changes' = [changes EXCEPT ![r] = NotChanging]
  BY DEF RollbackChange, EndChange
<1>2. NotChanging \in [to : IncidentStatus \cup {NoChange}, at : 0 .. lastBegun]
  BY DEF NotChanging, IncidentIInv, IncidentTypeOK
<1>3. \A q \in Responder : changes'[q] = IF q = r THEN NotChanging ELSE changes[q]
  BY <1>1 DEF IncidentIInv, IncidentTypeOK
<1>4. \A q \in Responder : Changing(q)' => Changing(q) /\ changes'[q] = changes[q]
  BY <1>3 DEF Changing
<1>5. IncidentTypeOK'
  BY <1>1, <1>2 DEF IncidentIInv, IncidentTypeOK
<1>6. QED
  BY <1>1, <1>4, <1>5 DEF IncidentIInv, PhasesInOrder, Precedes, Recorded

\* A change under the lock.
LEMMA ChangeApplied ==
  ASSUME IncidentIInv, NEW r \in Responder, ApplyStatusChange(r)
  PROVE  IncidentIInv'
<1> DEFINE to == changes[r].to
           now == changes[r].at
<1>1. /\ UNCHANGED <<lastBegun, changesOverlap>> /\ Changing(r)
      /\ to \in IncidentStatus /\ now \in 0 .. lastBegun /\ now # 0 /\ lastBegun \in Nat
      /\ CanTransition(incident.status, to) /\ incident.status \in IncidentStatus
      /\ incident'.status = to /\ incident'.at = Stamp(incident.at, to, now)
      /\ incident' = [status |-> to, at |-> Stamp(incident.at, to, now)]
      /\ changes' = [changes EXCEPT ![r] = NotChanging]
  BY DEF ApplyStatusChange, EndChange, IncidentIInv, IncidentTypeOK
<1> HIDE DEF to, now
<1>2. \A s \in Stamped : /\ incident.at[s] \in 0 .. lastBegun
                         /\ incident'.at[s] = IF s = to /\ incident.at[s] = 0 THEN now
                                              ELSE incident.at[s]
  BY <1>1 DEF Stamp, IncidentIInv, IncidentTypeOK
<1>3. NotChanging \in [to : IncidentStatus \cup {NoChange}, at : 0 .. lastBegun]
  BY <1>1 DEF NotChanging
<1>4. \A q \in Responder : changes'[q] = IF q = r THEN NotChanging ELSE changes[q]
  BY <1>1 DEF IncidentIInv, IncidentTypeOK
<1>5. \A q \in Responder : Changing(q)' => Changing(q) /\ changes'[q] = changes[q] /\ q # r
  BY <1>4 DEF Changing
<1>6. IncidentTypeOK'
  <2>1. Stamp(incident.at, to, now) \in [Stamped -> 0 .. lastBegun]
    BY <1>1, <1>2 DEF Stamp
  <2>2. QED
    BY <1>1, <1>3, <2>1 DEF IncidentIInv, IncidentTypeOK
<1>7. {"contained", "eradicated", "recovered"} \subseteq Stamped
  BY DEF Stamped
<1>8. PhasesInOrder'
  <2>1. /\ to = "eradicated" => Recorded("contained")
        /\ to = "recovered" => Recorded("eradicated")
    BY <1>1, Transitions DEF IncidentIInv, PhasesInOrder, Precedes, Recorded
  <2>2. ~changesOverlap => \A s \in Stamped : incident.at[s] < now
    BY <1>1 DEF IncidentIInv, now
  <2>3. /\ incident.at["eradicated"] # 0 => incident.at["contained"] # 0
            /\ (changesOverlap \/ incident.at["contained"] < incident.at["eradicated"])
        /\ incident.at["recovered"] # 0 => incident.at["eradicated"] # 0
            /\ (changesOverlap \/ incident.at["eradicated"] < incident.at["recovered"])
    BY DEF IncidentIInv, PhasesInOrder, Precedes
  <2>4. Precedes("contained", "eradicated")'
    BY <1>1, <1>2, <1>7, <2>1, <2>2, <2>3 DEF Precedes, Recorded
  <2>5. Precedes("eradicated", "recovered")'
    BY <1>1, <1>2, <1>7, <2>1, <2>2, <2>3 DEF Precedes, Recorded
  <2>6. QED
    BY <2>4, <2>5 DEF PhasesInOrder
<1>9. \A s \in {"contained", "eradicated", "recovered"} :
        incident'.status = s => incident'.at[s] # 0
  BY <1>1, <1>2, <1>7
<1>10. ~changesOverlap' => \A q \in Responder : ~Changing(q)'
  BY <1>1, <1>5 DEF IncidentIInv
<1>11. QED
  BY <1>5, <1>6, <1>8, <1>9, <1>10 DEF IncidentIInv, Recorded

\* Every step keeps it.
LEMMA IncidentStep == IncidentIInv /\ [IncidentNext]_incidentVars => IncidentIInv'
<1> SUFFICES ASSUME IncidentIInv, [IncidentNext]_incidentVars PROVE IncidentIInv'
  OBVIOUS
<1>1. ASSUME NEW r \in Responder,
             \/ \E to \in IncidentStatus : BeginChange(r, to)
             \/ ApplyStatusChange(r) \/ RollbackChange(r)
      PROVE  IncidentIInv'
  BY <1>1, BeginChangeKeeps, ChangeApplied, RollbackKeeps
<1>2. CASE UNCHANGED incidentVars
  BY <1>2 DEF incidentVars, IncidentIInv, IncidentTypeOK, PhasesInOrder, Precedes, Recorded,
              Changing
<1>3. QED
  BY <1>1, <1>2 DEF IncidentNext

\* The invariant holds of every state.
LEMMA IncidentInvariance == IncidentSpec => []IncidentIInv
<1>1. QED
  BY IncidentInitially, IncidentStep, PTL DEF IncidentSpec

\* The phases of the response are in order, for every number of requests.
THEOREM PhasesOrdered == IncidentSpec => []PhasesInOrder
<1>1. IncidentIInv => PhasesInOrder
  BY DEF IncidentIInv
<1>2. QED
  BY <1>1, IncidentInvariance, PTL

-----------------------------------------------------------------------------
(***************************************************************************)
(* Obligations: the calendar                                               *)
(***************************************************************************)

\* Dates that exist, and frequencies that recur.
RealDate == DatesOf(0 .. LastMonth, 1 .. 31)
Recurring == DOMAIN FrequencyMonths \cup DOMAIN FrequencyDays

\* The days before each month, as OnSchedule counts them, and the number of a date.
CountsDays(b) == b = [m \in 0 .. LastMonth |-> IF m = 0 THEN 0 ELSE b[m - 1] + DaysIn(m - 1)]
DaysBefore == CHOOSE b : CountsDays(b)
Number(d) == DaysBefore[d.month] + d.day

\* A date exists if its month has the day.
LEMMA RealDates ==
  /\ \A d \in RealDate : /\ d \in Calendar /\ d.month \in 0 .. LastMonth /\ d.day \in 1 .. 31
                         /\ d.day <= DaysIn(d.month)
  /\ \A d \in Calendar : d.day <= DaysIn(d.month) => d \in RealDate
  /\ LastMonth \in Nat
BY ObligationParameters DEF RealDate, DatesOf, Calendar

\* How long months are.
LEMMA MonthLengths == \A m \in Int : DaysIn(m) \in 28 .. 31
BY DEF DaysIn

\* How long periods are.
LEMMA PeriodLengths ==
  /\ \A f \in DOMAIN FrequencyDays : FrequencyDays[f] \in {1, 7}
  /\ \A f \in Recurring \ DOMAIN FrequencyDays : FrequencyMonths[f] \in {1, 3, 6, 12, 24}
  /\ "none" \notin Recurring
BY DEF FrequencyDays, FrequencyMonths, Recurring

\* There is such a count: it is extended month by month.
LEMMA DaysAreCounted == CountsDays(DaysBefore)
<1> DEFINE Counted(n) == \E b : b = [m \in 0 .. n |-> IF m = 0 THEN 0 ELSE b[m - 1] + DaysIn(m - 1)]
           Bad == {n \in 0 .. LastMonth : ~Counted(n)}
<1>1. LastMonth \in Nat
  BY RealDates
<1>2. Bad = {}
  <2> SUFFICES ASSUME Bad # {} PROVE FALSE
    OBVIOUS
  <2>1. PICK n \in Bad : \A k \in Bad : n <= k
    <3>1. Bad \subseteq Nat
      BY <1>1
    <3> HIDE DEF Bad
    <3>2. QED
      BY <3>1, LeastNumber
  <2>2. CASE n = 0
    <3> DEFINE b == [m \in 0 .. 0 |-> 0]
    <3>1. b = [m \in 0 .. 0 |-> IF m = 0 THEN 0 ELSE b[m - 1] + DaysIn(m - 1)]
      OBVIOUS
    <3> HIDE DEF b
    <3>2. QED
      BY <2>1, <2>2, <3>1
  <2>3. CASE n # 0
    <3>1. n \in 1 .. LastMonth /\ n \in Nat /\ n - 1 \in 0 .. LastMonth
      BY <1>1, <2>1, <2>3
    <3>2. Counted(n - 1)
      BY <1>1, <2>1, <3>1
    <3>3. PICK g : g = [m \in 0 .. (n - 1) |-> IF m = 0 THEN 0 ELSE g[m - 1] + DaysIn(m - 1)]
      BY <3>2
    <3> DEFINE b == [m \in 0 .. n |-> IF m = n THEN g[n - 1] + DaysIn(n - 1) ELSE g[m]]
    <3>4. \A m \in 0 .. n : b[m] = IF m = 0 THEN 0 ELSE b[m - 1] + DaysIn(m - 1)
      <4> SUFFICES ASSUME NEW m \in 0 .. n
                   PROVE  b[m] = IF m = 0 THEN 0 ELSE b[m - 1] + DaysIn(m - 1)
        OBVIOUS
      <4>1. CASE m = n
        BY <3>1, <4>1
      <4>2. CASE m # n /\ m # 0
        <5>1. m \in 0 .. (n - 1) /\ m - 1 \in 0 .. n /\ m - 1 # n
          BY <3>1, <4>2
        <5>2. b[m] = g[m] /\ b[m - 1] = g[m - 1]
          BY <4>2, <5>1
        <5>3. g[m] = g[m - 1] + DaysIn(m - 1)
          BY <3>3, <4>2, <5>1
        <5>4. QED
          BY <4>2, <5>2, <5>3
      <4>3. CASE m # n /\ m = 0
        <5>1. 0 \in 0 .. (n - 1)
          BY <3>1
        <5>2. g[0] = 0
          BY <3>3, <5>1
        <5>3. QED
          BY <4>3, <5>2
      <4>4. QED
        BY <4>1, <4>2, <4>3
    <3>5. b = [m \in 0 .. n |-> b[m]]
      OBVIOUS
    <3> HIDE DEF b
    <3>6. b = [m \in 0 .. n |-> IF m = 0 THEN 0 ELSE b[m - 1] + DaysIn(m - 1)]
      BY <3>4, <3>5
    <3>7. QED
      BY <2>1, <3>6
  <2>4. QED
    BY <2>2, <2>3
<1>3. Counted(LastMonth)
  BY <1>1, <1>2
<1>4. \E b : CountsDays(b)
  BY <1>3 DEF CountsDays
<1>5. QED
  BY <1>4 DEF DaysBefore

\* Months are counted from the first, each after the days of the one before.
LEMMA MonthsFollow ==
  /\ DaysBefore \in [0 .. LastMonth -> Nat]
  /\ \A m \in 0 .. LastMonth : m + 1 <= LastMonth => DaysBefore[m + 1] = DaysBefore[m] + DaysIn(m)
<1>1. LastMonth \in Nat
  BY RealDates
<1>2. /\ DOMAIN DaysBefore = 0 .. LastMonth
      /\ DaysBefore = [m \in 0 .. LastMonth |-> DaysBefore[m]]
      /\ \A m \in 0 .. LastMonth :
           DaysBefore[m] = IF m = 0 THEN 0 ELSE DaysBefore[m - 1] + DaysIn(m - 1)
  BY DaysAreCounted DEF CountsDays
<1> DEFINE Bad == {m \in 0 .. LastMonth : DaysBefore[m] \notin Nat}
<1>3. Bad = {}
  <2> SUFFICES ASSUME Bad # {} PROVE FALSE
    OBVIOUS
  <2>1. PICK n \in Bad : \A k \in Bad : n <= k
    <3>1. Bad \subseteq Nat
      BY <1>1
    <3> HIDE DEF Bad
    <3>2. QED
      BY <3>1, LeastNumber
  <2>2. n # 0
    BY <1>2, <2>1
  <2>3. n - 1 \in 0 .. LastMonth /\ n - 1 \in Int /\ ~(n <= n - 1)
    BY <1>1, <2>1, <2>2
  <2>4. DaysBefore[n - 1] \in Nat
    BY <2>1, <2>3
  <2>5. DaysBefore[n] = DaysBefore[n - 1] + DaysIn(n - 1) /\ DaysIn(n - 1) \in 28 .. 31
    BY <1>2, <2>1, <2>2, <2>3, MonthLengths
  <2>6. QED
    BY <2>1, <2>4, <2>5
<1>4. DaysBefore \in [0 .. LastMonth -> Nat]
  BY <1>2, <1>3
<1>5. ASSUME NEW m \in 0 .. LastMonth, m + 1 <= LastMonth
      PROVE  DaysBefore[m + 1] = DaysBefore[m] + DaysIn(m)
  <2>1. m + 1 \in 0 .. LastMonth /\ m + 1 # 0 /\ (m + 1) - 1 = m
    BY <1>1, <1>5
  <2>2. DaysBefore[m + 1] = DaysBefore[(m + 1) - 1] + DaysIn((m + 1) - 1)
    BY <1>2, <2>1
  <2>3. QED
    BY <2>1, <2>2
<1>6. QED
  BY <1>4, <1>5

\* A later month begins after an earlier one has ended.
LEMMA MonthsApart ==
  \A m, n \in 0 .. LastMonth : m < n => DaysBefore[m] + DaysIn(m) <= DaysBefore[n]
<1> SUFFICES ASSUME NEW m \in 0 .. LastMonth
             PROVE  \A n \in 0 .. LastMonth : m < n => DaysBefore[m] + DaysIn(m) <= DaysBefore[n]
  OBVIOUS
<1> DEFINE Bad == {n \in 0 .. LastMonth : m < n /\ ~(DaysBefore[m] + DaysIn(m) <= DaysBefore[n])}
<1>1. Bad = {}
  <2> SUFFICES ASSUME Bad # {} PROVE FALSE
    OBVIOUS
  <2>1. LastMonth \in Nat /\ Bad \subseteq Nat
    BY RealDates
  <2>2. PICK n \in Bad : \A k \in Bad : n <= k
    <3> HIDE DEF Bad
    <3>1. QED
      BY <2>1, LeastNumber
  <2>3. PICK k : k = n - 1
    OBVIOUS
  <2>4. k \in 0 .. LastMonth /\ k + 1 = n /\ k + 1 <= LastMonth /\ ~(n <= k) /\ m <= k
    BY <2>1, <2>2, <2>3
  <2>5. DaysBefore[n] = DaysBefore[k] + DaysIn(k)
    BY <2>4, MonthsFollow
  <2>6. /\ DaysBefore[m] \in Nat /\ DaysBefore[n] \in Nat /\ DaysBefore[k] \in Nat
        /\ DaysIn(m) \in 28 .. 31 /\ DaysIn(k) \in 28 .. 31
    BY <2>1, <2>2, <2>4, MonthsFollow, MonthLengths
  <2>7. CASE m = k
    BY <2>2, <2>5, <2>6, <2>7
  <2>8. CASE m # k
    <3>1. m < k
      BY <2>1, <2>4, <2>8
    <3>2. DaysBefore[m] + DaysIn(m) <= DaysBefore[k]
      BY <2>2, <2>4, <3>1
    <3>3. DaysBefore[m] + DaysIn(m) <= DaysBefore[n]
      BY <2>5, <2>6, <3>2
    <3>4. QED
      BY <2>2, <3>3
  <2>9. QED
    BY <2>7, <2>8
<1>2. QED
  BY <1>1

\* Dates are in the order of their numbers.
LEMMA InOrderOfNumbers ==
  ASSUME NEW d \in RealDate, NEW e \in RealDate
  PROVE  /\ Number(d) \in Int
         /\ Before(d, e) <=> Number(d) < Number(e)
         /\ d = e \/ Before(d, e) \/ Before(e, d)
<1>1. /\ d.month \in 0 .. LastMonth /\ d.day \in 1 .. 31 /\ d.day <= DaysIn(d.month)
      /\ e.month \in 0 .. LastMonth /\ e.day \in 1 .. 31 /\ e.day <= DaysIn(e.month)
      /\ LastMonth \in Nat /\ d \in Calendar /\ e \in Calendar
  BY RealDates
<1>2. /\ DaysBefore[d.month] \in Nat /\ DaysBefore[e.month] \in Nat
      /\ DaysIn(d.month) \in 28 .. 31 /\ DaysIn(e.month) \in 28 .. 31
  BY <1>1, MonthsFollow, MonthLengths
<1>3. /\ d.month < e.month => DaysBefore[d.month] + DaysIn(d.month) <= DaysBefore[e.month]
      /\ e.month < d.month => DaysBefore[e.month] + DaysIn(e.month) <= DaysBefore[d.month]
  BY <1>1, MonthsApart
<1>4. Before(d, e) <=> Number(d) < Number(e)
  <2>1. CASE d.month < e.month
    BY <1>1, <1>2, <1>3, <2>1 DEF Before, Number
  <2>2. CASE e.month < d.month
    BY <1>1, <1>2, <1>3, <2>2 DEF Before, Number
  <2>3. CASE e.month = d.month
    BY <1>1, <1>2, <2>3 DEF Before, Number
  <2>4. QED
    BY <1>1, <2>1, <2>2, <2>3
<1>5. d.month = e.month /\ d.day = e.day => d = e
  BY <1>1 DEF Calendar
<1>6. d = e \/ Before(d, e) \/ Before(e, d)
  BY <1>1, <1>5 DEF Before
<1>7. QED
  BY <1>2, <1>1, <1>4, <1>6 DEF Number

\* What lies on a schedule, in the numbers of dates.
LEMMA OnScheduleIs ==
  ASSUME NEW f, NEW s, NEW d
  PROVE  OnSchedule(f, s, d) <=>
           IF f \in DOMAIN FrequencyDays THEN (Number(d) - Number(s)) % FrequencyDays[f] = 0
           ELSE d.day = s.day /\ (d.month - s.month) % FrequencyMonths[f] = 0
BY Zenon DEF OnSchedule, Number, DaysBefore, CountsDays

\* Two months are a multiple of k apart.
Apart(a, b, k) == (b - a) % k = 0

\* Multiples add up.
LEMMA Multiples ==
  ASSUME NEW a \in Int, NEW b \in Int, NEW c \in Int, NEW k \in {1, 3, 6, 12, 24}
  PROVE  /\ Apart(a, a, k)
         /\ Apart(a, b, k) /\ Apart(a, c, k) => Apart(b, c, k)
         /\ Apart(a, b, k) /\ Apart(b, c, k) => Apart(a, c, k)
<1>1. CASE k = 1
  BY <1>1 DEF Apart
<1>2. CASE k = 3
  BY <1>2 DEF Apart
<1>3. CASE k = 6
  BY <1>3 DEF Apart
<1>4. CASE k = 12
  BY <1>4 DEF Apart
<1>5. CASE k = 24
  BY <1>5 DEF Apart
<1>6. QED
  BY <1>1, <1>2, <1>3, <1>4, <1>5

\* A date is on its own schedule; schedules that share a date are one.
LEMMA SameSchedule ==
  ASSUME NEW f \in Recurring, NEW s \in RealDate, NEW d \in RealDate, NEW e \in RealDate
  PROVE  /\ OnSchedule(f, s, s)
         /\ OnSchedule(f, s, d) => (OnSchedule(f, s, e) <=> OnSchedule(f, d, e))
<1>1. /\ s.month \in Int /\ d.month \in Int /\ e.month \in Int
      /\ Number(s) \in Int /\ Number(d) \in Int /\ Number(e) \in Int
  BY RealDates, InOrderOfNumbers
<1>2. CASE f \in DOMAIN FrequencyDays
  <2>1. FrequencyDays[f] \in {1, 7}
    BY <1>2, PeriodLengths
  <2> HIDE DEF Number
  <2>2. QED
    BY <1>1, <1>2, <2>1, OnScheduleIs
<1>3. CASE f \notin DOMAIN FrequencyDays
  <2>1. PICK k \in {1, 3, 6, 12, 24} : k = FrequencyMonths[f]
    BY <1>3, PeriodLengths
  <2>2. \A x, y \in {s, d, e} :
          OnSchedule(f, x, y) <=> y.day = x.day /\ Apart(x.month, y.month, k)
    BY <1>3, <2>1, OnScheduleIs DEF Apart
  <2>3. k \in {1, 3, 6, 12, 24} /\ s.month \in Int /\ d.month \in Int /\ e.month \in Int
    BY <1>1, <2>1
  <2>4. Apart(s.month, s.month, k)
    BY <2>3, Multiples
  <2>5. /\ Apart(s.month, d.month, k) /\ Apart(s.month, e.month, k) => Apart(d.month, e.month, k)
        /\ Apart(s.month, d.month, k) /\ Apart(d.month, e.month, k) => Apart(s.month, e.month, k)
    <3>1. PICK a \in Int, b \in Int, c \in Int : a = s.month /\ b = d.month /\ c = e.month
      BY <2>3
    <3>2. Apart(a, b, k) /\ Apart(a, c, k) => Apart(b, c, k)
      BY <2>3, Multiples, SMT
    <3>3. Apart(a, b, k) /\ Apart(b, c, k) => Apart(a, c, k)
      BY <2>3, Multiples, SMT
    <3>4. QED
      BY <3>1, <3>2, <3>3
  <2>6. QED
    BY <2>2, <2>4, <2>5
<1>4. QED
  BY <1>2, <1>3

\* A day that every month has.
Steady(f, d) == f \in DOMAIN FrequencyDays \/ d.day <= 28

\* Where dates stand in the calendar, and how much of it is left.
Rank(e) == 32 * e.month + e.day
Left(e) == 32 * (LastMonth + 1) - Rank(e)

\* One period on is another date, and later: the calendar has room for it.
LEMMA PeriodInCalendar ==
  ASSUME NEW f \in Recurring, NEW e \in Calendar, e.month <= LastMonth - 24
  PROVE  /\ OnePeriodOn(f, e) \in Calendar
         /\ Left(OnePeriodOn(f, e)) < Left(e)
<1>1. /\ e = [month |-> e.month, day |-> e.day] /\ e.month \in 0 .. LastMonth /\ e.day \in 1 .. 31
      /\ LastMonth \in Nat
  BY RealDates DEF Calendar
<1>2. CASE f \in DOMAIN FrequencyDays
  <2>1. PICK k \in {1, 7} : k = FrequencyDays[f]
    BY <1>2, PeriodLengths
  <2>2. DaysIn(e.month) \in 28 .. 31
    BY <1>1, MonthLengths
  <2>3. OnePeriodOn(f, e) = AddDays(e, k)
    BY <1>2, <2>1 DEF OnePeriodOn
  <2>4. CASE e.day + k <= DaysIn(e.month)
    <3>1. AddDays(e, k) = [month |-> e.month, day |-> e.day + k]
      BY <1>1, <2>4 DEF AddDays
    <3>2. QED
      BY <1>1, <2>1, <2>2, <2>3, <2>4, <3>1 DEF Calendar, Left, Rank
  <2>5. CASE ~(e.day + k <= DaysIn(e.month))
    <3>1. AddDays(e, k) = [month |-> e.month + 1, day |-> e.day + k - DaysIn(e.month)]
      BY <2>5 DEF AddDays
    <3>2. QED
      BY <1>1, <2>1, <2>2, <2>3, <2>5, <3>1 DEF Calendar, Left, Rank
  <2>6. QED
    BY <2>4, <2>5
<1>3. CASE f \notin DOMAIN FrequencyDays
  <2>1. PICK k \in {1, 3, 6, 12, 24} : k = FrequencyMonths[f]
    BY <1>3, PeriodLengths
  <2>2. DaysIn(e.month + k) \in 28 .. 31
    BY <1>1, <2>1, MonthLengths
  <2>3. OnePeriodOn(f, e) = [month |-> e.month + k, day |-> EarlierOf(e.day, DaysIn(e.month + k))]
    BY <1>3, <2>1 DEF OnePeriodOn, AddMonths
  <2>4. QED
    BY <1>1, <2>1, <2>2, <2>3 DEF Calendar, Left, Rank, EarlierOf
<1>4. QED
  BY <1>2, <1>3

\* One period on from a date that exists is one that exists, later and, from a steady
\* date, the next on its schedule.
LEMMA PeriodMovesOn ==
  ASSUME NEW f \in Recurring, NEW e \in RealDate, e.month <= LastMonth - 24,
         NEW p, p = OnePeriodOn(f, e)
  PROVE  /\ p \in RealDate
         /\ Before(e, p)
         /\ Steady(f, e) =>
              /\ Steady(f, p) /\ OnSchedule(f, e, p)
              /\ \A d \in RealDate : OnSchedule(f, e, d) /\ Before(e, d) => d = p \/ Before(p, d)
<1>1. /\ e = [month |-> e.month, day |-> e.day] /\ e.month \in 0 .. LastMonth /\ e.day \in 1 .. 31
      /\ e.day <= DaysIn(e.month) /\ LastMonth \in Nat /\ e \in Calendar
  BY RealDates DEF Calendar
<1>2. p \in Calendar
  BY <1>1, PeriodInCalendar
<1>3. CASE f \in DOMAIN FrequencyDays
  <2>1. PICK k \in {1, 7} : k = FrequencyDays[f]
    BY <1>3, PeriodLengths
  <2>2. DaysIn(e.month) \in 28 .. 31 /\ DaysIn(e.month + 1) \in 28 .. 31
    BY <1>1, MonthLengths
  <2>3. p = AddDays(e, k)
    BY <1>3, <2>1 DEF OnePeriodOn
  <2>4. p \in RealDate /\ Before(e, p) /\ Number(p) = Number(e) + k
    <3>1. CASE e.day + k <= DaysIn(e.month)
      <4>1. p = [month |-> e.month, day |-> e.day + k]
        BY <1>1, <2>3, <3>1 DEF AddDays
      <4>2. DaysBefore[e.month] \in Nat
        BY <1>1, MonthsFollow
      <4>3. p \in RealDate
        BY <1>2, <3>1, <4>1, RealDates
      <4>4. QED
        BY <1>1, <2>1, <4>1, <4>2, <4>3 DEF Before, Number
    <3>2. CASE ~(e.day + k <= DaysIn(e.month))
      <4>1. p = [month |-> e.month + 1, day |-> e.day + k - DaysIn(e.month)]
        BY <2>3, <3>2 DEF AddDays
      <4>2. DaysBefore[e.month] \in Nat /\ DaysBefore[e.month + 1] = DaysBefore[e.month] + DaysIn(e.month)
        BY <1>1, MonthsFollow
      <4>3. p.day <= DaysIn(p.month)
        BY <1>1, <2>1, <2>2, <4>1
      <4>4. p \in RealDate
        BY <1>2, <4>3, RealDates
      <4>5. QED
        BY <1>1, <2>1, <2>2, <4>1, <4>2, <4>4 DEF Before, Number
    <3>3. QED
      BY <3>1, <3>2
  <2>5. OnSchedule(f, e, p)
    <3>1. Number(e) \in Int
      BY InOrderOfNumbers
    <3>2. (Number(p) - Number(e)) % k = 0
      <4> HIDE DEF Number
      <4>1. QED
        BY <2>1, <2>4, <3>1
    <3>3. QED
      BY <1>3, <2>1, <3>2, OnScheduleIs
  <2>6. ASSUME NEW d \in RealDate, OnSchedule(f, e, d), Before(e, d)
        PROVE  d = p \/ Before(p, d)
    <3>1. Number(e) \in Int /\ Number(d) \in Int /\ Number(e) < Number(d)
      BY <2>6, InOrderOfNumbers
    <3>2. (Number(d) - Number(e)) % k = 0
      BY <1>3, <2>1, <2>6, OnScheduleIs
    <3>3. ~(Number(d) < Number(p))
      <4> HIDE DEF Number
      <4>1. QED
        BY <2>1, <2>4, <3>1, <3>2
    <3>4. QED
      BY <2>4, <3>3, InOrderOfNumbers
  <2>7. QED
    BY <1>3, <2>4, <2>5, <2>6 DEF Steady
<1>4. CASE f \notin DOMAIN FrequencyDays
  <2>1. PICK k \in {1, 3, 6, 12, 24} : k = FrequencyMonths[f]
    BY <1>4, PeriodLengths
  <2>2. DaysIn(e.month + k) \in 28 .. 31
    BY <1>1, <2>1, MonthLengths
  <2>3. p = [month |-> e.month + k, day |-> EarlierOf(e.day, DaysIn(e.month + k))]
    BY <1>4, <2>1 DEF OnePeriodOn, AddMonths
  <2>4. p.day <= DaysIn(p.month)
    BY <1>1, <2>2, <2>3 DEF EarlierOf
  <2>5. p \in RealDate /\ Before(e, p)
    BY <1>1, <1>2, <2>1, <2>3, <2>4, RealDates DEF Before
  <2>6. ASSUME Steady(f, e) PROVE p.day = e.day /\ p.day <= 28 /\ OnSchedule(f, e, p)
    <3>1. p.day = e.day /\ p.day <= 28
      BY <1>1, <1>4, <2>2, <2>3, <2>6 DEF Steady, EarlierOf
    <3>2. (p.month - e.month) % k = 0
      BY <1>1, <2>1, <2>3
    <3>3. QED
      BY <1>4, <2>1, <3>1, <3>2, OnScheduleIs
  <2>7. ASSUME Steady(f, e), NEW d \in RealDate, OnSchedule(f, e, d), Before(e, d)
        PROVE  d = p \/ Before(p, d)
    <3>1. d.day = e.day /\ (d.month - e.month) % k = 0
      BY <1>4, <2>1, <2>7, OnScheduleIs
    <3>2. d.month \in 0 .. LastMonth /\ e.month < d.month /\ d.day \in 1 .. 31
      BY <1>1, <2>7, <3>1, RealDates DEF Before
    <3>3. e.month + k <= d.month
      BY <1>1, <2>1, <3>1, <3>2
    <3>4. QED
      BY <1>1, <2>1, <2>3, <2>5, <2>6, <2>7, <3>1, <3>2, <3>3, InOrderOfNumbers DEF Before
  <2>8. QED
    BY <2>5, <2>6, <2>7 DEF Steady
<1>5. QED
  BY <1>3, <1>4

\* A date that is not in the future leaves the calendar room for a period.
LEMMA RoomForAPeriod ==
  ASSUME NEW now \in Todays, NEW e \in Calendar, ~Before(now, e)
  PROVE  e.month <= LastMonth - 24
<1>1. now.month \in 0 .. LastMonth - 24 /\ LastMonth \in Nat /\ e.month \in 0 .. LastMonth
  BY ObligationParameters DEF Todays, DatesOf, Calendar
<1>2. QED
  BY <1>1 DEF Before

\* Dates are ordered.
LEMMA BeforeIsAnOrder ==
  ASSUME NEW c \in RealDate, NEW d \in RealDate, NEW e \in RealDate, Before(c, d)
  PROVE  /\ ~Before(d, c) /\ c # d
         /\ d = e \/ Before(d, e) => Before(c, e)
<1>1. /\ c.month \in Int /\ d.month \in Int /\ e.month \in Int
      /\ c.day \in Int /\ d.day \in Int /\ e.day \in Int
  BY RealDates
<1>2. QED
  BY <1>1 DEF Before

\* The walk of AdvanceDueDate from each date of S.
Walks(f, now, S, g) == g = [e \in S |-> IF Before(now, e) THEN e ELSE g[OnePeriodOn(f, e)]]

\* There is such a walk: it is extended back from the end of the calendar.
LEMMA WalkExists ==
  ASSUME NEW f \in Recurring, NEW now \in Todays
  PROVE  \E g : Walks(f, now, Calendar, g)
<1> DEFINE Last(n) == {e \in Calendar : Left(e) <= n}
           Bad == {n \in Nat : ~\E g : Walks(f, now, Last(n), g)}
<1>1. LastMonth \in Nat
  BY RealDates
<1>2. Bad = {}
  <2> SUFFICES ASSUME Bad # {} PROVE FALSE
    OBVIOUS
  <2>1. PICK n \in Bad : \A k \in Bad : n <= k
    <3>1. Bad \subseteq Nat
      OBVIOUS
    <3> HIDE DEF Bad
    <3>2. QED
      BY <3>1, LeastNumber
  <2>2. CASE n = 0
    <3>1. Last(0) = {}
      <4>1. \A e \in Calendar : e.month \in 0 .. LastMonth /\ e.day \in 1 .. 31
        BY DEF Calendar
      <4>2. QED
        BY <1>1, <4>1 DEF Left, Rank
    <3> DEFINE g == [e \in {} |-> e]
    <3>2. Walks(f, now, {}, g)
      BY DEF Walks
    <3> HIDE DEF g
    <3>3. QED
      BY <2>1, <2>2, <3>1, <3>2
  <2>3. CASE n # 0
    <3>1. n \in Nat /\ n - 1 \in Nat /\ ~(n <= n - 1)
      BY <2>1, <2>3
    <3>2. PICK g : Walks(f, now, Last(n - 1), g)
      BY <2>1, <3>1
    <3> DEFINE h == [e \in Last(n) |->
                       IF Before(now, e) THEN e
                       ELSE IF Left(e) = n THEN g[OnePeriodOn(f, e)] ELSE g[e]]
    <3>3. ASSUME NEW e \in Last(n)
          PROVE  h[e] = IF Before(now, e) THEN e ELSE h[OnePeriodOn(f, e)]
      <4>1. CASE Before(now, e)
        BY <4>1
      <4>2. CASE ~Before(now, e)
        <5>1. PICK p : p = OnePeriodOn(f, e)
          OBVIOUS
        <5>2. p \in Calendar /\ Left(p) < Left(e) /\ Left(e) <= n
          BY <4>2, <5>1, RoomForAPeriod, PeriodInCalendar
        <5>3. Left(p) \in Int /\ Left(e) \in Int
          BY <1>1, <5>2 DEF Left, Rank, Calendar
        <5>4. p \in Last(n - 1) /\ p \in Last(n) /\ Left(p) # n
          BY <3>1, <5>2, <5>3
        <5>5. g[p] = IF Before(now, p) THEN p ELSE g[OnePeriodOn(f, p)]
          BY <3>2, <5>4, Zenon DEF Walks
        <5>6. h[p] = IF Before(now, p) THEN p ELSE g[p]
          BY <5>4, Zenon
        <5>7. h[p] = g[p]
          BY <5>5, <5>6, Zenon
        <5>8. CASE Left(e) = n
          <6>1. h[e] = g[p]
            BY <4>2, <5>1, <5>8, Zenon
          <6>2. QED
            BY <4>2, <5>1, <5>7, <6>1, Zenon
        <5>9. CASE Left(e) # n
          <6>1. e \in Last(n - 1)
            BY <3>1, <5>2, <5>3, <5>9
          <6>2. g[e] = g[p]
            BY <3>2, <4>2, <5>1, <6>1, Zenon DEF Walks
          <6>3. h[e] = g[e]
            BY <4>2, <5>9, Zenon
          <6>4. QED
            BY <4>2, <5>1, <5>7, <6>2, <6>3, Zenon
        <5>10. QED
          BY <5>8, <5>9
      <4>3. QED
        BY <4>1, <4>2
    <3>4. h = [e \in Last(n) |-> h[e]]
      OBVIOUS
    <3> HIDE DEF h, Last
    <3>5. Walks(f, now, Last(n), h)
      BY <3>3, <3>4 DEF Walks
    <3>6. QED
      BY <2>1, <3>5
  <2>4. QED
    BY <2>2, <2>3
<1>3. PICK top : top = 32 * (LastMonth + 1)
  OBVIOUS
<1>4. top \in Nat /\ Last(top) = Calendar
  <2>1. \A e \in Calendar : e.month \in 0 .. LastMonth /\ e.day \in 1 .. 31
    BY DEF Calendar
  <2>2. \A e \in Calendar : Left(e) <= top
    BY <1>1, <1>3, <2>1 DEF Left, Rank
  <2>3. top \in Nat
    BY <1>1, <1>3
  <2>4. QED
    BY <2>2, <2>3
<1>5. \E g : Walks(f, now, Last(top), g)
  BY <1>2, <1>4
<1>6. QED
  BY <1>4, <1>5

\* Where the walk ends: a date in the future and, from a steady date, the first such
\* of its schedule.
LEMMA WalkEnds ==
  ASSUME NEW f \in Recurring, NEW now \in Todays, NEW g, Walks(f, now, Calendar, g),
         NEW e \in RealDate
  PROVE  /\ g[e] \in RealDate
         /\ Before(now, g[e])
         /\ g[e] = e \/ Before(e, g[e])
         /\ Steady(f, e) =>
              /\ Steady(f, g[e]) /\ OnSchedule(f, e, g[e])
              /\ \A d \in RealDate :
                   OnSchedule(f, e, d) /\ Before(now, d) /\ (d = e \/ Before(e, d)) =>
                     d = g[e] \/ Before(g[e], d)
<1> DEFINE Ends(x) ==
      /\ g[x] \in RealDate
      /\ Before(now, g[x])
      /\ g[x] = x \/ Before(x, g[x])
      /\ Steady(f, x) =>
           /\ Steady(f, g[x]) /\ OnSchedule(f, x, g[x])
           /\ \A d \in RealDate :
                OnSchedule(f, x, d) /\ Before(now, d) /\ (d = x \/ Before(x, d)) =>
                  d = g[x] \/ Before(g[x], d)
<1>1. LastMonth \in Nat /\ \A x \in RealDate : x \in Calendar /\ Left(x) \in Nat
  <2>1. \A x \in RealDate : x \in Calendar /\ x.month \in 0 .. LastMonth /\ x.day \in 1 .. 31
    BY RealDates
  <2>2. QED
    BY <2>1, RealDates DEF Left, Rank
<1>2. ASSUME NEW x \in RealDate, Before(now, x) PROVE Ends(x)
  <2>1. g[x] = x
    BY <1>1, <1>2 DEF Walks
  <2>2. OnSchedule(f, x, x)
    BY SameSchedule
  <2>3. QED
    BY <1>2, <2>1, <2>2
<1>3. ASSUME NEW x \in RealDate, ~Before(now, x), Ends(OnePeriodOn(f, x)) PROVE Ends(x)
  <2>1. PICK p : p = OnePeriodOn(f, x)
    OBVIOUS
  <2>2. Ends(p) /\ g[x] = g[p] /\ x.month <= LastMonth - 24
    BY <1>1, <1>3, <2>1, RoomForAPeriod DEF Walks
  <2>3. p \in RealDate /\ Before(x, p)
    BY <2>1, <2>2, PeriodMovesOn
  <2>4. Before(x, g[p])
    BY <2>2, <2>3, BeforeIsAnOrder
  <2>5. ASSUME Steady(f, x)
        PROVE  /\ Steady(f, g[p]) /\ OnSchedule(f, x, g[p])
               /\ \A d \in RealDate :
                    OnSchedule(f, x, d) /\ Before(now, d) /\ (d = x \/ Before(x, d)) =>
                      d = g[p] \/ Before(g[p], d)
    <3>1. /\ Steady(f, p) /\ OnSchedule(f, x, p)
          /\ \A d \in RealDate : OnSchedule(f, x, d) /\ Before(x, d) => d = p \/ Before(p, d)
      BY <2>1, <2>2, <2>5, PeriodMovesOn
    <3>2. \A d \in RealDate : OnSchedule(f, x, d) <=> OnSchedule(f, p, d)
      BY <2>3, <3>1, SameSchedule
    <3>3. QED
      BY <1>3, <2>2, <3>1, <3>2
  <2>6. QED
    BY <2>2, <2>4, <2>5
<1>4. ASSUME NEW x \in RealDate, ~Before(now, x)
      PROVE  OnePeriodOn(f, x) \in RealDate /\ Left(OnePeriodOn(f, x)) < Left(x)
  BY <1>1, <1>4, RoomForAPeriod, PeriodInCalendar, PeriodMovesOn
<1> HIDE DEF Ends
<1> DEFINE Bad == {n \in Nat : \E x \in RealDate : Left(x) = n /\ ~Ends(x)}
<1>5. Bad = {}
  <2> SUFFICES ASSUME Bad # {} PROVE FALSE
    OBVIOUS
  <2>1. PICK n \in Bad : \A k \in Bad : n <= k
    <3>1. Bad \subseteq Nat
      OBVIOUS
    <3> HIDE DEF Bad
    <3>2. QED
      BY <3>1, LeastNumber
  <2>2. PICK x \in RealDate : Left(x) = n /\ ~Ends(x)
    BY <2>1
  <2>3. ~Before(now, x)
    BY <1>2, <2>2
  <2>4. PICK p : p = OnePeriodOn(f, x) /\ p \in RealDate /\ Left(p) < n
    BY <1>4, <2>2, <2>3
  <2>5. Left(p) \in Nat /\ Left(p) \notin Bad
    <3>1. Left(p) \in Nat /\ n \in Nat
      BY <1>1, <2>1, <2>4
    <3> HIDE DEF Bad
    <3>2. QED
      BY <2>1, <2>4, <3>1
  <2>6. Ends(p)
    BY <2>4, <2>5
  <2>7. QED
    BY <1>3, <2>2, <2>3, <2>4, <2>6
<1>6. Ends(e)
  BY <1>1, <1>5
<1>7. QED
  BY <1>6 DEF Ends

\* Things happen on dates that exist.
LEMMA TodaysAreReal ==
  \A now \in Todays : now \in RealDate /\ now.month <= LastMonth - 24
<1> SUFFICES ASSUME NEW now \in Todays
             PROVE  now \in RealDate /\ now.month <= LastMonth - 24
  OBVIOUS
<1>1. /\ now \in [month : EventMonths, day : EventDays] /\ now.day <= DaysIn(now.month)
      /\ EventMonths \subseteq 0 .. LastMonth - 24 /\ EventDays \subseteq 1 .. 31
      /\ LastMonth \in Nat
  BY ObligationParameters DEF Todays, DatesOf
<1>2. now.month \in 0 .. LastMonth - 24 /\ now.day \in 1 .. 31
      /\ now = [month |-> now.month, day |-> now.day]
  BY <1>1
<1>3. now \in Calendar
  BY <1>1, <1>2 DEF Calendar
<1>4. QED
  BY <1>1, <1>2, <1>3, RealDates

\* What attesting does to the date: it moves to one ahead and, from a steady date, to
\* the first of its schedule.
LEMMA AdvanceIsFirst ==
  ASSUME NEW f \in Recurring, NEW now \in Todays, NEW d \in RealDate \cup {NoDate},
         NEW start, start = (IF d = NoDate THEN now ELSE d), start.month <= LastMonth - 24,
         NEW a, a = AdvanceDueDate(f, d, now)
  PROVE  /\ start \in RealDate /\ a \in RealDate
         /\ Before(now, a) /\ Before(start, a)
         /\ Steady(f, start) =>
              /\ Steady(f, a) /\ OnSchedule(f, start, a)
              /\ \A c \in RealDate :
                   OnSchedule(f, start, c) /\ Before(now, c) /\ Before(start, c) =>
                     c = a \/ Before(a, c)
<1>1. start \in RealDate
  BY TodaysAreReal
<1>2. PICK p : p = OnePeriodOn(f, start)
  OBVIOUS
<1>3. /\ p \in RealDate /\ Before(start, p)
      /\ Steady(f, start) =>
           /\ Steady(f, p) /\ OnSchedule(f, start, p)
           /\ \A c \in RealDate : OnSchedule(f, start, c) /\ Before(start, c) => c = p \/ Before(p, c)
  BY <1>1, <1>2, PeriodMovesOn
<1>4. PICK g : g = CHOOSE h : Walks(f, now, Calendar, h)
  OBVIOUS
<1>5. Walks(f, now, Calendar, g)
  BY <1>4, WalkExists
<1>6. a = g[p]
  BY <1>2, <1>4, Zenon DEF AdvanceDueDate, Walks
<1>7. /\ a \in RealDate /\ Before(now, a) /\ (a = p \/ Before(p, a))
      /\ Steady(f, p) =>
           /\ Steady(f, a) /\ OnSchedule(f, p, a)
           /\ \A c \in RealDate :
                OnSchedule(f, p, c) /\ Before(now, c) /\ (c = p \/ Before(p, c)) =>
                  c = a \/ Before(a, c)
  BY <1>3, <1>5, <1>6, WalkEnds
<1>8. Before(start, a)
  BY <1>1, <1>3, <1>7, BeforeIsAnOrder
<1>9. ASSUME Steady(f, start)
      PROVE  /\ Steady(f, a) /\ OnSchedule(f, start, a)
             /\ \A c \in RealDate :
                  OnSchedule(f, start, c) /\ Before(now, c) /\ Before(start, c) =>
                    c = a \/ Before(a, c)
  <2>1. \A c \in RealDate : OnSchedule(f, start, c) <=> OnSchedule(f, p, c)
    BY <1>1, <1>3, <1>9, SameSchedule
  <2>2. QED
    BY <1>3, <1>7, <1>9, <2>1
<1>10. QED
  BY <1>1, <1>7, <1>8, <1>9

\* The inductive invariant: dates exist, a due date has an anchor, and a recurring due
\* date with a day that every month has is on the schedule of its anchor.
OnAnchor ==
  frequency # "none" /\ due # NoDate /\ Steady(frequency, anchor) =>
    OnSchedule(frequency, anchor, due) /\ Steady(frequency, due)
ObligationIInv ==
  /\ frequency \in Frequency \cup {"none"} /\ today \in Todays
  /\ due \in RealDate \cup {NoDate} /\ anchor \in RealDate \cup {NoDate}
  /\ due = NoDate <=> anchor = NoDate
  /\ OnAnchor

\* Frequencies recur, and nothing that exists is NoDate.
LEMMA ObligationConstants ==
  /\ Frequency \subseteq Recurring /\ "none" \notin Recurring
  /\ NoDate \notin RealDate /\ Dates \subseteq RealDate /\ RealDate \subseteq Calendar
<1>1. RealDate \subseteq Calendar /\ NoDate \notin Calendar
  BY RealDates, ObligationParameters
<1>2. Dates \subseteq RealDate
  BY ObligationParameters DEF Dates, RealDate, DatesOf
<1>3. QED
  BY <1>1, <1>2, ObligationParameters, PeriodLengths DEF Recurring

\* The invariant holds of every obligation that is created.
LEMMA ObligationIInvInit == ObligationInit => ObligationIInv
<1> SUFFICES ASSUME ObligationInit PROVE ObligationIInv
  OBVIOUS
<1>1. /\ today \in Todays /\ frequency \in Frequency \cup {"none"} /\ anchor = due
  BY DEF ObligationInit
<1>2. PICK d \in Dates \cup {NoDate} :
        due = IF d = NoDate /\ frequency # "none" THEN AdvanceDueDate(frequency, NoDate, today) ELSE d
  BY DEF ObligationInit
<1>3. due \in RealDate \cup {NoDate}
  <2>1. CASE d = NoDate /\ frequency # "none"
    <3>1. frequency \in Recurring /\ today.month <= LastMonth - 24
      BY <1>1, <2>1, ObligationConstants, TodaysAreReal
    <3>2. due = AdvanceDueDate(frequency, NoDate, today)
      BY <1>2, <2>1
    <3>3. due \in RealDate
      BY <1>1, <3>1, <3>2, AdvanceIsFirst
    <3>4. QED
      BY <3>3
  <2>2. CASE ~(d = NoDate /\ frequency # "none")
    BY <1>2, <2>2, ObligationConstants
  <2>3. QED
    BY <2>1, <2>2
<1>4. OnAnchor
  BY <1>1, <1>3, ObligationConstants, SameSchedule DEF OnAnchor
<1>5. QED
  BY <1>1, <1>3, <1>4 DEF ObligationIInv

\* What an attestation to a recurring obligation does.
LEMMA AttestMoves ==
  ASSUME ObligationIInv, Attest, frequency # "none"
  PROVE  /\ due' \in RealDate
         /\ Before(today, due')
         /\ due # NoDate => Before(due, due')
         /\ due # NoDate /\ Steady(frequency, anchor) =>
              /\ Steady(frequency, due') /\ OnSchedule(frequency, anchor, due')
              /\ \A c \in RealDate :
                   OnSchedule(frequency, anchor, c) /\ Before(today, c) /\ Before(due, c) =>
                     c = due' \/ Before(due', c)
<1>1. /\ frequency \in Recurring /\ today \in Todays /\ due \in RealDate \cup {NoDate}
      /\ due # NoDate => due \in RealDate /\ anchor \in RealDate
      /\ OnAnchor
  BY ObligationConstants DEF ObligationIInv
<1>2. due' = AdvanceDueDate(frequency, due, today) /\ (due # NoDate => due.month <= LastMonth - 24)
  BY DEF Attest
<1>3. PICK start : start = IF due = NoDate THEN today ELSE due
  OBVIOUS
<1>4. start.month <= LastMonth - 24
  BY <1>1, <1>2, <1>3, TodaysAreReal
<1>5. PICK a : a = due'
  OBVIOUS
<1>6. /\ a \in RealDate /\ Before(today, a) /\ Before(start, a)
      /\ Steady(frequency, start) =>
           /\ Steady(frequency, a) /\ OnSchedule(frequency, start, a)
           /\ \A c \in RealDate :
                OnSchedule(frequency, start, c) /\ Before(today, c) /\ Before(start, c) =>
                  c = a \/ Before(a, c)
  BY <1>1, <1>2, <1>3, <1>4, <1>5, AdvanceIsFirst
<1>7. ASSUME due # NoDate, Steady(frequency, anchor)
      PROVE  /\ Steady(frequency, a) /\ OnSchedule(frequency, anchor, a)
             /\ \A c \in RealDate :
                  OnSchedule(frequency, anchor, c) /\ Before(today, c) /\ Before(due, c) =>
                    c = a \/ Before(a, c)
  <2>1. start = due /\ OnSchedule(frequency, anchor, due) /\ Steady(frequency, due)
    BY <1>1, <1>3, <1>7 DEF OnAnchor
  <2>2. \A c \in RealDate : OnSchedule(frequency, anchor, c) <=> OnSchedule(frequency, due, c)
    BY <1>1, <1>7, <2>1, SameSchedule
  <2>3. QED
    BY <1>6, <2>1, <2>2
<1>8. due # NoDate => Before(due, a)
  BY <1>3, <1>6
<1>9. QED
  BY <1>5, <1>6, <1>7, <1>8

\* Every step preserves the invariant.
LEMMA ObligationIInvNext == ObligationIInv /\ [ObligationNext]_obligationVars => ObligationIInv'
<1> SUFFICES ASSUME ObligationIInv, [ObligationNext]_obligationVars PROVE ObligationIInv'
  OBVIOUS
<1>1. /\ frequency \in Frequency \cup {"none"} /\ today \in Todays
      /\ due \in RealDate \cup {NoDate} /\ anchor \in RealDate \cup {NoDate}
      /\ due = NoDate <=> anchor = NoDate
      /\ OnAnchor
  BY DEF ObligationIInv
<1>2. ASSUME NEW f \in Frequency \cup {frequency}, NEW d \in Dates \cup {NoDate}, EditObligation(f, d)
      PROVE  ObligationIInv'
  <2>1. /\ frequency' \in Frequency \cup {"none"} /\ today' = today /\ anchor' = due'
        /\ due' \in RealDate \cup {NoDate}
    BY <1>1, <1>2, ObligationConstants DEF EditObligation
  <2>2. OnAnchor'
    BY <2>1, ObligationConstants, SameSchedule DEF OnAnchor
  <2>3. QED
    BY <1>1, <2>1, <2>2 DEF ObligationIInv
<1>3. CASE Attest
  <2>1. /\ frequency' = frequency /\ today' = today
        /\ anchor' = IF anchor = NoDate THEN due' ELSE anchor
    BY <1>3 DEF Attest
  <2>2. CASE frequency = "none"
    <3>1. due' = due
      BY <1>3, <2>2 DEF Attest
    <3>2. QED
      BY <1>1, <2>1, <2>2, <3>1 DEF ObligationIInv, OnAnchor
  <2>3. CASE frequency # "none"
    <3>1. /\ due' \in RealDate
          /\ due # NoDate /\ Steady(frequency, anchor) =>
               Steady(frequency, due') /\ OnSchedule(frequency, anchor, due')
      BY <1>3, <2>3, AttestMoves
    <3>2. frequency \in Recurring
      BY <1>1, <2>3, ObligationConstants
    <3>3. OnAnchor'
      <4>1. CASE anchor = NoDate
        <5>1. anchor' = due'
          BY <2>1, <4>1
        <5>2. QED
          BY <2>1, <3>1, <3>2, <5>1, SameSchedule DEF OnAnchor
      <4>2. CASE anchor # NoDate
        <5>1. anchor' = anchor /\ due # NoDate
          BY <1>1, <2>1, <4>2
        <5>2. QED
          BY <2>1, <3>1, <5>1 DEF OnAnchor
      <4>3. QED
        BY <4>1, <4>2
    <3>4. anchor' \in RealDate /\ due' # NoDate /\ anchor' # NoDate
      BY <1>1, <2>1, <3>1, ObligationConstants
    <3>5. QED
      BY <1>1, <2>1, <3>1, <3>3, <3>4 DEF ObligationIInv
  <2>4. QED
    BY <2>2, <2>3
<1>4. CASE DaysPass
  <2>1. today' \in Todays /\ UNCHANGED <<frequency, due, anchor>>
    BY <1>4 DEF DaysPass
  <2>2. QED
    BY <1>1, <2>1 DEF ObligationIInv, OnAnchor
<1>5. CASE UNCHANGED obligationVars
  BY <1>1, <1>5 DEF ObligationIInv, OnAnchor, obligationVars
<1>6. QED
  BY <1>2, <1>3, <1>4, <1>5 DEF ObligationNext

\* It holds throughout.
LEMMA ObligationIInvAlways == ObligationSpec => []ObligationIInv
<1>1. QED
  BY ObligationIInvInit, ObligationIInvNext, PTL DEF ObligationSpec

\* The model's states have their types: every due date is in the calendar, however far
\* advanceDueDate (routes/obligations.js) walks it.
THEOREM ObligationTypes == ObligationSpec => []ObligationTypeOK
<1>1. ObligationIInv => ObligationTypeOK
  BY ObligationConstants DEF ObligationIInv, ObligationTypeOK
<1>2. QED
  BY <1>1, ObligationIInvAlways, PTL

\* However late, early or often it is attested to, a recurring obligation falls due
\* next on the first date of its anchored schedule after the old one and today, for
\* every frequency and every calendar.
THEOREM AttestingSkipsNothing == ObligationSpec => FirstDateAhead
<1>1. ASSUME ObligationIInv, [ObligationNext]_obligationVars,
             frequency # "none", due # NoDate,
             frequency \in DOMAIN FrequencyDays \/ anchor.day <= 28, Attest
      PROVE  /\ OnSchedule(frequency, anchor, due')
             /\ Before(due, due') /\ Before(today, due')
             /\ \A d \in DatesOf(due.month .. due'.month, 1 .. 31) :
                  Before(d, due') /\ OnSchedule(frequency, anchor, d) =>
                    ~(Before(due, d) /\ Before(today, d))
  <2>1. Steady(frequency, anchor) /\ due \in RealDate
    BY <1>1 DEF Steady, ObligationIInv
  <2>2. /\ due' \in RealDate /\ OnSchedule(frequency, anchor, due')
        /\ Before(today, due') /\ Before(due, due')
        /\ \A c \in RealDate :
             OnSchedule(frequency, anchor, c) /\ Before(today, c) /\ Before(due, c) =>
               c = due' \/ Before(due', c)
    BY <1>1, <2>1, AttestMoves
  <2>3. DatesOf(due.month .. due'.month, 1 .. 31) \subseteq RealDate
    <3>1. due.month \in 0 .. LastMonth /\ due'.month \in 0 .. LastMonth /\ LastMonth \in Nat
      BY <2>1, <2>2, RealDates
    <3>2. due.month .. due'.month \subseteq 0 .. LastMonth
      BY <3>1
    <3>3. QED
      BY <3>2 DEF DatesOf, RealDate
  <2>4. ASSUME NEW d \in RealDate, Before(d, due') PROVE ~(d = due' \/ Before(due', d))
    BY <2>2, <2>4, BeforeIsAnOrder
  <2>5. QED
    BY <2>2, <2>3, <2>4
<1>2. ObligationIInv /\ [ObligationNext]_obligationVars =>
        [frequency # "none" /\ due # NoDate
         /\ (frequency \in DOMAIN FrequencyDays \/ anchor.day <= 28) /\ Attest =>
           LET ahead(d) == Before(due, d) /\ Before(today, d) IN
           /\ OnSchedule(frequency, anchor, due') /\ ahead(due')
           /\ \A d \in DatesOf(due.month .. due'.month, 1 .. 31) :
                Before(d, due') /\ OnSchedule(frequency, anchor, d) => ~ahead(d)]_obligationVars
  BY <1>1
<1>3. QED
  BY <1>2, ObligationIInvAlways, PTL DEF ObligationSpec, FirstDateAhead

-----------------------------------------------------------------------------
(***************************************************************************)
(* WebhookDelivery: attempts are accounted for                             *)
(***************************************************************************)

FlushRow == [phase : {"idle", "send", "delivered", "failed"}, rows : Counts]

WebhooksTyped ==
  /\ deliveries \in Seq(Delivery)
  /\ flush \in [Flusher -> FlushRow]
  /\ \A f \in Flusher :
       /\ flush[f].phase = "idle" <=> ToSend(f) = {}
       /\ ToSend(f) \subseteq DOMAIN deliveries
  /\ flushes \in Nat /\ flushOverlap \in BOOLEAN

\* A flush has sent the delivery and has not written the outcome.
Posted(f, i) == flush[f].phase \in {"delivered", "failed"} /\ Sending(f) = i

\* No flush has read a count that runs ahead of the POSTs.
NoneAhead ==
  /\ \A i \in DOMAIN deliveries : deliveries[i].attempts <= deliveries[i].sends
  /\ \A f \in Flusher : \A i \in ToSend(f) :
       /\ flush[f].rows[i] <= deliveries[i].sends
       /\ Posted(f, i) => flush[f].rows[i] + 1 <= deliveries[i].sends

\* As long as flushes do not overlap: there is one, what it has in hand is up to
\* date and not delivered, and what is sent, acknowledged and not written is counted.
FlushInOrder ==
  /\ \A f, g \in Flusher : flush[f].phase # "idle" /\ flush[g].phase # "idle" => f = g
  /\ \A f \in Flusher : \A i \in ToSend(f) :
       /\ flush[f].rows[i] = deliveries[i].attempts
       /\ deliveries[i].status # "delivered"
  /\ \A i \in DOMAIN deliveries :
       LET d == deliveries[i] IN
       /\ d.sends <= d.attempts + d.lost + 1
       /\ (\A f \in Flusher : ~Posted(f, i)) => d.sends <= d.attempts + d.lost
       /\ d.acks <= 1 + d.lost
       /\ d.status # "delivered" /\ (\A f \in Flusher : flush[f].phase = "delivered" => ~Posted(f, i))
          => d.acks <= d.lost

WebhooksIInv == WebhooksTyped /\ NoneAhead /\ (~flushOverlap => FlushInOrder)

\* Counts of no row.
LEMMA IdleFlush ==
  NoFlush \in FlushRow /\ NoFlush.phase = "idle" /\ DOMAIN NoFlush.rows = {}
<1>1. <<>> \in [{} -> Nat]
  OBVIOUS
<1>2. <<>> \in Counts
  BY <1>1, FunctionsAreCounts
<1>3. QED
  BY <1>1, <1>2 DEF NoFlush, FlushRow

\* What is counted of a delivery.
LEMMA DeliveryCounts ==
  ASSUME WebhooksTyped, NEW k \in DOMAIN deliveries
  PROVE  /\ deliveries[k] \in Delivery
         /\ deliveries[k].sends \in Nat /\ deliveries[k].attempts \in Nat
         /\ deliveries[k].acks \in Nat /\ deliveries[k].lost \in Nat
<1>1. deliveries[k] \in Delivery
  BY DEF WebhooksTyped
<1>2. QED
  BY <1>1 DEF Delivery

\* A flush in flight sends one of its rows.
LEMMA SendingInHand ==
  ASSUME WebhooksTyped, NEW f \in Flusher, flush[f].phase # "idle"
  PROVE  /\ Sending(f) \in ToSend(f) /\ Sending(f) \in DOMAIN deliveries
         /\ flush[f].rows[Sending(f)] \in Nat
<1>1. flush[f].rows \in Counts
  BY DEF WebhooksTyped, FlushRow
<1>2. ToSend(f) \subseteq Nat /\ ToSend(f) # {}
  BY <1>1, CountsAreFunctions DEF ToSend, WebhooksTyped
<1>3. QED
  BY <1>1, <1>2, MinIsLeast, CountsAreFunctions DEF Sending, ToSend, WebhooksTyped

\* An UPDATE of one delivery.
LEMMA DeliveryWritten ==
  ASSUME NEW s \in Seq(Delivery), NEW i \in DOMAIN s, NEW row \in Delivery
  PROVE  LET t == [s EXCEPT ![i] = row] IN
         /\ t \in Seq(Delivery) /\ DOMAIN t = DOMAIN s /\ t[i] = row
         /\ \A k \in DOMAIN s : k # i => t[k] = s[k]
OBVIOUS

\* Nothing has been enqueued at first.
LEMMA WebhooksInitially == WebhooksInit => WebhooksIInv
<1> SUFFICES ASSUME WebhooksInit PROVE WebhooksIInv
  OBVIOUS
<1>1. deliveries = <<>> /\ <<>> \in Seq(Delivery) /\ DOMAIN deliveries = {}
  BY DEF WebhooksInit
<1>2. flush \in [Flusher -> FlushRow] /\ flushes = 0 /\ flushOverlap = FALSE
  BY IdleFlush DEF WebhooksInit
<1>3. \A f \in Flusher : flush[f].phase = "idle" /\ ToSend(f) = {}
  BY IdleFlush DEF WebhooksInit, ToSend
<1>4. WebhooksTyped
  BY <1>1, <1>2, <1>3 DEF WebhooksTyped
<1>5. NoneAhead /\ FlushInOrder
  BY <1>1, <1>3 DEF NoneAhead, FlushInOrder
<1>6. QED
  BY <1>4, <1>5 DEF WebhooksIInv

\* A delivery is enqueued, and has not been sent.
LEMMA EnqueueDeliveryStep ==
  ASSUME WebhooksIInv, EnqueueDelivery
  PROVE  WebhooksIInv'
<1> DEFINE row == [status |-> "pending", due |-> TRUE, attempts |-> 0, sends |-> 0, acks |-> 0,
                   lost |-> 0]
<1>1. /\ deliveries' = Append(deliveries, row) /\ UNCHANGED <<flush, flushes, flushOverlap>>
      /\ row \in Delivery /\ deliveries \in Seq(Delivery)
      /\ row.attempts = 0 /\ row.sends = 0 /\ row.acks = 0 /\ row.lost = 0
  BY DEF EnqueueDelivery, Delivery, WebhooksIInv, WebhooksTyped
<1> HIDE DEF row
<1>2. /\ deliveries' \in Seq(Delivery) /\ DOMAIN deliveries \subseteq DOMAIN deliveries'
      /\ \A i \in DOMAIN deliveries : deliveries'[i] = deliveries[i]
      /\ \A i \in DOMAIN deliveries' \ DOMAIN deliveries : deliveries'[i] = row
  BY <1>1
<1>3. WebhooksTyped'
  BY <1>1, <1>2 DEF WebhooksIInv, WebhooksTyped, ToSend
<1>4. \A f \in Flusher : \A i \in ToSend(f) : i \in DOMAIN deliveries
  BY DEF WebhooksIInv, WebhooksTyped
<1>5. \A f \in Flusher : \A i : Posted(f, i)' <=> Posted(f, i)
  BY <1>1 DEF Posted, Sending, ToSend
<1>6. NoneAhead'
  BY <1>1, <1>2, <1>4, <1>5 DEF WebhooksIInv, NoneAhead, ToSend
<1>7. ASSUME FlushInOrder PROVE FlushInOrder'
  <2>1. ASSUME NEW i \in DOMAIN deliveries'
        PROVE  LET d == deliveries'[i] IN
               /\ d.sends <= d.attempts + d.lost + 1
               /\ (\A f \in Flusher : ~Posted(f, i)) => d.sends <= d.attempts + d.lost
               /\ d.acks <= 1 + d.lost
               /\ d.status # "delivered"
                  /\ (\A f \in Flusher : flush[f].phase = "delivered" => ~Posted(f, i))
                  => d.acks <= d.lost
    <3>1. CASE i \in DOMAIN deliveries
      BY <1>2, <1>7, <3>1 DEF FlushInOrder
    <3>2. CASE i \notin DOMAIN deliveries
      BY <1>1, <1>2, <3>2
    <3>3. QED
      BY <3>1, <3>2
  <2>2. QED
    BY <1>1, <1>2, <1>4, <1>5, <1>7, <2>1 DEF FlushInOrder, ToSend
<1>8. QED
  BY <1>1, <1>3, <1>6, <1>7 DEF WebhooksIInv

\* What has failed comes due again.
LEMMA BackoffEndsStep ==
  ASSUME WebhooksIInv, NEW i \in DOMAIN deliveries, BackoffEnds(i)
  PROVE  WebhooksIInv'
<1> DEFINE row == [deliveries[i] EXCEPT !.due = TRUE]
<1>1. /\ deliveries' = [deliveries EXCEPT ![i] = row]
      /\ UNCHANGED <<flush, flushes, flushOverlap>>
      /\ deliveries \in Seq(Delivery) /\ deliveries[i] \in Delivery
  BY DEF BackoffEnds, WebhooksIInv, WebhooksTyped
<1>2. /\ row \in Delivery /\ row.status = deliveries[i].status
      /\ row.attempts = deliveries[i].attempts /\ row.sends = deliveries[i].sends
      /\ row.acks = deliveries[i].acks /\ row.lost = deliveries[i].lost
  BY <1>1 DEF Delivery
<1> HIDE DEF row
<1>3. /\ deliveries' \in Seq(Delivery) /\ DOMAIN deliveries' = DOMAIN deliveries
      /\ \A k \in DOMAIN deliveries :
           /\ deliveries'[k].status = deliveries[k].status
           /\ deliveries'[k].attempts = deliveries[k].attempts
           /\ deliveries'[k].sends = deliveries[k].sends
           /\ deliveries'[k].acks = deliveries[k].acks
           /\ deliveries'[k].lost = deliveries[k].lost
  BY <1>1, <1>2, DeliveryWritten
<1>4. WebhooksTyped'
  BY <1>1, <1>3 DEF WebhooksIInv, WebhooksTyped, ToSend
<1>5. \A f \in Flusher : \A k \in ToSend(f) : k \in DOMAIN deliveries
  BY DEF WebhooksIInv, WebhooksTyped
<1>6. \A f \in Flusher : \A k : Posted(f, k)' <=> Posted(f, k)
  BY <1>1 DEF Posted, Sending, ToSend
<1>7. NoneAhead'
  BY <1>1, <1>3, <1>5, <1>6 DEF WebhooksIInv, NoneAhead, ToSend
<1>8. ASSUME FlushInOrder PROVE FlushInOrder'
  BY <1>1, <1>3, <1>5, <1>6, <1>8 DEF FlushInOrder, ToSend
<1>9. QED
  BY <1>1, <1>4, <1>7, <1>8 DEF WebhooksIInv

\* A flush reads what is due, with its attempts.
LEMMA ReadDeliveriesStep ==
  ASSUME WebhooksIInv, NEW f \in Flusher, NEW limit \in 1 .. FlushLimit, ReadDeliveries(f, limit)
  PROVE  WebhooksIInv'
<1> DEFINE rows == [i \in FlushBatch(limit) |-> deliveries[i].attempts]
           w == [phase |-> "send", rows |-> rows]
<1>1. /\ flush[f].phase = "idle" /\ Sendable # {} /\ UNCHANGED deliveries
      /\ flush' = [flush EXCEPT ![f] = w]
      /\ flushes' = flushes + 1 /\ flushOverlap' \in BOOLEAN
      /\ ~flushOverlap' => ~flushOverlap /\ \A g \in Flusher : flush[g].phase = "idle"
  BY DEF ReadDeliveries
<1>2. /\ FlushBatch(limit) \subseteq Sendable /\ Sendable \subseteq DOMAIN deliveries
      /\ \A i \in Sendable : deliveries[i].status # "delivered"
  BY DEF FlushBatch, Sendable
<1>3. /\ deliveries \in Seq(Delivery) /\ DOMAIN deliveries \subseteq Nat
      /\ \A i \in DOMAIN deliveries : deliveries[i] \in Delivery
  BY DEF WebhooksIInv, WebhooksTyped
<1>4. FlushBatch(limit) # {}
  <2>1. Min(Sendable) \in Sendable /\ \A i \in Sendable : Min(Sendable) <= i
    BY <1>1, <1>2, <1>3, MinIsLeast
  <2>2. {k \in Sendable : k < Min(Sendable)} = {}
    BY <1>2, <1>3, <2>1
  <2>3. Cardinality({k \in Sendable : k < Min(Sendable)}) = 0
    BY <2>2, FS_EmptySet
  <2>4. QED
    BY <2>1, <2>3, WebhookParameters DEF FlushBatch
<1>5. w \in FlushRow /\ w.phase = "send" /\ w.rows = rows
  <2>1. rows \in [FlushBatch(limit) -> Nat] /\ FlushBatch(limit) \subseteq Nat
    BY <1>2, <1>3 DEF Delivery
  <2>2. rows \in Counts
    BY <2>1, FunctionsAreCounts
  <2>3. QED
    BY <2>2 DEF FlushRow
<1>6. /\ DOMAIN rows = FlushBatch(limit)
      /\ \A i \in FlushBatch(limit) : rows[i] = deliveries[i].attempts
  OBVIOUS
<1> HIDE DEF w, rows
<1>7. \A g \in Flusher : flush'[g] = IF g = f THEN w ELSE flush[g]
  BY <1>1 DEF WebhooksIInv, WebhooksTyped
<1>8. WebhooksTyped'
  BY <1>1, <1>2, <1>4, <1>5, <1>6, <1>7 DEF WebhooksIInv, WebhooksTyped, ToSend
<1>9. /\ ToSend(f)' = FlushBatch(limit)
      /\ \A g \in Flusher \ {f} : ToSend(g)' = ToSend(g) /\ Sending(g)' = Sending(g)
  BY <1>5, <1>6, <1>7 DEF ToSend, Sending
<1>10. \A g \in Flusher : \A i : Posted(g, i)' <=> Posted(g, i)
  BY <1>1, <1>5, <1>7, <1>9 DEF Posted
<1>11. NoneAhead'
  <2>1. ASSUME NEW g \in Flusher, NEW i \in ToSend(g)'
        PROVE  /\ flush'[g].rows[i] <= deliveries'[i].sends
               /\ Posted(g, i)' => flush'[g].rows[i] + 1 <= deliveries'[i].sends
    <3>1. CASE g = f
      BY <1>1, <1>2, <1>5, <1>6, <1>7, <1>9, <1>10, <2>1, <3>1 DEF WebhooksIInv, NoneAhead, Posted
    <3>2. CASE g # f
      BY <1>1, <1>7, <1>9, <1>10, <2>1, <3>2 DEF WebhooksIInv, NoneAhead
    <3>3. QED
      BY <3>1, <3>2
  <2>2. QED
    BY <1>1, <2>1 DEF WebhooksIInv, NoneAhead
<1>12. ASSUME ~flushOverlap' PROVE FlushInOrder'
  <2>1. FlushInOrder /\ \A g \in Flusher : flush[g].phase = "idle"
    BY <1>1, <1>12 DEF WebhooksIInv
  <2>2. \A g \in Flusher \ {f} : ToSend(g)' = {}
    BY <1>9, <2>1 DEF WebhooksIInv, WebhooksTyped
  <2>3. \A g \in Flusher : \A i \in ToSend(g)' :
          flush'[g].rows[i] = deliveries'[i].attempts /\ deliveries'[i].status # "delivered"
    BY <1>1, <1>2, <1>5, <1>6, <1>7, <1>9, <2>2
  <2>4. \A g \in Flusher : flush'[g].phase \in {"idle", "send"}
    BY <1>5, <1>7, <2>1
  <2>5. \A i \in DOMAIN deliveries :
          LET d == deliveries[i] IN
          /\ d.sends <= d.attempts + d.lost + 1 /\ d.sends <= d.attempts + d.lost
          /\ d.acks <= 1 + d.lost /\ (d.status # "delivered" => d.acks <= d.lost)
    BY <2>1 DEF FlushInOrder, Posted
  <2>6. QED
    BY <1>1, <1>7, <2>1, <2>3, <2>4, <2>5 DEF FlushInOrder
<1>13. QED
  BY <1>8, <1>11, <1>12 DEF WebhooksIInv

\* A flush that stays at its row: it has posted it, or has not written the outcome.
LEMMA FlushStays ==
  ASSUME WebhooksIInv, NEW f \in Flusher, NEW row \in Delivery, flush[f].phase # "idle",
         NEW phase \in {"delivered", "failed"},
         deliveries' = [deliveries EXCEPT ![Sending(f)] = row],
         flush' = [flush EXCEPT ![f].phase = phase], UNCHANGED <<flushes, flushOverlap>>
  PROVE  /\ WebhooksTyped' /\ DOMAIN deliveries' = DOMAIN deliveries
         /\ Sending(f) \in DOMAIN deliveries /\ Sending(f) \in ToSend(f)
         /\ deliveries'[Sending(f)] = row
         /\ \A k \in DOMAIN deliveries : k # Sending(f) => deliveries'[k] = deliveries[k]
         /\ flush'[f].phase = phase /\ flush'[f].rows = flush[f].rows
         /\ \A g \in Flusher \ {f} : flush'[g] = flush[g]
         /\ \A g \in Flusher : ToSend(g)' = ToSend(g) /\ Sending(g)' = Sending(g)
         /\ \A i : Posted(f, i)' <=> i = Sending(f)
         /\ \A g \in Flusher \ {f}, i \in DOMAIN deliveries : Posted(g, i)' <=> Posted(g, i)
<1>1. PICK i : i = Sending(f)
  OBVIOUS
<1>2. i \in ToSend(f) /\ i \in DOMAIN deliveries
  BY <1>1, SendingInHand DEF WebhooksIInv
<1>3. deliveries \in Seq(Delivery) /\ flush \in [Flusher -> FlushRow]
  BY DEF WebhooksIInv, WebhooksTyped
<1>4. /\ deliveries' \in Seq(Delivery) /\ DOMAIN deliveries' = DOMAIN deliveries
      /\ deliveries'[i] = row
      /\ \A k \in DOMAIN deliveries : k # i => deliveries'[k] = deliveries[k]
  BY <1>1, <1>2, <1>3, DeliveryWritten
<1>5. /\ flush' \in [Flusher -> FlushRow] /\ flush'[f].phase = phase
      /\ \A g \in Flusher \ {f} : flush'[g] = flush[g]
      /\ \A g \in Flusher : flush'[g].rows = flush[g].rows
  BY <1>3 DEF FlushRow
<1>6. \A g \in Flusher : ToSend(g)' = ToSend(g) /\ Sending(g)' = Sending(g)
  BY <1>5 DEF ToSend, Sending
<1>7. WebhooksTyped'
  BY <1>4, <1>5, <1>6 DEF WebhooksIInv, WebhooksTyped
<1>8. QED
  BY <1>1, <1>2, <1>4, <1>5, <1>6, <1>7 DEF Posted

\* The event is sent, and the receiver may acknowledge it.
LEMMA PostStep ==
  ASSUME WebhooksIInv, NEW f \in Flusher, Post(f)
  PROVE  WebhooksIInv'
<1>1. PICK i : i = Sending(f)
  OBVIOUS
<1>2. flush[f].phase = "send" /\ UNCHANGED <<flushes, flushOverlap>>
  BY DEF Post
<1>3. /\ i \in ToSend(f) /\ i \in DOMAIN deliveries /\ deliveries[i] \in Delivery
      /\ flush[f].rows[i] \in Nat /\ deliveries \in Seq(Delivery)
  BY <1>1, <1>2, SendingInHand DEF WebhooksIInv, WebhooksTyped
<1>4. PICK ok \in BOOLEAN :
        /\ deliveries' = [deliveries EXCEPT
             ![i].sends = @ + 1, ![i].acks = IF ok THEN @ + 1 ELSE @]
        /\ flush' = [flush EXCEPT ![f].phase = IF ok THEN "delivered" ELSE "failed"]
  BY <1>1 DEF Post
<1> DEFINE phase == IF ok THEN "delivered" ELSE "failed"
           sends == deliveries[i].sends + 1
           acks == IF ok THEN deliveries[i].acks + 1 ELSE deliveries[i].acks
           row == [deliveries[i] EXCEPT !.sends = sends, !.acks = acks]
<1>5. /\ phase \in {"delivered", "failed"} /\ flush' = [flush EXCEPT ![f].phase = phase]
      /\ phase = "failed" => acks = deliveries[i].acks
      /\ sends \in Nat /\ acks \in Nat /\ acks <= deliveries[i].acks + 1
  BY <1>3, <1>4 DEF Delivery
<1>6. deliveries' = [deliveries EXCEPT ![i] = row]
  BY <1>3, <1>4 DEF Delivery
<1> HIDE DEF phase, acks
<1>7. /\ row \in Delivery /\ row.status = deliveries[i].status
      /\ row.attempts = deliveries[i].attempts /\ row.sends = deliveries[i].sends + 1
      /\ row.acks = acks /\ row.lost = deliveries[i].lost
  BY <1>3, <1>5 DEF Delivery
<1> HIDE DEF row, sends
<1>8. /\ WebhooksTyped' /\ DOMAIN deliveries' = DOMAIN deliveries /\ deliveries'[i] = row
      /\ \A k \in DOMAIN deliveries : k # i => deliveries'[k] = deliveries[k]
      /\ flush'[f].phase = phase /\ flush'[f].rows = flush[f].rows
      /\ \A g \in Flusher \ {f} : flush'[g] = flush[g]
      /\ \A g \in Flusher : ToSend(g)' = ToSend(g) /\ Sending(g)' = Sending(g)
      /\ \A k : Posted(f, k)' <=> k = i
      /\ \A g \in Flusher \ {f}, k \in DOMAIN deliveries : Posted(g, k)' <=> Posted(g, k)
  BY <1>1, <1>2, <1>5, <1>6, <1>7, FlushStays
<1>9. \A g \in Flusher : \A k \in ToSend(g) :
        k \in DOMAIN deliveries /\ deliveries[k] \in Delivery /\ flush[g].rows[k] \in Nat
  BY CountsAreFunctions DEF WebhooksIInv, WebhooksTyped, FlushRow, ToSend
<1>10. NoneAhead'
  <2>1. \A k \in DOMAIN deliveries : /\ deliveries[k] \in Delivery
                                     /\ deliveries'[k].attempts <= deliveries'[k].sends
                                     /\ deliveries[k].sends <= deliveries'[k].sends
    <3>1. ASSUME NEW k \in DOMAIN deliveries
          PROVE  /\ deliveries[k] \in Delivery /\ deliveries[k].sends \in Nat
                 /\ deliveries[k].attempts \in Nat /\ deliveries[k].attempts <= deliveries[k].sends
      BY DeliveryCounts DEF WebhooksIInv, NoneAhead
    <3>2. QED
      BY <1>3, <1>7, <1>8, <3>1
  <2>2. ASSUME NEW g \in Flusher, NEW k \in ToSend(g)
        PROVE  /\ flush'[g].rows[k] <= deliveries'[k].sends
               /\ Posted(g, k)' => flush'[g].rows[k] + 1 <= deliveries'[k].sends
    <3>1. /\ flush[g].rows[k] <= deliveries[k].sends /\ deliveries[k].sends \in Nat
          /\ Posted(g, k) => flush[g].rows[k] + 1 <= deliveries[k].sends
          /\ deliveries'[k].sends \in Nat /\ deliveries[k].sends <= deliveries'[k].sends
          /\ flush[g].rows[k] \in Nat /\ flush'[g].rows[k] = flush[g].rows[k]
      BY <1>7, <1>8, <1>9, <2>1 DEF WebhooksIInv, NoneAhead, Delivery
    <3>2. CASE g = f /\ k = i
      BY <1>7, <1>8, <3>1, <3>2
    <3>3. CASE g = f /\ k # i
      BY <1>8, <3>1, <3>3
    <3>4. CASE g # f
      BY <1>8, <1>9, <3>1, <3>4
    <3>5. QED
      BY <3>2, <3>3, <3>4
  <2>3. QED
    BY <1>8, <2>1, <2>2 DEF NoneAhead
<1>11. ASSUME FlushInOrder PROVE FlushInOrder'
  <2>1. \A g \in Flusher \ {f} : flush[g].phase = "idle" /\ ToSend(g) = {}
    BY <1>2, <1>11 DEF FlushInOrder, WebhooksIInv, WebhooksTyped
  <2>2. \A g \in Flusher, k \in DOMAIN deliveries : ~Posted(g, k)
    BY <1>2, <2>1 DEF Posted
  <2>3. \A g \in Flusher, k \in DOMAIN deliveries : Posted(g, k)' <=> g = f /\ k = i
    BY <1>8, <2>2
  <2>4. ASSUME NEW k \in DOMAIN deliveries
        PROVE  LET d == deliveries'[k] IN
               /\ d.sends <= d.attempts + d.lost + 1
               /\ k # i => d.sends <= d.attempts + d.lost
               /\ d.acks <= 1 + d.lost
               /\ d.status # "delivered" /\ ~(phase = "delivered" /\ k = i) => d.acks <= d.lost
    <3>1. LET d == deliveries[k] IN
          /\ d.sends <= d.attempts + d.lost /\ d.acks <= 1 + d.lost
          /\ d.status # "delivered" => d.acks <= d.lost
      BY <1>11, <2>2 DEF FlushInOrder
    <3>2. CASE k # i
      <4>1. /\ deliveries[k].sends \in Nat /\ deliveries[k].attempts \in Nat
            /\ deliveries[k].lost \in Nat
        BY DeliveryCounts DEF WebhooksIInv
      <4>2. QED
        BY <1>8, <3>1, <3>2, <4>1
    <3>3. CASE k = i
      <4>1. deliveries[i].status # "delivered"
        BY <1>3, <1>11 DEF FlushInOrder
      <4>2. /\ deliveries[i].sends \in Nat /\ deliveries[i].attempts \in Nat
            /\ deliveries[i].acks \in Nat /\ deliveries[i].lost \in Nat
        BY <1>3 DEF Delivery
      <4>3. QED
        BY <1>5, <1>7, <1>8, <3>1, <3>3, <4>1, <4>2
    <3>4. QED
      BY <3>2, <3>3
  <2>5. \A g \in Flusher : \A k \in ToSend(g)' :
          flush'[g].rows[k] = deliveries'[k].attempts /\ deliveries'[k].status # "delivered"
    BY <1>7, <1>8, <1>9, <1>11, <2>1 DEF FlushInOrder
  <2>6. \A g, h \in Flusher : flush'[g].phase # "idle" /\ flush'[h].phase # "idle" => g = h
    BY <1>8, <2>1
  <2>7. QED
    BY <1>8, <2>3, <2>4, <2>5, <2>6 DEF FlushInOrder
<1>12. QED
  BY <1>2, <1>8, <1>10, <1>11 DEF WebhooksIInv

\* An acknowledged delivery cannot be written, and is counted as lost.
LEMMA NotWrittenStep ==
  ASSUME WebhooksIInv, NEW f \in Flusher, DeliveredNotWritten(f)
  PROVE  WebhooksIInv'
<1>1. PICK i : i = Sending(f)
  OBVIOUS
<1>2. flush[f].phase = "delivered" /\ UNCHANGED <<flushes, flushOverlap>>
  BY DEF DeliveredNotWritten
<1>3. i \in ToSend(f) /\ i \in DOMAIN deliveries
  BY <1>1, <1>2, SendingInHand DEF WebhooksIInv
<1>4. /\ deliveries[i] \in Delivery /\ deliveries[i].sends \in Nat
      /\ deliveries[i].attempts \in Nat /\ deliveries[i].acks \in Nat
      /\ deliveries[i].lost \in Nat
  BY <1>3, DeliveryCounts DEF WebhooksIInv
<1> DEFINE lost == deliveries[i].lost + 1
           row == [deliveries[i] EXCEPT !.lost = lost]
<1>5. /\ flush' = [flush EXCEPT ![f].phase = "failed"]
      /\ deliveries' = [deliveries EXCEPT ![i] = row]
  BY <1>1 DEF DeliveredNotWritten
<1>6. lost \in Nat /\ lost = deliveries[i].lost + 1
  BY <1>4
<1> HIDE DEF lost
<1>7. /\ row \in Delivery /\ row.status = deliveries[i].status
      /\ row.attempts = deliveries[i].attempts /\ row.sends = deliveries[i].sends
      /\ row.acks = deliveries[i].acks /\ row.lost = lost
  BY <1>4, <1>6 DEF Delivery
<1> HIDE DEF row
<1>8. /\ WebhooksTyped' /\ DOMAIN deliveries' = DOMAIN deliveries /\ deliveries'[i] = row
      /\ \A k \in DOMAIN deliveries : k # i => deliveries'[k] = deliveries[k]
      /\ flush'[f].phase = "failed" /\ flush'[f].rows = flush[f].rows
      /\ \A g \in Flusher \ {f} : flush'[g] = flush[g]
      /\ \A g \in Flusher : ToSend(g)' = ToSend(g) /\ Sending(g)' = Sending(g)
      /\ \A k : Posted(f, k)' <=> k = i
      /\ \A g \in Flusher \ {f}, k \in DOMAIN deliveries : Posted(g, k)' <=> Posted(g, k)
  BY <1>1, <1>2, <1>5, <1>7, FlushStays
<1>9. \A k : Posted(f, k) <=> k = i
  BY <1>1, <1>2 DEF Posted
<1>10. \A g \in Flusher : \A k \in ToSend(g) : k \in DOMAIN deliveries
  BY DEF WebhooksIInv, WebhooksTyped
<1>11. \A k \in DOMAIN deliveries : /\ deliveries'[k].status = deliveries[k].status
                                    /\ deliveries'[k].attempts = deliveries[k].attempts
                                    /\ deliveries'[k].sends = deliveries[k].sends
                                    /\ deliveries'[k].acks = deliveries[k].acks
                                    /\ k # i => deliveries'[k].lost = deliveries[k].lost
  BY <1>7, <1>8
<1>12. NoneAhead'
  <2>1. \A g \in Flusher : \A k \in ToSend(g) :
          /\ flush'[g].rows[k] = flush[g].rows[k] /\ (Posted(g, k)' <=> Posted(g, k))
    BY <1>8, <1>9, <1>10
  <2>2. QED
    BY <1>8, <1>10, <1>11, <2>1 DEF WebhooksIInv, NoneAhead
<1>13. ASSUME FlushInOrder PROVE FlushInOrder'
  <2>1. \A g \in Flusher \ {f} : flush[g].phase = "idle" /\ ToSend(g) = {}
    BY <1>2, <1>13 DEF FlushInOrder, WebhooksIInv, WebhooksTyped
  <2>2. \A g \in Flusher, k \in DOMAIN deliveries : Posted(g, k) <=> g = f /\ k = i
    BY <1>9, <2>1 DEF Posted
  <2>3. \A g \in Flusher, k \in DOMAIN deliveries : Posted(g, k)' <=> g = f /\ k = i
    BY <1>8, <2>2
  <2>4. ASSUME NEW k \in DOMAIN deliveries
        PROVE  LET d == deliveries'[k] IN
               /\ d.sends <= d.attempts + d.lost + 1
               /\ k # i => d.sends <= d.attempts + d.lost
               /\ d.acks <= 1 + d.lost
               /\ d.status # "delivered" => d.acks <= d.lost
    <3>1. LET d == deliveries[k] IN
          /\ d.sends <= d.attempts + d.lost + 1
          /\ k # i => d.sends <= d.attempts + d.lost
          /\ d.acks <= 1 + d.lost
          /\ k # i /\ d.status # "delivered" => d.acks <= d.lost
      BY <1>13, <2>2 DEF FlushInOrder
    <3>2. CASE k # i
      BY <1>8, <3>1, <3>2
    <3>3. CASE k = i
      BY <1>4, <1>6, <1>7, <1>8, <3>1, <3>3
    <3>4. QED
      BY <3>2, <3>3
  <2>5. \A g \in Flusher : \A k \in ToSend(g)' :
          flush'[g].rows[k] = deliveries'[k].attempts /\ deliveries'[k].status # "delivered"
    BY <1>8, <1>10, <1>11, <1>13, <2>1 DEF FlushInOrder
  <2>6. \A g, h \in Flusher : flush'[g].phase # "idle" /\ flush'[h].phase # "idle" => g = h
    BY <1>8, <2>1
  <2>7. QED
    BY <1>8, <2>3, <2>4, <2>5, <2>6 DEF FlushInOrder
<1>14. QED
  BY <1>2, <1>8, <1>12, <1>13 DEF WebhooksIInv

\* What is left of a batch when its first row is done.
LEMMA NextDeliveryRow ==
  ASSUME WebhooksTyped, NEW f \in Flusher, flush[f].phase # "idle", NextDelivery(f)
  PROVE  \E w \in FlushRow :
           /\ flush' = [flush EXCEPT ![f] = w]
           /\ DOMAIN w.rows = ToSend(f) \ {Sending(f)}
           /\ \A i \in DOMAIN w.rows : w.rows[i] = flush[f].rows[i]
           /\ w.phase \in {"idle", "send"} /\ (w.phase = "idle" <=> DOMAIN w.rows = {})
<1> DEFINE rest == ToSend(f) \ {Sending(f)}
           rows == [i \in rest |-> flush[f].rows[i]]
           more == [phase |-> "send", rows |-> rows]
<1>1. flush' = [flush EXCEPT ![f] = IF rest = {} THEN NoFlush ELSE more]
  BY DEF NextDelivery
<1>2. flush[f].rows \in Counts
  BY DEF WebhooksTyped, FlushRow
<1>3. rows \in Counts /\ DOMAIN rows = rest /\ \A i \in rest : rows[i] = flush[f].rows[i]
  BY <1>2, CountsAreFunctions DEF ToSend
<1> HIDE DEF rows
<1>4. more \in FlushRow /\ more.phase = "send" /\ more.rows = rows
  BY <1>3 DEF FlushRow
<1> HIDE DEF more, rest
<1>5. CASE rest = {}
  BY <1>1, <1>5, IdleFlush DEF rest
<1>6. CASE rest # {}
  BY <1>1, <1>3, <1>4, <1>6 DEF rest
<1>7. QED
  BY <1>5, <1>6

\* The outcome of a delivery is written, and the loop goes on.
LEMMA RecordStep ==
  ASSUME WebhooksIInv, NEW f \in Flusher, RecordDelivered(f) \/ RecordFailed(f)
  PROVE  WebhooksIInv'
<1>1. PICK i : i = Sending(f)
  OBVIOUS
<1>2. /\ flush[f].phase \in {"delivered", "failed"} /\ NextDelivery(f)
      /\ UNCHANGED <<flushes, flushOverlap>>
  BY DEF RecordDelivered, RecordFailed
<1>3. i \in ToSend(f) /\ i \in DOMAIN deliveries /\ flush[f].rows[i] \in Nat
  BY <1>1, <1>2, SendingInHand DEF WebhooksIInv
<1>4. /\ deliveries[i] \in Delivery /\ deliveries[i].sends \in Nat
      /\ deliveries[i].attempts \in Nat /\ deliveries[i].acks \in Nat
      /\ deliveries[i].lost \in Nat /\ deliveries \in Seq(Delivery)
  BY <1>3, DeliveryCounts DEF WebhooksIInv, WebhooksTyped
<1> DEFINE n == flush[f].rows[i] + 1
<1>5. n \in Nat /\ n = flush[f].rows[i] + 1
  BY <1>3
<1>6. PICK row \in Delivery :
        /\ deliveries' = [deliveries EXCEPT ![i] = row]
        /\ row.attempts = n /\ row.sends = deliveries[i].sends
        /\ row.acks = deliveries[i].acks /\ row.lost = deliveries[i].lost
        /\ flush[f].phase = "delivered" => row.status = "delivered"
  <2> DEFINE ended == [deliveries[i] EXCEPT !.status = "delivered", !.attempts = n]
             again == [deliveries[i] EXCEPT !.status = "failed", !.due = FALSE, !.attempts = n]
  <2>1. CASE RecordDelivered(f)
    <3>1. deliveries' = [deliveries EXCEPT ![i] = ended]
      BY <1>1, <1>3, <1>4, <2>1 DEF RecordDelivered, Delivery
    <3> HIDE DEF n
    <3>2. /\ ended \in Delivery /\ ended.attempts = n /\ ended.status = "delivered"
          /\ ended.sends = deliveries[i].sends /\ ended.acks = deliveries[i].acks
          /\ ended.lost = deliveries[i].lost
      BY <1>4, <1>5 DEF Delivery
    <3> HIDE DEF ended
    <3>3. QED
      BY <3>1, <3>2
  <2>2. CASE RecordFailed(f)
    <3>1. deliveries' = [deliveries EXCEPT ![i] = again] /\ flush[f].phase = "failed"
      BY <1>1, <1>3, <1>4, <2>2 DEF RecordFailed, Delivery
    <3> HIDE DEF n
    <3>2. /\ again \in Delivery /\ again.attempts = n
          /\ again.sends = deliveries[i].sends /\ again.acks = deliveries[i].acks
          /\ again.lost = deliveries[i].lost
      BY <1>4, <1>5 DEF Delivery
    <3> HIDE DEF again
    <3>3. QED
      BY <3>1, <3>2
  <2>3. QED
    BY <2>1, <2>2
<1> HIDE DEF n
<1>7. PICK w \in FlushRow :
        /\ flush' = [flush EXCEPT ![f] = w]
        /\ DOMAIN w.rows = ToSend(f) \ {i}
        /\ \A k \in DOMAIN w.rows : w.rows[k] = flush[f].rows[k]
        /\ w.phase \in {"idle", "send"} /\ (w.phase = "idle" <=> DOMAIN w.rows = {})
  BY <1>1, <1>2, NextDeliveryRow DEF WebhooksIInv
<1>8. \A g \in Flusher : flush'[g] = IF g = f THEN w ELSE flush[g]
  BY <1>7 DEF WebhooksIInv, WebhooksTyped
<1>9. /\ deliveries' \in Seq(Delivery) /\ DOMAIN deliveries' = DOMAIN deliveries
      /\ deliveries'[i] = row /\ \A k \in DOMAIN deliveries : k # i => deliveries'[k] = deliveries[k]
  BY <1>3, <1>4, <1>6, DeliveryWritten
<1>10. WebhooksTyped'
  <2>1. flush' \in [Flusher -> FlushRow]
    BY <1>7 DEF WebhooksIInv, WebhooksTyped
  <2>2. \A g \in Flusher : /\ flush'[g].phase = "idle" <=> DOMAIN flush'[g].rows = {}
                           /\ DOMAIN flush'[g].rows \subseteq DOMAIN deliveries
    BY <1>7, <1>8 DEF WebhooksIInv, WebhooksTyped, ToSend
  <2>3. QED
    BY <1>2, <1>9, <2>1, <2>2 DEF WebhooksIInv, WebhooksTyped, ToSend
<1>11. /\ ToSend(f)' = ToSend(f) \ {i} /\ \A k : ~Posted(f, k)'
       /\ \A g \in Flusher \ {f} : ToSend(g)' = ToSend(g) /\ Sending(g)' = Sending(g)
       /\ \A g \in Flusher \ {f} : \A k \in DOMAIN deliveries : Posted(g, k)' <=> Posted(g, k)
  BY <1>7, <1>8 DEF ToSend, Sending, Posted
<1>12. \A g \in Flusher : \A k \in ToSend(g) : k \in DOMAIN deliveries
  BY DEF WebhooksIInv, WebhooksTyped
<1>13. Posted(f, i)
  BY <1>1, <1>2 DEF Posted
<1>14. NoneAhead'
  <2>1. n <= deliveries[i].sends
    BY <1>3, <1>5, <1>13 DEF WebhooksIInv, NoneAhead
  <2>2. \A k \in DOMAIN deliveries : /\ deliveries'[k].attempts <= deliveries'[k].sends
                                     /\ deliveries'[k].sends = deliveries[k].sends
    BY <1>6, <1>9, <2>1 DEF WebhooksIInv, NoneAhead
  <2>3. ASSUME NEW g \in Flusher, NEW k \in ToSend(g)'
        PROVE  /\ k \in ToSend(g) /\ k \in DOMAIN deliveries
               /\ flush'[g].rows[k] = flush[g].rows[k] /\ (Posted(g, k)' => Posted(g, k))
    <3>1. CASE g = f
      BY <1>7, <1>8, <1>11, <1>12, <2>3, <3>1
    <3>2. CASE g # f
      BY <1>8, <1>11, <1>12, <2>3, <3>2
    <3>3. QED
      BY <3>1, <3>2
  <2>4. QED
    BY <1>9, <2>2, <2>3 DEF WebhooksIInv, NoneAhead
<1>15. ASSUME FlushInOrder PROVE FlushInOrder'
  <2>1. \A g \in Flusher \ {f} : flush[g].phase = "idle" /\ ToSend(g) = {}
    BY <1>2, <1>15 DEF FlushInOrder, WebhooksIInv, WebhooksTyped
  <2>2. \A g \in Flusher, k \in DOMAIN deliveries : Posted(g, k) <=> g = f /\ k = i
    BY <1>1, <1>2, <2>1 DEF Posted
  <2>3. ASSUME NEW k \in DOMAIN deliveries
        PROVE  LET d == deliveries'[k] IN
               /\ d.sends <= d.attempts + d.lost + 1 /\ d.sends <= d.attempts + d.lost
               /\ d.acks <= 1 + d.lost
               /\ d.status # "delivered" => d.acks <= d.lost
    <3>1. LET d == deliveries[k] IN
          /\ d.sends \in Nat /\ d.attempts \in Nat /\ d.lost \in Nat
          /\ d.sends <= d.attempts + d.lost + 1
          /\ k # i => d.sends <= d.attempts + d.lost
          /\ d.acks <= 1 + d.lost
          /\ d.status # "delivered" /\ ~(k = i /\ flush[f].phase = "delivered")
             => d.acks <= d.lost
      BY <1>15, <2>2, DeliveryCounts DEF FlushInOrder, WebhooksIInv
    <3>2. CASE k # i
      BY <1>9, <3>1, <3>2
    <3>3. CASE k = i
      <4>1. deliveries[i].attempts = flush[f].rows[i] /\ deliveries[i].status # "delivered"
        BY <1>3, <1>15 DEF FlushInOrder
      <4>2. /\ deliveries[i].sends <= deliveries[i].attempts + deliveries[i].lost + 1
            /\ deliveries[i].acks <= 1 + deliveries[i].lost
            /\ flush[f].phase # "delivered" => deliveries[i].acks <= deliveries[i].lost
        BY <3>1, <3>3, <4>1
      <4>3. row.sends <= row.attempts + row.lost /\ row.attempts + row.lost \in Nat
        <5>1. row.attempts = deliveries[i].attempts + 1
          BY <1>5, <1>6, <4>1
        <5>2. row.sends = deliveries[i].sends /\ row.lost = deliveries[i].lost
          BY <1>6
        <5>3. deliveries[i].sends \in Nat /\ deliveries[i].attempts \in Nat /\ deliveries[i].lost \in Nat
          BY <3>1, <3>3
        <5>4. PICK a \in Nat, l \in Nat : a = deliveries[i].attempts /\ l = deliveries[i].lost
          BY <5>3
        <5>5. row.attempts = a + 1 /\ row.lost = l /\ row.sends \in Nat /\ row.sends <= a + l + 1
          BY <4>2, <5>1, <5>2, <5>3, <5>4
        <5>6. QED
          BY <5>5
      <4>4. row.acks <= 1 + row.lost /\ (row.status # "delivered" => row.acks <= row.lost)
        BY <1>6, <4>2
      <4>5. row.sends <= row.attempts + row.lost + 1
        BY <1>4, <1>6, <4>3
      <4>6. QED
        BY <1>9, <3>3, <4>3, <4>4, <4>5
    <3>4. QED
      BY <3>2, <3>3
  <2>4. \A g \in Flusher : \A k \in ToSend(g)' :
          flush'[g].rows[k] = deliveries'[k].attempts /\ deliveries'[k].status # "delivered"
    <3> SUFFICES ASSUME NEW g \in Flusher, NEW k \in ToSend(g)'
                 PROVE  flush'[g].rows[k] = deliveries'[k].attempts /\ deliveries'[k].status # "delivered"
      OBVIOUS
    <3>1. g = f /\ k \in ToSend(f) /\ k # i /\ k \in DOMAIN deliveries
      BY <1>11, <1>12, <2>1
    <3>2. flush'[g].rows[k] = flush[f].rows[k]
      BY <1>7, <1>8, <1>11, <3>1
    <3>3. QED
      BY <1>9, <1>15, <3>1, <3>2 DEF FlushInOrder
  <2>5. \A g \in Flusher : flush'[g].phase # "idle" => g = f
    BY <1>8, <2>1
  <2>6. QED
    BY <1>9, <2>3, <2>4, <2>5 DEF FlushInOrder
<1>16. QED
  BY <1>2, <1>10, <1>14, <1>15 DEF WebhooksIInv

\* A flush dies: an outcome it had not written is lost.
LEMMA FlushDiesStep ==
  ASSUME WebhooksIInv, NEW f \in Flusher, FlushDies(f)
  PROVE  WebhooksIInv'
<1>1. PICK i : i = Sending(f)
  OBVIOUS
<1>2. /\ flush[f].phase # "idle" /\ flush' = [flush EXCEPT ![f] = NoFlush]
      /\ UNCHANGED <<flushes, flushOverlap>>
  BY DEF FlushDies
<1>3. i \in ToSend(f) /\ i \in DOMAIN deliveries /\ deliveries \in Seq(Delivery)
  BY <1>1, <1>2, SendingInHand DEF WebhooksIInv, WebhooksTyped
<1>4. /\ deliveries[i] \in Delivery /\ deliveries[i].sends \in Nat
      /\ deliveries[i].attempts \in Nat /\ deliveries[i].acks \in Nat
      /\ deliveries[i].lost \in Nat
  BY <1>3, DeliveryCounts DEF WebhooksIInv
<1> DEFINE lost == IF flush[f].phase = "send" THEN deliveries[i].lost ELSE deliveries[i].lost + 1
           row == [deliveries[i] EXCEPT !.lost = lost]
<1>5. deliveries' = [deliveries EXCEPT ![i] = row]
  <2>1. CASE flush[f].phase = "send"
    <3>1. row = deliveries[i] /\ deliveries' = deliveries
      BY <1>4, <2>1 DEF FlushDies, Delivery
    <3>2. QED
      BY <1>3, <3>1
  <2>2. CASE flush[f].phase # "send"
    BY <1>1, <2>2 DEF FlushDies
  <2>3. QED
    BY <2>1, <2>2
<1>6. /\ lost \in Nat /\ deliveries[i].lost <= lost
      /\ flush[f].phase # "send" => lost = deliveries[i].lost + 1
  BY <1>4
<1> HIDE DEF lost
<1>7. /\ row \in Delivery /\ row.status = deliveries[i].status
      /\ row.attempts = deliveries[i].attempts /\ row.sends = deliveries[i].sends
      /\ row.acks = deliveries[i].acks /\ row.lost = lost
  BY <1>4, <1>6 DEF Delivery
<1> HIDE DEF row
<1>8. /\ deliveries' \in Seq(Delivery) /\ DOMAIN deliveries' = DOMAIN deliveries
      /\ deliveries'[i] = row /\ \A k \in DOMAIN deliveries : k # i => deliveries'[k] = deliveries[k]
  BY <1>3, <1>5, <1>7, DeliveryWritten
<1>9. \A g \in Flusher : flush'[g] = IF g = f THEN NoFlush ELSE flush[g]
  BY <1>2 DEF WebhooksIInv, WebhooksTyped
<1>10. /\ ToSend(f)' = {} /\ \A k : ~Posted(f, k)'
       /\ \A g \in Flusher \ {f} : ToSend(g)' = ToSend(g) /\ Sending(g)' = Sending(g)
       /\ \A g \in Flusher \ {f} : \A k \in DOMAIN deliveries : Posted(g, k)' <=> Posted(g, k)
  BY <1>9, IdleFlush DEF ToSend, Sending, Posted
<1>11. WebhooksTyped'
  <2>1. flush' \in [Flusher -> FlushRow]
    BY <1>2, IdleFlush DEF WebhooksIInv, WebhooksTyped
  <2>2. QED
    BY <1>2, <1>8, <1>9, <1>10, <2>1, IdleFlush DEF WebhooksIInv, WebhooksTyped
<1>12. \A g \in Flusher : \A k \in ToSend(g) : k \in DOMAIN deliveries
  BY DEF WebhooksIInv, WebhooksTyped
<1>13. \A k \in DOMAIN deliveries : /\ deliveries'[k].status = deliveries[k].status
                                    /\ deliveries'[k].attempts = deliveries[k].attempts
                                    /\ deliveries'[k].sends = deliveries[k].sends
                                    /\ deliveries'[k].acks = deliveries[k].acks
                                    /\ k # i => deliveries'[k].lost = deliveries[k].lost
  BY <1>7, <1>8
<1>14. NoneAhead'
  <2>1. \A g \in Flusher : \A k \in ToSend(g)' : /\ g # f /\ k \in ToSend(g)
                                                  /\ k \in DOMAIN deliveries
    BY <1>10, <1>12
  <2>2. QED
    BY <1>8, <1>9, <1>10, <1>13, <2>1 DEF WebhooksIInv, NoneAhead
<1>15. ASSUME FlushInOrder PROVE FlushInOrder'
  <2>1. \A g \in Flusher \ {f} : flush[g].phase = "idle" /\ ToSend(g) = {}
    BY <1>2, <1>15 DEF FlushInOrder, WebhooksIInv, WebhooksTyped
  <2>2. \A g \in Flusher, k \in DOMAIN deliveries :
          Posted(g, k) <=> g = f /\ k = i /\ flush[f].phase # "send"
    BY <1>1, <1>2, <2>1 DEF Posted, WebhooksIInv, WebhooksTyped, FlushRow
  <2>3. ASSUME NEW k \in DOMAIN deliveries
        PROVE  LET d == deliveries'[k] IN
               /\ d.sends <= d.attempts + d.lost + 1 /\ d.sends <= d.attempts + d.lost
               /\ d.acks <= 1 + d.lost
               /\ d.status # "delivered" => d.acks <= d.lost
    <3> DEFINE sent == k = i /\ flush[f].phase # "send"
    <3>1. LET d == deliveries[k] IN
          /\ d.sends \in Nat /\ d.attempts \in Nat /\ d.lost \in Nat /\ d.acks \in Nat
          /\ d.sends <= d.attempts + d.lost + 1
          /\ ~sent => d.sends <= d.attempts + d.lost
          /\ d.acks <= 1 + d.lost
          /\ d.status # "delivered" /\ ~sent => d.acks <= d.lost
      BY <1>15, <2>2, DeliveryCounts DEF FlushInOrder, WebhooksIInv
    <3>2. CASE k # i
      BY <1>8, <3>1, <3>2
    <3>3. CASE k = i
      <4>1. /\ deliveries[i].sends <= deliveries[i].attempts + deliveries[i].lost + 1
            /\ flush[f].phase = "send"
               => deliveries[i].sends <= deliveries[i].attempts + deliveries[i].lost
            /\ deliveries[i].acks <= 1 + deliveries[i].lost
            /\ flush[f].phase = "send" /\ deliveries[i].status # "delivered"
               => deliveries[i].acks <= deliveries[i].lost
        BY <3>1, <3>3
      <4>2. row.sends <= row.attempts + row.lost /\ row.attempts + row.lost \in Nat
        BY <1>4, <1>6, <1>7, <4>1
      <4>3. row.acks <= 1 + row.lost /\ (row.status # "delivered" => row.acks <= row.lost)
        BY <1>4, <1>6, <1>7, <4>1
      <4>4. row.sends <= row.attempts + row.lost + 1
        BY <1>4, <1>7, <4>2
      <4>5. QED
        BY <1>8, <3>3, <4>2, <4>3, <4>4
    <3>4. QED
      BY <3>2, <3>3
  <2>4. \A g \in Flusher : ToSend(g)' = {} /\ flush'[g].phase = "idle"
    BY <1>9, <1>10, <2>1, IdleFlush
  <2>5. QED
    BY <1>8, <2>3, <2>4 DEF FlushInOrder
<1>16. QED
  BY <1>2, <1>11, <1>14, <1>15 DEF WebhooksIInv

\* Every step keeps the invariant.
LEMMA WebhooksStep == WebhooksIInv /\ [WebhooksNext]_webhookVars => WebhooksIInv'
<1> SUFFICES ASSUME WebhooksIInv, [WebhooksNext]_webhookVars PROVE WebhooksIInv'
  OBVIOUS
<1>1. CASE UNCHANGED webhookVars
  BY <1>1 DEF webhookVars, WebhooksIInv, WebhooksTyped, NoneAhead, FlushInOrder, Posted,
     Sending, ToSend
<1>2. QED
  BY <1>1, EnqueueDeliveryStep, BackoffEndsStep, ReadDeliveriesStep, PostStep, NotWrittenStep,
     RecordStep, FlushDiesStep DEF WebhooksNext, FlushStep

\* The invariant holds of every state.
LEMMA WebhooksInvariance == WebhooksSpec => []WebhooksIInv
BY WebhooksInitially, WebhooksStep, PTL DEF WebhooksSpec

\* The attempt count of a delivery never runs ahead of its POSTs, and misses only
\* those that were lost or are being written: for every number of deliveries and
\* flushes.
THEOREM AttemptsAreAccounted == WebhooksSpec => []AttemptsAccount
<1>1. ASSUME WebhooksIInv PROVE AttemptsAccount
  <2> SUFFICES ASSUME NEW i \in DOMAIN deliveries
               PROVE  LET d == deliveries[i] IN
                      /\ d.attempts <= d.sends
                      /\ ~flushOverlap => d.sends <= d.attempts + d.lost + BeingRecorded(i)
    BY DEF AttemptsAccount
  <2> DEFINE writing == {f \in Flusher : flush[f].phase \in {"delivered", "failed"} /\ Sending(f) = i}
  <2>1. deliveries[i].attempts <= deliveries[i].sends
    BY <1>1 DEF WebhooksIInv, NoneAhead
  <2>2. /\ deliveries[i].attempts \in Nat /\ deliveries[i].sends \in Nat
        /\ deliveries[i].lost \in Nat
    BY <1>1, DeliveryCounts DEF WebhooksIInv
  <2>3. ASSUME ~flushOverlap
        PROVE  deliveries[i].sends <= deliveries[i].attempts + deliveries[i].lost + BeingRecorded(i)
    <3>1. FlushInOrder
      BY <1>1, <2>3 DEF WebhooksIInv
    <3>2. CASE writing = {}
      <4>1. BeingRecorded(i) = 0
        BY <3>2, FS_EmptySet DEF BeingRecorded
      <4>2. \A f \in Flusher : ~Posted(f, i)
        BY <3>2 DEF Posted
      <4>3. QED
        BY <2>2, <3>1, <4>1, <4>2 DEF FlushInOrder
    <3>3. CASE writing # {}
      <4>1. PICK f : writing = {f}
        BY <3>1, <3>3 DEF FlushInOrder
      <4>2. BeingRecorded(i) = 1
        BY <4>1, FS_Singleton DEF BeingRecorded
      <4>3. QED
        BY <3>1, <4>2 DEF FlushInOrder
    <3>4. QED
      BY <3>2, <3>3
  <2>4. QED
    BY <2>1, <2>3
<1>2. QED
  BY <1>1, WebhooksInvariance, PTL

\* An event that was acknowledged is delivered again only for a lost outcome.
THEOREM AcknowledgedIsFinal == WebhooksSpec => []AcknowledgedOnce
<1>1. WebhooksIInv => AcknowledgedOnce
  BY DEF WebhooksIInv, FlushInOrder, AcknowledgedOnce
<1>2. QED
  BY <1>1, WebhooksInvariance, PTL

\* Type correctness of the deliveries and flushes.
THEOREM WebhooksTypeCorrect == WebhooksSpec => []WebhooksTypeOK
<1>1. WebhooksIInv => WebhooksTypeOK
  BY DEF WebhooksIInv, WebhooksTyped, WebhooksTypeOK, FlushRow
<1>2. QED
  BY <1>1, WebhooksInvariance, PTL
=============================================================================
