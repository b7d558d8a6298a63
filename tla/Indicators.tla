----------------------------- MODULE Indicators -----------------------------
(***************************************************************************)
(* One indicator: its thresholds, its measurements, one per point in time, *)
(* and the copy of the latest one that its row keeps for dashboards.       *)
(*                                                                         *)
(* A measurement is recorded in one transaction under the row's lock, and  *)
(* so in one step: it may be taken now, be backfilled, lie ahead, or       *)
(* correct an earlier one.  Tuning changes thresholds and direction, and   *)
(* leaves what was recorded alone.  Times and values are numbers; 0 stands *)
(* for no time, and NoValue for a threshold that is not set.               *)
(***************************************************************************)
EXTENDS Integers

CONSTANTS
  Value,    \* values and thresholds
  Time,     \* points in time, from 1 on
  NoValue

ASSUME IndicatorParameters ==
  /\ Value \subseteq Int /\ Time \subseteq Nat \ {0} /\ NoValue \notin Int

VARIABLES
  indicator,     \* direction and thresholds
  measurements,  \* indicator_measurements: [Time -> the reading, or none]
  latest         \* latest_measured_at, latest_value and latest_breach_level

indicatorVars == <<indicator, measurements, latest>>

Threshold == Value \cup {NoValue}
Direction == {"higher_is_better", "lower_is_better"}
Level == {"green", "amber", "red"}

NoReading == [value |-> NoValue, level |-> "green"]
Reading == [value : Value, level : Level]

IndicatorInit ==
  /\ indicator \in [direction : Direction, amber : Threshold, red : Threshold]
  /\ measurements = [t \in Time |-> NoReading]
  /\ latest = [at |-> 0, reading |-> NoReading]

\* Inclusive on the bad side.
Reaches(value, threshold, direction) ==
  /\ threshold # NoValue
  /\ IF direction = "higher_is_better" THEN value <= threshold ELSE value >= threshold

\* Mutant of EvaluateBreach: amber is checked first.
EvaluateAmberFirst(value, i) ==
  IF Reaches(value, i.amber, i.direction) THEN "amber"
  ELSE IF Reaches(value, i.red, i.direction) THEN "red"
  ELSE "green"

EvaluateBreach(value, i) ==
  IF Reaches(value, i.red, i.direction) THEN "red"
  ELSE IF Reaches(value, i.amber, i.direction) THEN "amber"
  ELSE "green"
-----------------------------------------------------------------------------
\* PUT /indicators/:id: a threshold can be changed, but not taken away.
Tune(direction, amber, red) ==
  /\ indicator.amber # NoValue => amber # NoValue
  /\ indicator.red # NoValue => red # NoValue
  /\ indicator' = [direction |-> direction, amber |-> amber, red |-> red]
  /\ UNCHANGED <<measurements, latest>>

\* Mutant of RecordMeasurement: the copy follows later readings only.
RecordMeasurementLater(value, t) ==
  LET reading == [value |-> value, level |-> EvaluateBreach(value, indicator)] IN
  /\ measurements' = [measurements EXCEPT ![t] = reading]
  /\ latest' = IF latest.at < t THEN [at |-> t, reading |-> reading] ELSE latest
  /\ UNCHANGED indicator

\* A reading of the same time is replaced, and the copy follows a reading that is no
\* older than what it holds.
RecordMeasurement(value, t) ==
  LET reading == [value |-> value, level |-> EvaluateBreach(value, indicator)] IN
  /\ measurements' = [measurements EXCEPT ![t] = reading]
  /\ latest' = IF latest.at <= t THEN [at |-> t, reading |-> reading] ELSE latest
  /\ UNCHANGED indicator

IndicatorNext ==
  \/ \E direction \in Direction, amber, red \in Threshold : Tune(direction, amber, red)
  \/ \E value \in Value, t \in Time : RecordMeasurement(value, t)

IndicatorSpec == IndicatorInit /\ [][IndicatorNext]_indicatorVars
-----------------------------------------------------------------------------
\* Type correctness.
IndicatorTypeOK ==
  /\ indicator \in [direction : Direction, amber : Threshold, red : Threshold]
  /\ measurements \in [Time -> Reading \cup {NoReading}]
  /\ latest \in [at : Time \cup {0}, reading : Reading \cup {NoReading}]

Measured == {t \in Time : measurements[t] # NoReading}

\* What the dashboard shows is the newest measurement on record, in whatever order
\* measurements were backfilled, corrected and reclassified by new thresholds.
LatestIsNewest ==
  /\ latest.at = 0 <=> Measured = {}
  /\ Measured # {} =>
       /\ latest.at \in Measured /\ latest.reading = measurements[latest.at]
       /\ \A t \in Measured : t <= latest.at

\* v is worse than w, or the same.
NoBetter(v, w, direction) ==
  IF direction = "higher_is_better" THEN v <= w ELSE v >= w

Severity(level) == CASE level = "green" -> 0 [] level = "amber" -> 1 [] level = "red" -> 2

\* A worse value is never classified as a milder breach, whatever the direction is
\* and however the thresholds are configured.
WorseIsNotMilder ==
  \A v, w \in Value :
    NoBetter(v, w, indicator.direction) =>
      Severity(EvaluateBreach(v, indicator)) >= Severity(EvaluateBreach(w, indicator))
=============================================================================
