------------------------- MODULE MCCrosswalkCredits -------------------------
(***************************************************************************)
(* Instances of CrosswalkCredits for TLC: two controls, s1 and s2, of      *)
(* activated frameworks map to a third, goal.                              *)
(***************************************************************************)
EXTENDS CrosswalkCredits, TLC

CONSTANTS s1, s2, goal

\* Every framework is activated: mappings credit in both directions.
Diamond == [c \in {s1, s2, goal} |-> IF c = goal THEN {s1, s2} ELSE {goal}]

\* Only goal's framework is activated: credit flows to goal alone.
OneWay == s1 :> {goal} @@ s2 :> {goal} @@ goal :> {}

\* A single pair: s1 credits goal.
Pair == s1 :> {goal} @@ goal :> {}

\* The history variables by and filed influence no other variable.
Effects == <<status, credits, work, asked>>

RequestSymmetry == Permutations(Handler)
Symmetry == Permutations({s1, s2}) \cup RequestSymmetry
============================================================================
