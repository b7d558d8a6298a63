----------------------------- MODULE DecideOnce -----------------------------
(***************************************************************************)
(* What a queue of requests for a decision promises, whoever decides and   *)
(* however they race: a request is opened once, is decided once, and its   *)
(* decision stands.                                                        *)
(***************************************************************************)
CONSTANT Request
VARIABLE decision  \* [Request -> what has become of it; "none" before it is made]

Verdict == {"approved", "rejected", "expired"}

DecideInit == decision = [r \in Request |-> "none"]

Open(r) == decision[r] = "none" /\ decision' = [decision EXCEPT ![r] = "pending"]

\* One statement may decide several requests, as it does when they expire together.
Decide(R, verdict) ==
  /\ \A r \in R : decision[r] = "pending"
  /\ decision' = [r \in Request |-> IF r \in R THEN verdict ELSE decision[r]]

DecideNext ==
  \/ \E r \in Request : Open(r)
  \/ \E R \in SUBSET Request, verdict \in Verdict : Decide(R, verdict)

DecideSpec == DecideInit /\ [][DecideNext]_decision
=============================================================================
