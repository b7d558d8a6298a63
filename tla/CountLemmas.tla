----------------------------- MODULE CountLemmas -----------------------------
(***************************************************************************)
(* What the proofs about counts, retries and calendars need to know of     *)
(* natural numbers: a minimal counterexample in place of an induction, and *)
(* functions that give numbered rows a count.                              *)
(***************************************************************************)
EXTENDS Integers, FiniteSetsExt, WellFoundedInduction, TLAPS

\* A set of natural numbers that is not empty has a least one.
LEMMA LeastNumber ==
  ASSUME NEW S, S \subseteq Nat, S # {}
  PROVE  \E x \in S : \A y \in S : x <= y
<1>1. PICK x \in S : \A y \in S : <<y, x>> \notin OpToRel(<, Nat)
  BY NatLessThanWellFounded, WFMin, Zenon
<1>2. \A y \in S : ~(y < x)
  BY <1>1 DEF OpToRel
<1>3. \A y \in S : x <= y
  BY <1>2
<1>4. QED
  BY <1>3

\* Min is the least.
LEMMA MinIsLeast ==
  ASSUME NEW S, S \subseteq Nat, S # {}
  PROVE  Min(S) \in S /\ \A y \in S : Min(S) <= y
BY LeastNumber DEF Min

\* Rows, known by their numbers, with a count for each.
Counts == UNION {[S -> Nat] : S \in SUBSET Nat}

\* The counts are a function on numbers; a part of them are counts.
LEMMA CountsAreFunctions ==
  ASSUME NEW f \in Counts
  PROVE  /\ DOMAIN f \subseteq Nat /\ \A i \in DOMAIN f : f[i] \in Nat
         /\ \A T \in SUBSET DOMAIN f : [i \in T |-> f[i]] \in Counts
<1>1. PICK S \in SUBSET Nat : f \in [S -> Nat]
  BY DEF Counts
<1>2. ASSUME NEW T \in SUBSET S PROVE [i \in T |-> f[i]] \in Counts
  <2>1. [i \in T |-> f[i]] \in [T -> Nat] /\ T \in SUBSET Nat
    BY <1>1
  <2>2. QED
    BY <2>1 DEF Counts
<1>3. QED
  BY <1>1, <1>2

\* A function from numbers to numbers is one of counts.
LEMMA FunctionsAreCounts ==
  ASSUME NEW S, S \subseteq Nat, NEW f \in [S -> Nat]
  PROVE  f \in Counts
BY DEF Counts
=============================================================================
