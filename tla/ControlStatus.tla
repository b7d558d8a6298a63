--------------------------- MODULE ControlStatus ---------------------------
(***************************************************************************)
(* The vocabulary of control_implementations.status, and the sets of       *)
(* statuses the services of the backend distinguish.  None stands for a    *)
(* control that has no row for the organization.                           *)
(***************************************************************************)

EXTENDS Naturals

CONSTANT None

Swc == "satisfied_via_crosswalk"

Status == {"not_started", "in_progress", "implemented", "needs_review",
           Swc, "verified", "not_applicable"}

ASSUME NoneIsNoStatus == None \notin Status

\* Source statuses that justify a credit.
Crediting == {"implemented", "verified"}

\* The POA&M gate's two classes; not_applicable belongs to neither.
NonCompliant == {"not_started", "in_progress", "needs_review"}
Compliant == {"implemented", Swc, "verified"}

\* What a reader of the row sees: an absent row reads as not_started.
Had(s) == IF s = None THEN "not_started" ELSE s

IsComplianceTransition(old, new) == old \in NonCompliant /\ new \in Compliant

\* PATCH only moves forward along this order; the other statuses have no rank.
Rank == [s \in {"not_started", "in_progress", "implemented", "verified"} |->
           CASE s = "not_started" -> 0
             [] s = "in_progress" -> 1
             [] s = "implemented" -> 2
             [] s = "verified"    -> 3]

IsBackward(old, new) ==
  /\ {old, new} \subseteq DOMAIN Rank
  /\ Rank[new] < Rank[old]

\* Statuses a control may have without anybody having worked on it.
Unworked == {None, "not_started", Swc}
============================================================================
