------------------------ MODULE MCCrosswalkRequests ------------------------
(***************************************************************************)
(* Two instances of CrosswalkCredits in one run: in the first catalogue    *)
(* three controls credit each other and there is one request at a time; in *)
(* the second two sources credit the same three targets, and two requests  *)
(* overlap: their withdrawals may deadlock, and the one that the database  *)
(* aborts may be the only one to have seen that both sources have lapsed.  *)
(* The catalogues do not map to each other, and a behaviour is one of one  *)
(* of them: of the one that the first request is about.                    *)
(***************************************************************************)
EXTENDS MCCrosswalkCredits

CONSTANTS u1, u2, v1, v2, v3

Catalogues ==
  Diamond @@ u1 :> {v1, v2, v3} @@ u2 :> {v1, v2, v3}
  @@ v1 :> {} @@ v2 :> {} @@ v3 :> {}

\* Nothing has happened in the catalogue that c is not of.
Alone(c) ==
  \A d \in Control :
    (c \in DOMAIN Diamond) # (d \in DOMAIN Diamond) =>
      status[d] = None /\ \A h \in Handler : work[h].control # d

\* In the first, one request at a time, for any status; in the second, two, about the
\* sources and one target, for a status that credits or one that does not.
MaySend(h, c) ==
  /\ Alone(c)
  /\ IF c \in DOMAIN Diamond THEN \A g \in Handler : work[g].phase = "idle"
     ELSE c \in {u1, u2, v1} /\ work'[h].to \in {"not_started", "implemented"}

RequestsNext ==
  \/ \E h \in Handler : ServerStep(h)
  \/ \E h \in Handler, c \in Control : NewRequest(h, c) /\ MaySend(h, c)
  \/ \E c \in DOMAIN Diamond : OneStatement(c) /\ Alone(c)

RequestsSpec == Init /\ [][RequestsNext]_vars

CatalogueSymmetry ==
  Symmetry \cup Permutations({u1, u2}) \cup Permutations({v2, v3})
-----------------------------------------------------------------------------
\* A credit is traced to its source: with one request at a time a credited control
\* has a crediting source in the ledger; when requests overlap and withdrawals are
\* aborted, it has a row there, though its source may have lapsed.
CreditsAreTraced == CreditHasRow /\ (Alone(goal) => CreditHasSource)

\* KeptUntilLastLapses, with one request at a time: a control credited by more than
\* one source stays satisfied until the last of them lapses.
SerialKeptUntilLastLapses == Alone(goal) => KeptUntilLastLapses
============================================================================
