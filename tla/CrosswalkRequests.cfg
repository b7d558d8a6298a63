\* One request at a time among three controls that credit each other; two at a time
\* on different controls of another catalogue, where withdrawals may deadlock.
CONSTANTS
  None = None
  s1 = s1
  s2 = s2
  goal = goal
  u1 = u1
  u2 = u2
  v1 = v1
  v2 = v2
  v3 = v3
  Control = {s1, s2, goal, u1, u2, v1, v2, v3}
  Mapped <- Catalogues
  Handler = {h1, h2}
  Endpoints = {"put", "patch", "ensure"}
  Asked = {"not_started", "in_progress", "implemented", "verified", "needs_review", "not_applicable"}
  Exclusive = TRUE
  Faults = FALSE
SPECIFICATION RequestsSpec
SYMMETRY CatalogueSymmetry
INVARIANTS
  CreditsAreTraced
  SerialKeptUntilLastLapses
