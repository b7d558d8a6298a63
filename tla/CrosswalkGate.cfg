\* One request at a time, through PUT and PATCH.
CONSTANTS
  None = None
  s1 = s1
  s2 = s2
  goal = goal
  Control = {s1, goal}
  Mapped <- Pair
  Handler = {h1}
  Endpoints = {"put", "patch"}
  Asked = {"not_applicable", "implemented"}
  Exclusive = TRUE
  Faults = FALSE
SPECIFICATION Spec
INVARIANTS
  ClaimsAreFiled
