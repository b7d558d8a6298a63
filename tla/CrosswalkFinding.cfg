\* One request at a time; vulnerability findings flag controls.
CONSTANTS
  None = None
  s1 = s1
  s2 = s2
  goal = goal
  Control = {s1, goal}
  Mapped <- Pair
  Handler = {h1}
  Endpoints = {"put", "finding"}
  Asked = {"not_started", "implemented"}
  Exclusive = TRUE
  Faults = FALSE
SPECIFICATION Spec
INVARIANTS
  CreditHasSource
