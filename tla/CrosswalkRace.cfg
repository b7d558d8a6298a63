\* Two requests at a time, on different controls.
CONSTANTS
  None = None
  s1 = s1
  s2 = s2
  goal = goal
  Control = {s1, s2, goal}
  Mapped <- OneWay
  Handler = {h1, h2}
  Endpoints = {"put"}
  Asked = {"not_started", "implemented"}
  Exclusive = TRUE
  Faults = FALSE
SPECIFICATION Spec
INVARIANTS
  KeptUntilLastLapses
