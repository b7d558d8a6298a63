\* Every operation, in any order, with failures: s1 credits goal.
CONSTANTS
  None = None
  s1 = s1
  s2 = s2
  goal = goal
  Control = {s1, goal}
  Mapped <- Pair
  Handler = {h1, h2}
  Endpoints = {"put", "patch", "inherit", "inherit_all", "ensure", "review", "finding", "work_item", "suggestion", "rehydrate"}
  Asked = {"not_started", "implemented"}
  Exclusive = FALSE
  Faults = TRUE
SPECIFICATION Spec
VIEW Effects
SYMMETRY RequestSymmetry
INVARIANTS
  TypeOK
  HumanWorkStands
  LedgerRemembersNoCredit
PROPERTIES
  PostureSpec
