\* Three connections, nothing fails.
CONSTANTS
  Writer = {w1, w2, w3}
  Faults = FALSE
  MaxTransactions = 5
SPECIFICATION Spec
CHECK_DEADLOCK FALSE
INVARIANTS
  NoFork
