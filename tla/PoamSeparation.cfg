\* Requests of two users overlap, nothing fails.
CONSTANTS
  None = None
  User = {ann, bob}
  Control = {ctl}
  Overlap = TRUE
  Faults = FALSE
  MaxItems = 1
  MaxRequests = 3
SPECIFICATION PeopleSpec
SYMMETRY Symmetry
INVARIANTS
  DecidedByAnother
