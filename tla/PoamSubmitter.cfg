\* One request at a time, nothing fails.
CONSTANTS
  None = None
  User = {ann, bob}
  Control = {ctl}
  Overlap = FALSE
  Faults = FALSE
  MaxItems = 1
  MaxRequests = 2
SPECIFICATION PeopleSpec
PROPERTIES
  NotDecidedBySubmitter
