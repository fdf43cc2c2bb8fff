\* One request at a time; a turn may wait for input and authorization at once.
SPECIFICATION Spec
CONSTANTS
  Runs = {k1}
  Requests = {p1}
  None = None
  PageSize = 10
  BothWaits = TRUE
  MaxEvents = 5
CHECK_DEADLOCK FALSE
INVARIANTS
  CompletedIsOver
