\* One run, two overlapping requests, pages of two events.
SPECIFICATION Spec
CONSTANTS
  Runs = {k1}
  Requests = {p1, p2}
  None = None
  PageSize = 2
  BothWaits = FALSE
  MaxEvents = 4
SYMMETRY Symmetry
CHECK_DEADLOCK FALSE
INVARIANTS
  TypeOK
  StartedOnce
  CancelledIsStopped
  ProjectionIsOfTheStream
  CompletedIsOver
PROPERTIES
  StopIsHonoured
  ImplementsContract
