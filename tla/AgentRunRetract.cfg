\* Overlapping requests: one stops the run while another synchronizes it.
SPECIFICATION Spec
CONSTANTS
  Runs = {k1}
  Requests = {p1, p2, p3}
  None = None
  PageSize = 10
  BothWaits = FALSE
  MaxEvents = 3
SYMMETRY Symmetry
CHECK_DEADLOCK FALSE
PROPERTIES
  CompletedStays
