\* Fair behaviours: the host polls, requests fail, Eve may never settle.
SPECIFICATION FairSpec
CONSTANTS
  Runs = {k1}
  Requests = {p1}
  None = None
  PageSize = 2
  BothWaits = FALSE
  MaxEvents = 3
CHECK_DEADLOCK FALSE
PROPERTIES
  StopSettles
