\* One session, two items, overlapping enqueues, overlapping dispatch loops, a crash.
SPECIFICATION Spec
CONSTANTS
  Items = {m1, m2}
  Sessions = {s1}
  Clients = {c1, c2}
  Dispatchers = {d1, d2}
  Tokens = {1, 2, 3, 4, 5}
  None = None
  MailboxLimit = 2
  HookAttempts = 1
  SlowDispatchers = TRUE
  DirectTurns = FALSE
  MaxClock = 3
  MaxCrashes = 1
SYMMETRY Symmetry
INVARIANTS
  AtMostOnce
  WithdrawableIsUnsent
  RealTimeFifo
  DeliveryInv
PROPERTIES
  LiveLeaseUndisturbed
  ImplementsDelivery
