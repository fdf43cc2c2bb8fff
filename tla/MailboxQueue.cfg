\* One client that waits for each reply, three items, two sessions, the limit reached.
SPECIFICATION Spec
CONSTANTS
  Items = {m1, m2, m3}
  Sessions = {s1, s2}
  Clients = {c1}
  Dispatchers = {d1}
  Tokens = {1, 2, 3, 4, 5}
  None = None
  MailboxLimit = 2
  HookAttempts = 2
  SlowDispatchers = TRUE
  DirectTurns = TRUE
  MaxClock = 5
  MaxCrashes = 0
SYMMETRY Symmetry
INVARIANTS
  InFlightIsHead
  CapacityHolds
