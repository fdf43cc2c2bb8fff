\* Two enqueue transactions overlap; the one that began first commits last.
SPECIFICATION Spec
CONSTANTS
  Items = {m1, m2}
  Sessions = {s1}
  Clients = {c1, c2}
  Dispatchers = {d1}
  Tokens = {1, 2, 3, 4, 5}
  None = None
  MailboxLimit = 2
  HookAttempts = 1
  SlowDispatchers = TRUE
  DirectTurns = FALSE
  MaxClock = 2
  MaxCrashes = 0
SYMMETRY Symmetry
INVARIANTS
  InFlightIsHead
