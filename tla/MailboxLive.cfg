\* Fair behaviours: crashes, prompt dispatchers, no turns outside the mailbox.
SPECIFICATION FairSpec
CONSTANTS
  Items = {m1, m2}
  Sessions = {s1}
  Clients = {c1}
  Dispatchers = {d1,d2}
  Tokens = {1, 2, 3, 4, 5}
  None = None
  MailboxLimit = 2
  HookAttempts = 1
  SlowDispatchers = FALSE
  DirectTurns = FALSE
  MaxClock = 3
  MaxCrashes = 2
PROPERTIES
  HeadSettles
  AdmissionSettles
