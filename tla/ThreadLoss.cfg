SPECIFICATION ThreadSpec
CONSTANTS
  Turns = {q1, q2}
  NoTurn = NoTurn
  QueueLimit = 2
  MaxLog = 5
  MaxCalls = 1
PROPERTY RemovesTheReceived
CHECK_DEADLOCK FALSE
