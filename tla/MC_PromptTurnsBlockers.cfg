CONSTANTS
  s1 = s1
  Sessions = {s1}
  MaxPrompts = 2
  SessionOf <- OneSession
  MaxBridges = 2
  MaxEvents = 2
SPECIFICATION TurnSpec
INVARIANTS BlockersSeeTurns
CHECK_DEADLOCK FALSE
