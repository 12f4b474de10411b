CONSTANTS
  Requests = {c1}
  Acp = {}
  Callers = {o1}
  MaxCrashes = 0
SPECIFICATION GateSpec
PROPERTY CancelSettles
