CONSTANTS
  Requests = {c1}
  Acp = {}
  Callers = {o1}
  MaxCrashes = 2
SPECIFICATION GateSpec
INVARIANTS GateTypeOK ChildIsAuthorised CleanExit
PROPERTIES SweepFreesPermission SupervisorEnds CancelIsObeyed
