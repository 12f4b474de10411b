CONSTANTS
  Requests = {a1}
  Acp = {a1}
  Callers = {o1, o2}
  MaxCrashes = 1
SPECIFICATION Spec
INVARIANTS TypeOK AuditTrail ToldIsOnRecord SweptIsSettled
PROPERTIES DecidedOnce ParkedIsAnswered
