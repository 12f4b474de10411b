SPECIFICATION SwitchSpec
CONSTANTS
  a = a
  b = b
  Targets = {a, b}
  MaxSel = 2
  MaxSwitches = 2
  MaxEvents = 2
INVARIANTS JournalTellsTheTruth
PROPERTIES InterruptedStaysItself SwitchConverges
CHECK_DEADLOCK FALSE
