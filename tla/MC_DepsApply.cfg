SPECIFICATION DepsSpec
CONSTANTS
  MaxPid = 3
  MaxRuns = 2
  MaxFaults = 2
INVARIANTS OneApply
PROPERTIES SlotComesFree
