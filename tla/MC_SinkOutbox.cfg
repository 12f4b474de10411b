CONSTANTS
  Rows = {r1, r2}
  Tables = {r1, r2}
  TableOf <- OwnTables
  BatchSize = 2
  MaxContent = 2
  MaxWrites <- OneRewritten
  Deletable <- OneDeleted
  MaxLate = 1
  MaxEnds = 1
SPECIFICATION Spec
INVARIANTS TypeOK UnmirroredIsOwed
PROPERTIES MirrorNeverRegresses EveryRowDelivered SinkStops
