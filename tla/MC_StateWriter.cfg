CONSTANTS
  j1 = j1
  Jobs = {j1, d1}
  Detached = {d1}
  Closers = {c1, c2}
  Capacity = 2
  BatchMax = 2
  Scopes = 2
  Bare <- BareRows
  SavepointsMayFail = TRUE
  NoJob = NoJob
SPECIFICATION Spec
INVARIANTS TypeOK AnswersAreTrue EventsFollowCommits AckMeansDrained
PROPERTIES ImplementsPromise EveryWriteAnswered ShutdownReturns
