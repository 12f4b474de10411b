CONSTANTS
  MaxBridges = 3
  MaxDrops = 1
SPECIFICATION AgentSpec
INVARIANTS AgentTypeOK TransitionOwned RunningIsWatched
PROPERTIES ImplementsLife TransitionsEnd ChildrenAreReaped
CHECK_DEADLOCK FALSE
