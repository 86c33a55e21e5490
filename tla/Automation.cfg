SPECIFICATION FairSpec
CONSTANTS
  N = 2
  Jobs = {j1, j2}
  MaxSignals = 3
INVARIANTS
  SignalsAreKept
  StartIsWholeOrCaused
  WorkflowsAreReplayable
  CleanupIsLast
PROPERTIES
  StopEnds
