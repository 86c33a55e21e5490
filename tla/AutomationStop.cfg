SPECIFICATION Spec
CONSTANTS
  N = 2
  Jobs = {j1}
  MaxSignals = 1
INVARIANTS
  CustomStopIsCalled
