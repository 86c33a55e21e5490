SPECIFICATION Spec
CONSTANTS
  Makers = {m1, m2, m3}
  Clients = {m3}
  None = none
INVARIANTS
  RecordedBeforeCancellation
