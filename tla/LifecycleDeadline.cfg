SPECIFICATION Spec
CONSTANTS
  Bounded = TRUE
INVARIANTS
  CleanupHasDeadline
