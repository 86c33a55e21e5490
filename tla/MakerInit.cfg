SPECIFICATION FairSpec
CONSTANTS
  Makers = {m1, m2, m3, m4}
  Clients = {m3, m4}
  None = none
INVARIANTS
  NoTaskOutlivesInit
  ReturnedIsComplete
  ErrorHasACause
PROPERTIES
  FailureEndsInit
