SPECIFICATION ProcessFairSpec
CONSTANTS
  Bounded = TRUE
  Subjects <- FollowedFields
  MaxEdits = 2
INVARIANTS
  HostOutlivesShutdown
  ShutdownIsComplete
  RegistryStaysEmpty
  FailureIsReported
  WorkFindsConfiguration
  CallsMeetTheService
  ConfigurationsAgree
PROPERTIES
  ProcessEnds
  EditIsPublished
