SPECIFICATION FairSpec
CONSTANTS
  KeySets <- OneKeyOrKafka
  Events = {e1, e2}
  Confirmed = {e1}
  MaxStored = 3
  MaxResumptions = 2
INVARIANTS
  NothingFails
  ResultsAreExact
  GraphsAreAsConfigured
  CommittedWereCounted
  CountersMatchDeliveries
PROPERTIES
  EveryInputEnds
  StoredAreCommitted
