SPECIFICATION FairSpec
CONSTANTS
  NoDelta = NoDelta
  BatchMode = FALSE
  MaxRetries = 2
  InitialDelay = 1
  DelayIncrease = 2
  Faults = {"transport", "gateway_timeout", "cut", "refused", "no_effect", "lost_commit"}
  FaultLimit = 3
  PollLimit = 3
INVARIANTS
  TypeOK
  RetriesAreExact
  CommittedIsStored
  NoDoubleAccumulation
PROPERTIES
  EventuallyStored
