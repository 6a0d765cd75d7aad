SPECIFICATION Spec
CONSTANTS
  NoDelta = NoDelta
  BatchMode = TRUE
  MaxRetries = 1
  InitialDelay = 1
  DelayIncrease = 2
  Faults = {"no_effect"}
  FaultLimit = 1
  PollLimit = 2
INVARIANTS
  CommittedIsStored
