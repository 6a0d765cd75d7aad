SPECIFICATION Spec
CONSTANTS
  NoDelta = NoDelta
  BatchMode = FALSE
  MaxRetries = 1
  InitialDelay = 1
  DelayIncrease = 2
  Faults = {"store_error"}
  FaultLimit = 1
  PollLimit = 2
INVARIANTS
  NoDoubleAccumulation
