SPECIFICATION FairSpec
CONSTANTS
  Alloc = Alloc
  PollCount = PollCount
  TotalMemory = TotalMemory
  CPUutilization1 = CPUutilization1
  NoDelta = NoDelta
  ID <- MCBatchIDs
  CounterIDs <- MCCounterIDs
  MemstatsIDs <- MCMemstatsIDs
  VirtualMemoryIDs <- MCVirtualMemory
  CPUIDs <- MCNoIDs
  BatchMode = TRUE
  PollLimit = 1
PROPERTIES
  StopsAfterSignal
  StagedIsResolved
