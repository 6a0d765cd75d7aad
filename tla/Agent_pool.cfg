SPECIFICATION Spec
CONSTANTS
  Alloc = Alloc
  PollCount = PollCount
  TotalMemory = TotalMemory
  CPUutilization1 = CPUutilization1
  NoDelta = NoDelta
  ID <- MCPoolIDs
  CounterIDs <- MCCounterIDs
  MemstatsIDs <- MCPollCount
  VirtualMemoryIDs <- MCVirtualMemory
  CPUIDs <- MCCPU
  BatchMode = FALSE
  PollLimit = 2
INVARIANTS
  TypeOK
  CounterConserved
  GaugeConserved
  StagedHasOneOwner
  FinalReportDelivers
PROPERTIES
  InFlightIsStable
  ImplementsLedger
