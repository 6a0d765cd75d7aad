SPECIFICATION FairSpec
CONSTANTS
  ID <- MCID
  Handler = {h1, h2}
  Singles <- MCSingles
  Batches <- MCBatches
  Wanted = {1}
  Absent = Absent
  Nil = Nil
  NaN = NaN
  MaxRetries = 1
  InitialDelay = 1
  DelayIncrease = 2
  CallLimit = 3
  FaultLimit = 2
INVARIANTS
  TypeOK
  CountersAreExact
  ReadsAreOneState
PROPERTIES
  TypeChangesOnlyInRace
  CallsReturn
