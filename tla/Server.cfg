SPECIFICATION FairSpec
CONSTANTS
  ID <- MCID
  Handler = {h1, h2}
  Singles <- MCSingles
  Batches <- MCBatches
  Modes = {TRUE, FALSE}
  Restore = TRUE
  Absent = Absent
  Nil = Nil
  NaN = NaN
  NoFile = NoFile
  EmptyFile = EmptyFile
  BrokenFile = BrokenFile
  Nobody = Nobody
  UpdateLimit = 2
  StartLimit = 2
INVARIANTS
  TypeOK
  GracefulStopPersists
  FileIsBehind
  SynchronousStore
PROPERTIES
  ServerMakesProgress
