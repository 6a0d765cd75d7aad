SPECIFICATION Spec
CONSTANTS
  ID <- MCID
  Handler = {h1}
  Singles <- MCSingles
  Batches <- MCConflict
  Modes = {FALSE}
  Restore = TRUE
  Absent = Absent
  Nil = Nil
  NaN = NaN
  NoFile = NoFile
  EmptyFile = EmptyFile
  BrokenFile = BrokenFile
  Nobody = Nobody
  UpdateLimit = 2
  StartLimit = 1
INVARIANTS
  BatchIsAllOrNothing
