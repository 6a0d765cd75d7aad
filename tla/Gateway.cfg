SPECIFICATION FairSpec
CONSTANTS
  ID <- MCID
  Agent = {a}
  Program = {p}
  Reader = {r}
  Singles <- MCSingles
  Batches <- MCBatches
  Posts <- MCPosts
  Questions <- MCQuestions
  Keys <- MCKeys
  Absent = Absent
  Nil = Nil
  NaN = NaN
  Nobody = Nobody
  RequestLimit = 3
INVARIANTS
  FittingKeysDeliver
  ResponseIsReadable
  ReadsAreCurrent
PROPERTIES
  UpdatesAreGenuine
  RequestsEnd
