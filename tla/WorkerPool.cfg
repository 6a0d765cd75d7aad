SPECIFICATION FairSpec
CONSTANTS
  ID = {m1, m2, m3, m4}
  Rate = 2
  ReportLimit = 2
INVARIANTS
  OneResultEach
  NoSendOnClosedChannel
PROPERTIES
  PoolMakesProgress
  ImplementsExecutor
