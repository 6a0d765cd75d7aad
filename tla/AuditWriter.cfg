SPECIFICATION FairSpec
CONSTANTS
  Handler = {h1, h2}
  Nobody = Nobody
  EventLimit = 4
  FaultLimit = 1
  StartLimit = 2
INVARIANTS
  TypeOK
  AuditIsInOrder
  EventsAreAccountedFor
PROPERTIES
  GracefulStopFlushes
  BufferIsFlushed
