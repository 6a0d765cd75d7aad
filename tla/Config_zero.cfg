SPECIFICATION Spec
CONSTANTS
  StoreIntervalSec = StoreIntervalSec
  Setting <- MCSetting
  Value <- MCValue
  Default <- MCDefault
  NotGiven = NotGiven
INVARIANTS
  ZeroMeansSynchronous
