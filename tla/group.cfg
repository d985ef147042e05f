SPECIFICATION Spec
CONSTANTS
  NumInstances = 2
  NumTasks = 1
  NumRecords = 2
  MaxGen = 2
  MaxEpoch = 3
  ChanCap = 1
  MaxFaults = 1
  MaxStops = 1
INVARIANTS
  TypeOK
  ExactlyOnceOutput
  OwnerStoreComplete
  ClaimsHaveTheirTask
PROPERTIES
  StopReturns
CHECK_DEADLOCK FALSE
