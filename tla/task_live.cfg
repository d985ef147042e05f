SPECIFICATION FairSpec
CONSTANTS
  p1 = p1
  p2 = p2
  Partitions <- OnePartition
  NumRecords = 3
  ChanCap = 1
  Faults <- AnyFault
  MaxFaults = 2
  MaxCrashes = 1
  MaxStops = 1
PROPERTIES
  StopCompletes
  EveryRecordHandled
