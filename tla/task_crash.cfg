SPECIFICATION Spec
CONSTANTS
  p1 = p1
  p2 = p2
  Partitions <- TwoPartitions
  NumRecords = 2
  ChanCap = 2
  Faults <- CrashFaults
  MaxFaults = 3
  MaxCrashes = 1
  MaxStops = 0
SYMMETRY PartitionSymmetry
INVARIANTS
  TypeOK
  ExactlyOnceEffects
  IgnoredExcluded
  StoreIsCommitted
  ViewMatchesBuffer
PROPERTIES
  ImplementsExactlyOnce
