SPECIFICATION Spec
CONSTANTS
  p1 = p1
  p2 = p2
  Partitions <- TwoPartitions
  NumRecords = 2
  ChanCap = 2
  Faults <- ProducerFaults
  MaxFaults = 2
  MaxCrashes = 1
  MaxStops = 1
SYMMETRY PartitionSymmetry
INVARIANTS
  ExactlyOnceEffects
  StoreIsCommitted
  ViewMatchesBuffer
PROPERTIES
  ImplementsExactlyOnce
