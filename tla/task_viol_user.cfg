SPECIFICATION Spec
CONSTANTS
  p1 = p1
  p2 = p2
  Partitions <- OnePartition
  NumRecords = 2
  ChanCap = 1
  Faults <- UserOnly
  MaxFaults = 1
  MaxCrashes = 0
  MaxStops = 1
INVARIANT IgnoredExcluded
