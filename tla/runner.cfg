SPECIFICATION FairSpec
CONSTANTS
  t1 = t1
  t2 = t2
  NoErr = NoErr
  Fns <- TwoTables
  NumConsumers = 2
  RunnerFaults <- AnyFault
CHECK_DEADLOCK FALSE
INVARIANTS
  ReadyHonest
  RunReports
  GlobalFirst
  RunLeavesNothing
PROPERTIES
  StreamStopsFirst
  GlobalStopEnds
  FailureEndsGlobal
