SPECIFICATION Spec
CONSTANTS
  t1 = t1
  t2 = t2
  NoErr = NoErr
  Fns <- NoTables
  NumConsumers = 1
  RunnerFaults <- NoFault
CHECK_DEADLOCK FALSE
PROPERTIES
  StopSignalsRun
