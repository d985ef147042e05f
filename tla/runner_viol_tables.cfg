SPECIFICATION Spec
CONSTANTS
  t1 = t1
  t2 = t2
  NoErr = NoErr
  Fns <- TwoTables
  NumConsumers = 1
  RunnerFaults <- TableOnly
CHECK_DEADLOCK FALSE
INVARIANTS
  TablesRestored
