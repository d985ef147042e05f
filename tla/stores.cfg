SPECIFICATION Spec
CONSTANTS
  Keys <- MCKeys
  Values <- MCValues
  Changelog <- MCChangelog
  IndexQueries <- MCIndexQueries
  NumPartitions = 2
  ChanSize = 1
  InitialEnds <- MCInitialEnds
  MaxRestores = 2
  MaxProduced = 1
  MaxFailures = 1
INVARIANTS
  SyncedIsComplete
  IndexAgreesWithStore
  FoundIfHeld
PROPERTIES
  RestoreEnds
CHECK_DEADLOCK FALSE
