SPECIFICATION Spec
CONSTANTS
  a = "a"
  ab = "ab"
  Topics <- MCTopics
  RepTopics = {"r"}
  Stores = {"s"}
  GStores = {"g"}
  Processors = {"filter"}
  Rekeyers = {"flatmap"}
  Calls <- MCCalls
  Brokers <- MCBrokers
  MaxInstances = 2
  MaxResets = 1
  Letters <- MCLetters
CHECK_DEADLOCK FALSE
INVARIANTS
  NothingLost
  StoresPresent
  JoinedSourcesCoPartitioned
  RepartitionTopicsMeet
  RecordsFollowPaths
  AgreedTasks
