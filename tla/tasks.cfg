SPECIFICATION FairTaskSpec
CONSTANTS
  t1 = t1
  t2 = t2
  Task <- TwoTasks
  Loop = Loop
  NoTask = NoTask
  QueueSize = 1
  WireCapacity = 1
  SequenceWrap = 1
  MaxConnections = 0
  PoolSize = 1
  MaxProgress = 2
CHECK_DEADLOCK FALSE
INVARIANTS
  FinalStateIsTrue
PROPERTIES
  LifecycleSpec
  CancelReachesSend
  ReturnedSendEndsTask
