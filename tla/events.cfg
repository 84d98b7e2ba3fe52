SPECIFICATION EventsSpec
CONSTANTS
  t1 = t1
  t2 = t2
  Task <- TwoTasks
  Loop = Loop
  NoTask = NoTask
  QueueSize = 1
  WireCapacity = 1
  SequenceWrap = 1
  MaxConnections = 1
  MaxProgress = 1
INVARIANTS
  NoLostWakeup
  OverfullWithEndsOnly
PROPERTY EndsAreDelivered
SYMMETRY Symmetric
