SPECIFICATION FairDashboardSpec
CONSTANTS
  t1 = t1
  t2 = t2
  Task <- OneTask
  Loop = Loop
  NoTask = NoTask
  QueueSize = 1
  WireCapacity = 1
  SequenceWrap = 4
  MaxConnections = 1
  MaxProgress = 0
  AnswersInOrder = FALSE
  MaxAsked = 1
  NoSnapshot = NoSnapshot
  NoNumber = NoNumber
PROPERTY DashboardSettles
