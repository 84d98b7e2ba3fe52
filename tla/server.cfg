SPECIFICATION FairSpec
CONSTANTS
  c1 = c1
  c2 = c2
  Caller <- TwoCallers
  MaxStarts = 2
  NoOne = NoOne
CHECK_DEADLOCK FALSE
INVARIANTS
  ServerIsItsOwn
  StatusIsTrue
  StopInterruptsReceive
PROPERTIES
  LifecycleSpec
  StoppingEnds
  CallsReturn
  DestructorReturns
