SPECIFICATION FairManagerSpec
CONSTANTS
  c1 = c1
  c2 = c2
  Caller <- TwoCallers
  MaxStarts = 2
  NoOne = NoOne
INVARIANTS
  StoppedIsTrue
  ListenerIsShown
  SnapshotSettles
PROPERTY RequestsAnswered
