SPECIFICATION ManagerSpec
CONSTANTS
  c1 = c1
  c2 = c2
  Caller <- OneCaller
  MaxStarts = 2
  NoOne = NoOne
PROPERTY AlreadyRunningIsTrue
