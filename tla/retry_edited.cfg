SPECIFICATION FairSpec
CONSTANTS
  NDirs = 0
  NFiles = 1
  v1 = v1
  v2 = v2
  Version <- TwoVersions
  Size <- SizeOfTwo
  ChunkSize = 1
  ChannelCapacity = 2
  EnableResume = TRUE
  MayEdit = TRUE
  Preexisting <- NoFile
  MaxFaults = 4
  NoVersion = NoVersion
  Absent = Absent
PROPERTY EventuallyDelivered
