SPECIFICATION FairSpec
CONSTANTS
  NDirs = 0
  NFiles = 1
  v1 = v1
  v2 = v2
  Version <- OneVersion
  Size <- SizeOfOne
  ChunkSize = 1
  ChannelCapacity = 2
  EnableResume = TRUE
  MayEdit = FALSE
  Preexisting <- AllFiles
  MaxFaults = 3
  NoVersion = NoVersion
  Absent = Absent
INVARIANTS
  SkippedBytesAreThere
  NoSpuriousMismatch
  NoLostProgress
PROPERTY RetriesSucceed
