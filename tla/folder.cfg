SPECIFICATION Spec
CONSTANTS
  NDirs = 1
  NFiles = 2
  v1 = v1
  v2 = v2
  Version <- TwoVersions
  Size <- SizeOfTwo
  ChunkSize = 2
  ChannelCapacity = 2
  EnableResume = FALSE
  MayEdit = TRUE
  Preexisting <- AllFiles
  MaxFaults = 2
  NoVersion = NoVersion
  Absent = Absent
INVARIANTS
  InStep
  AgreeWithoutFaults
  VerifiedIntact
  SuccessMeansComplete
PROPERTIES
  ExistingFilesUntouched
  DeliverySpec
