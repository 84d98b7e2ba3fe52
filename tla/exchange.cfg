SPECIFICATION ExchangeSpec
CONSTANTS
  Byte <- Bytes
  Letter <- Letters
  BlockSize = 2
  LengthSize = 1
  Names <- AwkwardName
  OtherName <- OtherFile
  OtherContent <- OtherBytes
  Contents <- SmallFiles
  ChunkSize = 2
  HashChunk = 1
  MaxFaults = 1
INVARIANTS
  AcceptedIsAnnounced
  DigestIsOfContent
  StateFileReadable
  OtherRecordKept
  NoFailureOfItsOwn
PROPERTY ChannelSpec
