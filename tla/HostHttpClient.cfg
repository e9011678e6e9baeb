SPECIFICATION FairSpec
CONSTANTS
  BufSize = 3
  MaxChunk = 2
  BodyLen = 6
  MaxRead = 2
  MaxHops = 2
  Types = {audio, page}
  NoType = NoType
  ResumeChunks = 1
INVARIANTS
  TypeOK
  BytesInOrder
  NothingLostAtTheEnd
  FinalResponseOnly
PROPERTIES
  DownloadEnds
