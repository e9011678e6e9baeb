CONSTANTS
  FileTypes = {mp3}
  NoType = NoType
  RingCapacity = 1
  BufferChunks = 1
  MaxFailures = 0
  MaxPlays = 2
  MaxLoopDepth = 1
SPECIFICATION LiveSpec
PROPERTIES
  StopReturns
  ReaderFollowsDecoder
  RefinesLifecycle
