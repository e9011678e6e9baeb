CONSTANTS
  FileTypes = {mp3, wav}
  NoType = NoType
  RingCapacity = 2
  BufferChunks = 1
  MaxFailures = 0
  MaxPlays = 2
  MaxLoopDepth = 2
SPECIFICATION Spec
INVARIANTS
  TypeOK
  RingHeldWhileInUse
  OnlyThisPlaybacksBytes
  DecodesTheStreamsType
  FinishedMeansDrained
  NoStaleNotification
  NoStrayStop
  OutcomeNotLost
PROPERTIES
  WaitedBitsStay
SYMMETRY Symmetry
