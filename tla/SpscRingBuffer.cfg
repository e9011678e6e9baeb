SPECIFICATION FairSpec
CONSTANTS
  Size = 3
  Bytes = {0, 1}
  MaxWrite = 2
  MaxAcquire = 2
INVARIANTS
  NoMissedWakeup
PROPERTIES
  ViewIsStable
  ImplementsByteStream
  CallsReturn
