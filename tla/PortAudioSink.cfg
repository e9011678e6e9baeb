SPECIFICATION FairSpec
CONSTANTS
  Capacity = 3
  Requested = 2
  MaxPcm = 4
  MaxPlaybacks = 2
INVARIANTS
  TypeOK
  PlayedInOrder
  TailPlayed
PROPERTIES
  WriteReturns
