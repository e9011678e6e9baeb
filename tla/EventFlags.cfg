SPECIFICATION FairSpec
CONSTANTS
  Threads <- MCThreads
  Bits <- MCBits
  Requests <- MCRequests
  NoRequest = NoRequest
INVARIANTS
  NoMissedWakeup
PROPERTIES
  ImplementsEventGroup
