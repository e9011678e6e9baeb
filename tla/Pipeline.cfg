SPECIFICATION FairSpec
CONSTANTS
  NoRequest = NoRequest
  NamedType <- NamedTypes
  ExtensionType <- ExtensionTypes
  ContentTypes <- TypesNamed
  Urls <- UrlsGiven
  Builds <- BuildsTried
  MaxBody = 4
  RingSize = 3
  TransferSize = 2
  RxBufferSize = 0
  DefaultRxBufferSize = 3
  MinOutput = 3
  Required = {1, 3}
  MaxFailures = 1
INVARIANTS
  TypeOK
  WrittenInOrder
  FedInOrder
  FinishedMeansPlayed
  RoomForCodec
PROPERTIES
  TypeAsDocumented
  PlaybackEnds
