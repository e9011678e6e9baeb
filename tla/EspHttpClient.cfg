SPECIFICATION FairSpec
CONSTANTS
  MaxAttempts = 6
  MaxRedirections = 5
  Types = {audio, page}
  NoType = NoType
  MaxBody = 2
INVARIANTS
  TypeOK
  HandleOwned
  HeadersWithinBudget
  RetriedResponseOnly
  ResultIsTrue
PROPERTIES
  DownloadEnds
