SPECIFICATION Spec
CONSTANTS
  BufSize = 3
  MaxChunk = 2
  BodyLen = 4
  MaxRead = 2
  MaxHops = 0
  Types = {audio}
  NoType = NoType
  ResumeChunks = 1
INVARIANTS
  BrokenIsNotFinished
