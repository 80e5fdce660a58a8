SPECIFICATION Spec
CONSTANTS
  Char <- TwoChars
  BufSizes <- Sizes
  Chunk = 2
  MaxLen = 4
  MaxPut = 3
  PastEnd = FALSE
INVARIANTS
  OneBuffer
  GetAreaFresh
  Synced
PROPERTIES
  ImplementsStream
