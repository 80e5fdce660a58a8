SPECIFICATION Spec

CONSTANTS
  t1 = t1
  t2 = t2
  chars = chars
  longs = longs
  b1 = b1
  b2 = b2
  b3 = b3
  NoBlock = NoBlock
  Thread <- TwoThreads
  Type <- TwoTypes
  Bytes <- BytesOf
  Block <- ThreeBlocks
  ForceNew = FALSE

SYMMETRY Symmetry

INVARIANTS
  RoomEnough

PROPERTIES
  DeletedFromNew
  ImplementsPool
