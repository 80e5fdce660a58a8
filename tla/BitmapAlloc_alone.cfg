SPECIFICATION FairSpec

CONSTANTS
  t1 = t1
  t2 = t2
  small = small
  large = large
  s1 = s1
  s2 = s2
  s3 = s3
  NoThread = NoThread
  NoSuper = NoSuper
  NoType = NoType
  Thread <- OneThread
  Type <- TwoTypes
  Words <- WordsOf
  Super <- TwoSupers
  Bits = 2
  MaxBlocks = 2
  MaxStore = 2
  Enabled = FALSE
  OutOfMemory = TRUE
  PushThrows = TRUE

INVARIANTS
  CachesSound
  BlockSizeExact
  StoreOrdered
  UseCountExact
  HandlerRestored

PROPERTIES
  CallEnds
