SPECIFICATION Spec

CONSTANTS
  t1 = t1
  t2 = t2
  small = small
  large = large
  s1 = s1
  s2 = s2
  s3 = s3
  NoThread = NoThread
  NoSuper = NoSuper
  NoType = NoType
  Thread <- TwoThreads
  Type <- TwoTypes
  Words <- WordsOf
  Super <- TwoSupers
  Bits = 1
  MaxBlocks = 2
  MaxStore = 1
  Enabled = TRUE
  OutOfMemory = TRUE
  PushThrows = FALSE

SYMMETRY Symmetry

INVARIANTS
  TypeOK
  SuperExclusive
  SuperKept
  LargeEnough

PROPERTIES
  ImplementsPool

CHECK_DEADLOCK FALSE
