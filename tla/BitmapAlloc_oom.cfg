SPECIFICATION Spec

CONSTANTS
  t1 = t1
  t2 = t2
  small = small
  large = large
  s1 = s1
  s2 = s2
  s3 = s3
  NoThread = NoThread
  NoSuper = NoSuper
  NoType = NoType
  Thread <- TwoThreads
  Type <- OneType
  Words <- WordsOf
  Super <- ThreeSupers
  Bits = 2
  MaxBlocks = 2
  MaxStore = 1
  Enabled = TRUE
  OutOfMemory = TRUE
  PushThrows = FALSE

SYMMETRY Symmetry

INVARIANTS
  ClearPossible

CHECK_DEADLOCK FALSE
