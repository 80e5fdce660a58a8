SPECIFICATION Spec

CONSTANTS
  t1 = t1
  t2 = t2
  b1 = b1
  b2 = b2
  b3 = b3
  b4 = b4
  NoBlock = NoBlock
  NoThread = NoThread
  Thread <- TwoThreads
  Block <- FourBlocks
  MaxThreads = 2
  BlockCount = 2
  Headroom = 2
  Slack = 1
  WordSize = 32
  Active = TRUE

SYMMETRY Symmetry

INVARIANTS
  NoWalkOff

CHECK_DEADLOCK FALSE
