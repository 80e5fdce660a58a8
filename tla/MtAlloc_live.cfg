SPECIFICATION SerialFairSpec

CONSTANTS
  t1 = t1
  t2 = t2
  b1 = b1
  b2 = b2
  b3 = b3
  b4 = b4
  NoBlock = NoBlock
  NoThread = NoThread
  Thread <- TwoThreads
  Block <- ThreeBlocks
  MaxThreads = 2
  BlockCount = 3
  Headroom = 2
  Slack = 1
  WordSize = 8
  Active = TRUE

SYMMETRY BlockSymmetry

INVARIANTS
  UsedCountExactSerial
  NoWalkOffSerial

PROPERTIES
  OnceWaitersPass
  MutexReleased

CHECK_DEADLOCK FALSE
