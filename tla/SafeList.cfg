SPECIFICATION Spec

CONSTANTS
  l1 = l1
  l2 = l2
  n1 = n1
  n2 = n2
  n3 = n3
  i1 = i1
  i2 = i2
  c1 = c1
  NoList = NoList
  List <- TwoLists
  Node <- ThreeNodes
  Iter <- ThreeIters
  ConstIter <- OneConst
  MergesHeld = FALSE
  SwapsEnds = FALSE

SYMMETRY Symmetry

INVARIANTS
  TypeOK
  ChecksSound

PROPERTIES
  ImplementsIterators
