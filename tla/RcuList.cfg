SPECIFICATION Spec

CONSTANTS
  n1 = n1
  n2 = n2
  n3 = n3
  i1 = i1
  i2 = i2
  i3 = i3
  r1 = r1
  ListHead = ListHead
  Poison = Poison
  NoNode = NoNode
  NoItem = NoItem
  Node <- ThreeNodes
  Item <- ThreeItems
  Reader <- OneReader

SYMMETRY Symmetry

INVARIANTS
  ReadersSafe
  SeesAll

PROPERTIES
  SeesOnce
  ImplementsList
