SPECIFICATION FairSpec
CONSTANTS
  p1 = p1  p2 = p2  p3 = p3  p4 = p4
  Payload <- Payloads4
  Key <- KeyOf
  Node = {n1, n2, n3, n4}
  NULL = NULL
  NoIter = NoIter
INVARIANTS
  WellLinked
  NoDanglingNode
PROPERTIES
  ImplementsList
  SortEnds
