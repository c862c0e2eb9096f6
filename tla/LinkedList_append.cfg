SPECIFICATION AppendSpec
CONSTANTS
  p1 = p1  p2 = p2  p3 = p3  p4 = p4
  Payload <- Payloads3
  Key <- KeyOf
  Node = {n1, n2, n3}
  NULL = NULL
  NoIter = NoIter
INVARIANT AppendedNodeIsAllocated
