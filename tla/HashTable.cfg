SPECIFICATION Spec
CONSTANTS
  Keys <- CollidingKeys
  Values = {v1, v2}
  InitialBuckets = {1}
  NULL = NULL
  NoIter = NoIter
  NoItem = NoItem
SYMMETRY Interchangeable
INVARIANTS
  ItemsInTheirBuckets
  
PROPERTY ImplementsMap
