SPECIFICATION Spec
CONSTANTS
  c1 = c1 c2 = c2 whale = whale ocean = ocean ship = ship d1 = d1 d2 = d2
  Clients = {c1, c2}
  Words = {whale, ocean, ship}
  Docs = {d1, d2}
  NumIndexes = 2
  Contents <- TwoContents
  Queries <- SomeQueries
  MaxFds = 13
  MaxQueries = 3
CHECK_DEADLOCK FALSE
INVARIANTS
  ResultIsConjunction
  
