SPECIFICATION LayoutSpec
CONSTANTS
  whale = whale ship = ship sea = sea hale = hale boat = boat
  n1 = n1 n2 = n2 n3 = n3
  Words = {whale, ship, sea, hale, boat}
  Names = {n1, n2, n3}
  Hash <- Hashes
  Length <- Sizes
  DocTables <- SomeDocTables
  MemIndexes <- SomeMemIndexes
INVARIANTS
  LayoutTypeOK
  FileIsTiled
  ReadersFindTheTables
