SPECIFICATION Spec
CONSTANTS
  Letters = {"a", "b", "A"}
  tolower <- LowerCase
  Boundary = "-"
  NonAscii = "#"
  NUL = "0"
  Files = {2, 4, 6, 8, 9, 10, 11}
  Bytes <- Texts
  Trees <- SomeTrees
  Root = 1
  MAX_NUM_DIR_ENTRIES = 3
  Queries <- SomeQueries
  MaxQueries = 2
INVARIANTS
  TypeOK
  TablesAreInverse
  
  SearchIsConjunction
PROPERTIES
  ShellComesBack
