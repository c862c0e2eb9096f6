SPECIFICATION FairSpec
CONSTANTS
  FileLen = 5
  File <- FileOfOffsets
  BufLen = 2
  Lengths <- SmallLengths
  Offsets <- SmallOffsets
  Whences = {"SEEK_SET", "SEEK_CUR", "SEEK_END"}
  MaxPos = 7
INVARIANTS
  TypeOK
  BufferMirrorsFile
  GotIsTheFile
PROPERTIES
  
  ReadReturns
