SPECIFICATION WriteSpec
CONSTANTS
  NumBlocks = 4
  Errors <- EveryError
INVARIANTS
  WriteTypeOK
  CommitRecordIsLast
  FailureLeavesNoIndex
  ReturnedBodyIsDurable
