SPECIFICATION WriteSpec
CONSTANTS
  NumBlocks = 4
  Errors <- NoError
INVARIANT SuccessIsDurable
