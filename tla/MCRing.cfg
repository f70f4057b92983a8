CONSTANTS
  MinRead = 2
  DefaultBufferSize = 2
  GrowThreshold = 4
  MaxSize = 5
  MaxChunk = 3
  MaxStream = 3
  NumBytes = 6
  AwkwardIO = FALSE
SPECIFICATION Spec
INVARIANTS TypeOK QueriesAgree
PROPERTIES ImplementsFifo
CHECK_DEADLOCK FALSE
