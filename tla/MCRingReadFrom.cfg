CONSTANTS
  MinRead = 2
  DefaultBufferSize = 2
  GrowThreshold = 4
  MaxSize = 5
  MaxChunk = 3
  MaxStream = 3
  NumBytes = 6
  AwkwardIO = TRUE
SPECIFICATION Spec
INVARIANTS HoldsWhatWasWritten
CHECK_DEADLOCK FALSE
