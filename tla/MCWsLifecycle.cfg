CONSTANTS
  Callers = {c1}
  SendQueueSize = 1
  RecvQueueSize = 1
  ReadTimeout = FALSE
  WriteTimeout = TRUE
  MaxSends = 1
  MaxFrames = 2
SPECIFICATION FairSpec
INVARIANTS HandledInOrder RecvIsSubsequence
PROPERTIES LastMessage CloseEndsLoops CloseReleasesCallers CancelCloses
CHECK_DEADLOCK FALSE
