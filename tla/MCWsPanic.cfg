CONSTANTS
  Callers = {c1, c2}
  SendQueueSize = 1
  RecvQueueSize = 1
  ReadTimeout = FALSE
  WriteTimeout = FALSE
  MaxSends = 1
  MaxFrames = 1
SPECIFICATION Spec
INVARIANTS NoSendOnClosedChannel
CHECK_DEADLOCK FALSE
