CONSTANTS
  Callers = {c1, c2}
  SendQueueSize = 1
  RecvQueueSize = 1
  ReadTimeout = FALSE
  WriteTimeout = TRUE
  MaxSends = 2
  MaxFrames = 1
SPECIFICATION MCOutboundSpec
INVARIANTS TypeOK FailedSendIsNeverQueued SenderOrder NoSilentLoss BlockedSendNeverPanics
PROPERTIES CauseIsFaithful DeadAfterOnClosed ImplementsStream
SYMMETRY CallerSymmetry
CHECK_DEADLOCK FALSE
