SPECIFICATION MCSpec
CONSTANTS
  Goroutines = {g1, g2}
  MaxAttempts = 2
  MaxCalls = 2
  Writers = {p1, p2}
  PendingLength = 1
  MaxWrites = 3
  Listeners = {l1, l2}
  MaxVersion = 3
  MaxTotal = 4
  MaxPar = 3
  Ops = {1}
  Handlers = {h1, h2}
  MaxFrames = 2
  MaxManagers = 2
  MaxConns = 2
INVARIANTS AnswersAreTrue StopFlushes NoLostNotification DecodeInvertsEncode
PROPERTIES ReturnsFaithfully ReplacedDisconnects
CHECK_DEADLOCK FALSE
