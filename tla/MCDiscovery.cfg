SPECIFICATION MCSpec
CONSTANTS
  Nodes = {n1, n2}
  NoNode = none
  ActiveKey = active
  InRange = {n1}
  ChanCap = 1
  MaxRev = 4
INVARIANTS TypeOK OneActive CaughtUpIsCurrent
PROPERTIES StandbyTakesOver StopReturns
CHECK_DEADLOCK FALSE
