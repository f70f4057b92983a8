CONSTANTS
  Nodes = {n1, n2}
  Addresses = {a, b}
  Attempts = 2
  firstNode = n1
  firstAddress = a
SPECIFICATION MCFairSpec
INVARIANTS TypeOK UniqueServerID RegisteredIsVisible RestartTakesOver
PROPERTIES ZombieExits GoneIsForgotten
CHECK_DEADLOCK FALSE
