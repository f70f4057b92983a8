CONSTANTS
  Nodes = {n1, n2, n3}
  Addresses = {a, b}
  Attempts = 2
  firstNode = n1
  firstAddress = a
SPECIFICATION Spec
SYMMETRY RegistrySymmetry
INVARIANTS ExclusiveIsSingle
CHECK_DEADLOCK FALSE
