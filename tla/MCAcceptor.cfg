CONSTANTS
  Conns = {a, b}
  Users = {u}
SPECIFICATION FairSpec
INVARIANTS TypeOK RemovedIsClosed
PROPERTIES GracefulReturn ServeReturns CloseReturns
