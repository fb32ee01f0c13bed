SPECIFICATION FairSpec
CONSTANTS
  Fds = {f1, f2}
  Nodes = {n1, n2, n3}
  NoNode = null
  Registrations = {{"read", "write"}}
  MaxDepth = 2
INVARIANTS
  HandlersSafe
PROPERTIES
  RemovedNotCalled
  DeletedFreed
