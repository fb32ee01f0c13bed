SPECIFICATION FairSpec
CONSTANTS
  Threads = {t1, t2, t3}
  None = None
  Wrap = 4
  MaxNesting = 2
INVARIANTS
  TicketsConsistent
  MutualExclusion
  TurnSignalled
  ContentionReported
PROPERTIES
  ImplementsFifoMutex
  NoStarvation
