SPECIFICATION FairSpec
CONSTANTS
  Threads = {main, v1, w1}
  Main = main
  VCpus = {v1}
  Workers = {w1}
  Nobody = Nobody
  BHs = {b1}
  NoBH = NoBH
  MaxDepth = 2
  MaxSpin = 1
  Pollers = {main, v1}
  IdleCallers = {}
INVARIANTS
  MainLoopSafe
PROPERTIES
  BhExecutedUnlessPolled
  BqlYielded
