SPECIFICATION FairSpec
CONSTANTS
  Threads = {main, v1, w1}
  Main = main
  VCpus = {v1}
  Workers = {w1}
  Nobody = Nobody
  BHs = {b1}
  NoBH = NoBH
  MaxDepth = 1
  MaxSpin = 1
  Pollers = {v1}
  IdleCallers = {}
PROPERTIES
  BhExecuted
