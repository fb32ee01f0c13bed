SPECIFICATION Spec
CONSTANTS
  Threads = {home, w1}
  Home = home
  Clients = {}
  Workers = {w1}
  BHs = {b1, b2}
  NoBH = NoBH
  MaxDepth = 2
  ClientModes = {}
SYMMETRY Symmetry
INVARIANTS
  NoDanglingBh
  NoLostWakeup
