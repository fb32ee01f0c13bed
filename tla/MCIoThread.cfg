SPECIFICATION Spec
CONSTANTS
  Threads = {home, c1, c2, w1}
  Home = home
  Clients = {c1, c2}
  Workers = {w1}
  BHs = {b1}
  NoBH = NoBH
  MaxDepth = 1
  ClientModes = {TRUE, FALSE}
INVARIANTS
  IoThreadSafe
