SPECIFICATION FairSpec
CONSTANTS
  Threads = {home, c1, w1}
  Home = home
  Clients = {c1}
  Workers = {w1}
  BHs = {b1}
  NoBH = NoBH
  MaxDepth = 1
  ClientModes = {FALSE}
PROPERTIES
  StopTerminates
  BhServed
  ContextGranted
