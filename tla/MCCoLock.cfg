SPECIFICATION FairSpec
CONSTANTS
  Coroutines = {c1, c2, c3}
  MaxStack = 2
  PoolFull = FALSE
INVARIANTS
  CoroutinesSafe
  Exclusion
  HandedOver
PROPERTIES
  WokenRuns
