SPECIFICATION FairSpec
CONSTANTS
  Threads = {main, t1}
  Main = main
  Registering = {main, t1}
  Readers = {t1}
  Callers = {main, rcu}
  RcuThread = rcu
  Nodes = {n1, n2}
  Dummy = dummy
  NoNode = null
  MaxNesting = 2
  UintMod = 64
  RCU_CALL_MIN_SIZE = 2
  MaxTries = 1
INVARIANTS
  RcuSafe
  CallbackAfterReaders
PROPERTIES
  CallbackInvoked
