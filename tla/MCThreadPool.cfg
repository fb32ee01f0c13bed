SPECIFICATION FairSpec
CONSTANTS
  Reqs = {r1, r2}
  Workers = {w1, w2}
  MaxThreads = 2
  NoReq = NoReq
INVARIANTS
  TokenAccounting
  ThreadAccounting
  SpawnNotLost
  Ownership
  FreedQuiescent
PROPERTIES
  ImplementsAsyncWork
  QueuedServed
  CompletionDelivered
  FreeTerminates
