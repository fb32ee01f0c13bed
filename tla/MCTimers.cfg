SPECIFICATION FairSpec
CONSTANTS
  Timers = {t1, t2}
  Runner = runner
  Modders = {m1}
  Clocker = clocker
  MaxTime = 2
  MaxMods = 3
  MaxDepth = 1
  RunnerNeedsBql = FALSE
INVARIANTS
  TimersSafe
  DisabledQuiet
PROPERTIES
  DueTimerRuns
  ListWaitEnds
