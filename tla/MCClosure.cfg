SPECIFICATION FairSpec
CONSTANTS
  SynthMin = 1
  Relooks = 1
  StuckAfter = 2
  TaskCap = 1
  MaxQueued = 1
  MaxPlans = 1
  MaxMishaps = 1
INVARIANTS OneRetry
PROPERTIES LifecycleKept LadderSawTheField ThinIsSettled
CHECK_DEADLOCK FALSE
