SPECIFICATION FairSpec
CONSTANTS
  x1 = x1  x2 = x2
  Experiments = {x1, x2}
  MaxCpu = 1
  MaxGpu = 1
  MaxIters = 2
  NoExperiment = NoExperiment
  MaxMishaps = 1
INVARIANTS  EventTellsTheRow
PROPERTIES RowLifeKept RunEnds
