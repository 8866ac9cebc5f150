SPECIFICATION FairSpec
CONSTANTS
  w1 = w1  w2 = w2  t1 = t1  t2 = t2  t3 = t3
  Tasks <- MCTasks
  Research = {1}
  Rank <- MCRank
  Triggers = {t1, t2, t3}
  Workers = {w1, w2}
  NoTask = NoTask
  NoTrigger = NoTrigger
  HandlerTimeout = 1
  StaleHorizon = 1
  MaxMishaps = 2
INVARIANTS Exclusive NoExcessTriggers
PROPERTIES VerdictStands EveryTaskEnds
