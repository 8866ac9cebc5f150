SPECIFICATION FairSpec
CONSTANTS
  NoLesson = NoLesson  NoRun = NoRun
  LoopIdeas = {"loop"}
  AriadneIdeas = {"ariadne"}
  Generations = 2
  Steps = {s1}
  Deliberations = {}
  Reflects = {r1, r2}
  Plans = {p1}
  Batches = {b1}
  p1 = p1 s1 = s1  s2 = s2  d1 = d1  r1 = r1  r2 = r2  b1 = b1  b2 = b2
  PromoteAt = 2
  Tolerated = 0
  RetireAt = 1
INVARIANTS CountedOnce 
PROPERTIES ProbationEnds
CHECK_DEADLOCK FALSE
