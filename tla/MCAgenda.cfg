SPECIFICATION FairSpec
CONSTANTS
  Dirs = {d1}
  Strong = {d1}
  Budget = 1
  Decisions = {"approved"}
  MaxCalls = 2
  MaxLooks = 1
  MaxMishaps = 1
INVARIANTS MissionsBounded
PROPERTIES ExhaustedReframed DirectionsJudged PassedApproved
CHECK_DEADLOCK FALSE
