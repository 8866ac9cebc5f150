SPECIFICATION FairSpec
CONSTANTS
  Engine = TRUE
  Runs <- MCRuns
  MinRuns = 2
  ResynthStep = 1
  ReadLimit = 2
  RearmCap = 1
  Supports = {"supported", "inconclusive"}
  Confidences = {7}
  RequireReal = FALSE
  MaxCalls = 2
  MaxMishaps = 1
INVARIANTS MovesCounted 
PROPERTIES RunsInterpreted FindingsAudited
CHECK_DEADLOCK FALSE
