SPECIFICATION FairSpec
CONSTANTS
  N = 1
  Hopeless = {}
  MaxTasks = 1
  Coverage = 1
  ResynthStep = 1
  EvidenceCap = 2
  GiveUp = 1
  Engine = TRUE
  MaxCalls = 2
  MaxRequests = 2
  MaxConfirms = 1
  MaxMishaps = 1
PROPERTIES ApprovedProposed Marched SettledWritten
CHECK_DEADLOCK FALSE
