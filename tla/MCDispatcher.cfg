SPECIFICATION FairSpec
CONSTANTS
  e1 = e1  e2 = e2  e3 = e3  e4 = e4  w1 = w1  w2 = w2
  Events = {e3, e4}
  Row <- MCRow
  Wakes = {w1, w2}
  Agents = {"critic"}
  HandlerAgent <- MCHandlerAgent
  NoAgent = NoAgent
  NoTarget = NoTarget
  NoEvent = NoEvent
  Lanes = {"critic"}
  LaneCap <- MCLaneCap
  MaxHandlers = 1
  DrainMax = 1
  SweepLimit = 1
  MaxQueued = 1
  Mishaps = {"die", "deaf", "database", "dial", "cost", "slop"}
  MaxMishaps = 1
INVARIANTS PermitsConserved NoLostWakeup
PROPERTIES ImplementsContract
