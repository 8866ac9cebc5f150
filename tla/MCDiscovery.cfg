SPECIFICATION FairSpec
CONSTANTS
  broad = broad  narrow = narrow  w1 = w1  w2 = w2  e1 = e1  e2 = e2  e3 = e3
  NoEvent = NoEvent  NoTopic = NoTopic  NoOne = NoOne
  Frontier <- OneTopic
  SliceSize = 1
  Claims = {broad}
  Requests = {e1}
  Sweepers = {w1,w2}
  MaxOffset = 1
  LowWater = 1
  TripAt = 1
  Depth = 2
  MaxMishaps = 1
PROPERTIES  WalkGoesOn
CHECK_DEADLOCK FALSE
