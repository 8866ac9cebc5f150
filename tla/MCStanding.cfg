SPECIFICATION Spec
CONSTANTS
  p1 = p1 p2 = p2 s1 = s1 u1 = u1 u2 = u2 h1 = h1 c1 = c1 mimir = mimir
  Fetches = {p1, p2, s1}
  Urls = {u1, u2}  Hosts = {h1}  Callers = {c1, mimir}
  Url <- UrlOf  Host <- HostOf1  Caller <- CallerOf
  Batch = 4  Browsers = 1  Rendering = TRUE  Nobody = Nobody  MaxMishaps = 1
  Tasks = {"t1"}  Reviews = {c1}  Reports = {"e1"}
  External = {"ext1"}  OwnWords = {"own"}  Invented = {"ghost"}
  Runnable = {}  Refs = 12  Point <- OneEach  Points = 1  MaxPages = 3
  Top = 2  Ceiling = 1  Start = 1
  Support = 1  Contradict = 1  Exhausted = 1  MaxRound = 2
  Weaken = 1  KillWeaken = 2  MaxWeaken = 1
  Swings <- Scale
INVARIANTS LiteratureCapped OwnWordsDontCount GateAccounted
CHECK_DEADLOCK FALSE
