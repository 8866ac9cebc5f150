SPECIFICATION FairSpec
CONSTANTS
  NoUser = NoUser
  Critics = {"c1"}
  Planners = {}
  Auditors = {"a1"}
  Verifiers = {}
  Debuggers = {"d1"}
  Guests = {g1}
  GuestModel <- MCGuestModel
  Pages = {"page1", "page2"}
  Findings = {"finding1"}
  MaxInFlight = 2
  Cap <- MCCap
  Concurrency = 1
  MaxTriggers = 2
  MaxMishaps = 1
INVARIANTS PermitsAccounted 
PROPERTIES LocalServed
CHECK_DEADLOCK FALSE
