SPECIFICATION FairSpec
CONSTANTS
  Keys = {abs, ar5iv}
  PaperOf <- OnePaper
  Notes = {note}
  Requests = {gap}
  Exempt = {}
  Backlog = 1
  MaxCalls = 2
  MaxMishaps = 1
INVARIANTS SearchableApproved RepliesTruthful
PROPERTIES RequestsAnswered
CHECK_DEADLOCK FALSE
