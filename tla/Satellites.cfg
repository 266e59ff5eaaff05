CONSTANTS
  p1 = p1
  p2 = p2
  a1 = a1
  a2 = a2
  o1 = o1
  d1 = d1
  d2 = d2
  MaxSeq = 2
  MaxCalls = 2
  Limit = 1
  MaxUnsent = 1
  First = p1
  Workers = {p1, p2}
  Agents = {a1, a2}
  Owners = {o1}
  Deliveries = {d1, d2}
  Scenarios <- EachScenario
SPECIFICATION FairSpec
INVARIANTS
  NoBacklog
  NeverRetried
  OwnOutcome
  OneTurn
PROPERTIES
  SettledStays
  UntoldIsKept
  JobsSettle
  CancelReaches
  OutcomeReaches
CHECK_DEADLOCK FALSE
