CONSTANTS
  o1 = o1
  o2 = o2
  None = None
  Horizon = 4
  Window = 3
  Day = 2
  Attempts = 2
  Desks = {o1, o2}
  Scenarios <- EachKind
SPECIFICATION FairSpec
INVARIANTS
  RunsOnce
  OutcomeIsTrue
PROPERTIES
  NoneSkipped
  DueFires
  OnceResolves
CHECK_DEADLOCK FALSE
