CONSTANTS
  env = env
  file = file
  Kinds = {}
  Values = {0}
  Empty = 0
  NoSnap = NoSnap
  NoCaps = NoCaps
  NoApply = NoApply
  NoEvent = NoEvent
  Events <- TwoMutations
  EvKey <- Key
  EvTs <- Ts
  EvKind <- Kind
  CapSets <- EventsOnly
  MaxAttempts = 2
  MaxTries <- OneTry
  Budget <- CreateBudget
SPECIFICATION Spec
INVARIANTS
  ChargedOnlyWhenTried
PROPERTIES
  HeldBehindMutation
