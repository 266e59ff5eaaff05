CONSTANTS
  env = env
  file = file
  Kinds = {env, file}
  Values = {0, 1}
  Empty = 0
  NoSnap = NoSnap
  NoCaps = NoCaps
  NoApply = NoApply
  NoEvent = NoEvent
  Events <- NoEvents
  EvKey <- Key
  EvTs <- Ts
  EvKind <- Kind
  CapSets <- BothKinds
  MaxAttempts = 2
  MaxTries <- TwoTries
  Budget <- RacesBudget
SPECIFICATION Spec
SYMMETRY KindSymmetry
INVARIANTS
  CursorsOrdered
  AppliedIsOnDisk
PROPERTIES
  CursorsMonotone
