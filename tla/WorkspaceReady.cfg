CONSTANTS
  env = env
  file = file
  Kinds = {}
  Values = {0}
  Empty = 0
  NoSnap = NoSnap
  NoCaps = NoCaps
  NoApply = NoApply
  NoEvent = NoEvent
  Events <- OneSeed
  EvKey <- Key
  EvTs <- Ts
  EvKind <- Kind
  CapSets <- NoWorkspaceAfterUpdate
  MaxAttempts = 1
  MaxTries <- OneTry
  Budget <- GapBudget
SPECIFICATION FairSpec
PROPERTIES
  WorkspaceGetsReady
INVARIANTS
  RefireOnlyAcrossCrash
