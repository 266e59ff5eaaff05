CONSTANTS
  env = env
  file = file
  Kinds = {env}
  Values = {0, 1}
  Empty = 0
  NoSnap = NoSnap
  NoCaps = NoCaps
  NoApply = NoApply
  NoEvent = NoEvent
  Events <- NoEvents
  EvKey <- Key
  EvTs <- Ts
  EvKind <- Kind
  CapSets <- EnvOnly
  MaxAttempts = 2
  MaxTries <- TwoTries
  Budget <- CatchUpBudget
SPECIFICATION FairSpec
PROPERTIES
  AgentCatchesUp
  VersionsSettle
