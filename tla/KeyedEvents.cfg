CONSTANTS
  env = env
  file = file
  Kinds = {}
  Values = {0}
  Empty = 0
  NoSnap = NoSnap
  NoCaps = NoCaps
  NoApply = NoApply
  NoEvent = NoEvent
  Events <- DefaultsEvents
  EvKey <- Key
  EvTs <- Ts
  EvKind <- Kind
  CapSets <- EventsOnly
  MaxAttempts = 2
  MaxTries <- OneTry
  Budget <- KeyBudget
SPECIFICATION Spec
PROPERTIES
  OlderNeverAfterNewer
  JournalKept
INVARIANTS
  SettledMeansRan
