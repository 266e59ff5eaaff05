CONSTANTS
  r1 = r1
  r2 = r2
  channels = channels
  watch = watch
  Replicas = {r1, r2}
  Roles = {channels, watch}
  None = None
  Gone = Gone
  TTL = 3
  BackoffMax = 1
  Scenarios <- EachKind
SPECIFICATION FairSpec
INVARIANTS
  AllOrNone
PROPERTIES
  ReleasedWhenStopped
  OneServer
  LeaderServes
