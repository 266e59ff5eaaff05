CONSTANTS
  c1 = c1
  c2 = c2
  c3 = c3
  p1 = p1
  o1 = o1
  o2 = o2
  t1 = t1
  t2 = t2
  get = get
  put = put
  Calls = {c1, c2, c3}
  Proposals = {p1}
  Tools = {t1, t2}
  Scenarios <- ToolAfterCall
  None = None
  Shapes = {get, put}
  HostWide = HostWide
  ShapeOf <- ShapeTable
  Owners = {o1, o2}
  ProposalMax = 2
  ToolCallOf <- OneToolCall
  Offered = {"allow_once", "deny_once"}
  Decisions = {"allow_once", "allow"}
  EndAttempts = 2
  BatchSize = 1
SPECIFICATION FairSpec
PROPERTIES
  DecisionReachesTool
CHECK_DEADLOCK FALSE
