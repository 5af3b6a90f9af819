CONSTANTS
  w1 = w1  w2 = w2
  Workspaces = {w1}
  Callers = {c1}
  Passes = {p1}
  Ids = {i1, i2}
  None = None
  MaxActive = 1
  MaxConns = 1
  MaxFaults = 1
CONSTRAINT FewRequests
SPECIFICATION Spec
INVARIANTS
  RuntimesTypeOK
  ActiveIsCounted
PROPERTIES
  FollowsTable
  CapabilityKept
