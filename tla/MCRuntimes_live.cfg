CONSTANTS
  w1 = w1  w2 = w2
  Workspaces = {w1, w2}
  Callers = {}
  Passes = {p1}
  Ids = {i1, i2}
  None = None
  MaxActive = 1
  MaxConns = 0
  MaxFaults = 2
CONSTRAINTS FirstOnly FewRequests NoBrowser
SPECIFICATION FairSpec
PROPERTIES
  LeasedSettles
  FailedIsCleaned
  ExpiredStops
\* A row left in PROVISIONING with no lease waits for a user.
CHECK_DEADLOCK FALSE
