\* Two jobs of one organization, a manual run each, one slot.
CONSTANTS
  p1 = p1  o1 = o1  j1 = j1  j2 = j2  e1 = e1  NoRun = NoRun
  Projects = {p1}
  Orgs = {o1}
  Jobs = {j1, j2}
  Events = {}
  OrgOf <- OneOrg
  ProjectOf <- OneProject
  MaxAttempts = 1
  MaxGlobalRuns = 2
  MaxOrgRuns = 1
  LeaseTicks = 1
  Failures = {"failed", "timeout", "cancelled"}
  MaxRevision = 0
  MaxOrdinary = 1
  MaxConcurrentRuns = 1
  Inspections = {TRUE}
  Kills = {TRUE}
  MaxRestarts = 0
CONSTRAINT NoShutdown
SPECIFICATION RunnerSpec
CHECK_DEADLOCK FALSE
INVARIANTS
  SlotAccounting
  ConcurrencyLimits
