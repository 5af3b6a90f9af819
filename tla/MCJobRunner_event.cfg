\* One delivery with two attempts and one crash; directories and kills are well-behaved.
CONSTANTS
  p1 = p1  o1 = o1  j1 = j1  j2 = j2  e1 = e1  NoRun = NoRun
  Projects = {p1}
  Orgs = {o1}
  Jobs = {j1}
  Events = {e1}
  OrgOf <- OneOrg
  ProjectOf <- OneProject
  MaxAttempts = 2
  MaxGlobalRuns = 2
  MaxOrgRuns = 1
  LeaseTicks = 1
  Failures = {"failed", "timeout", "cancelled"}
  MaxRevision = 0
  MaxOrdinary = 0
  MaxConcurrentRuns = 2
  Inspections = {TRUE}
  Kills = {TRUE}
  MaxRestarts = 1
SPECIFICATION RunnerSpec
CHECK_DEADLOCK FALSE
CONSTRAINT Unattended
INVARIANTS
  OneLeaderPerDelivery
PROPERTIES
  ImplementsDelivery
  RetryAfterAbsence
