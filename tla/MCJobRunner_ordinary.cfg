\* One job, a manual run, an edit, one crash or shutdown, everything an inspection or a kill may do.
CONSTANTS
  p1 = p1  o1 = o1  j1 = j1  j2 = j2  e1 = e1  NoRun = NoRun
  Projects = {p1}
  Orgs = {o1}
  Jobs = {j1}
  Events = {}
  OrgOf <- OneOrg
  ProjectOf <- OneProject
  MaxAttempts = 1
  MaxGlobalRuns = 2
  MaxOrgRuns = 1
  LeaseTicks = 1
  Failures = {"failed", "timeout", "cancelled"}
  MaxRevision = 1
  MaxOrdinary = 1
  MaxConcurrentRuns = 2
  Inspections = {TRUE, FALSE}
  Kills = {TRUE, FALSE}
  MaxRestarts = 1
CONSTRAINT EditedInFlight
SPECIFICATION FairRunnerSpec
CHECK_DEADLOCK FALSE
INVARIANTS
  RunnerTypeOK
  FilesOutliveGroup
  CleanedIsQuiet
PROPERTIES
  SlotsAreFreed
  OrdinaryRunsEnd
