\* One job, two events, two attempts: retries, expiry, edits, late and repeated calls,
\* the queue against its contract, and every delivery to its end.
CONSTANTS
  p1 = p1  o1 = o1  j1 = j1  e1 = e1  e2 = e2
  Projects = {p1}
  Orgs = {o1}
  Jobs = {j1}
  Events = {e1, e2}
  OrgOf <- OneOrg
  ProjectOf <- OneProject
  MaxAttempts = 2
  MaxGlobalRuns = 2
  MaxOrgRuns = 1
  LeaseTicks = 1
  Failures = {"failed", "cancelled"}
  MaxRevision = 1
  MaxOrdinary = 1
CONSTRAINT EditedOrStarted
SPECIFICATION FairSpec
INVARIANTS
  TypeOK
  LeaseOwnsRun
PROPERTIES
  NoBackfill
  ExpiredLeaseIsLost
  RetryNeedsEvidence
  ImplementsContract
  EveryDeliverySettles
