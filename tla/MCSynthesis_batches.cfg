\* One project, one observation that users patch at will, two workers, crashes.
CONSTANTS
  p1 = p1  c1 = c1  u1 = u1
  Projects = {p1}
  Global = "*"
  Tokens = {t1, t2}
  NoToken = NoToken
  LockTicks = 1
  Observations = {o1}
  HomeOf <- OneProject
  BatchLimit = 1
  BatchTicks = 2
  Creations = {c1}
  Updates = {u1}
  Plans <- TwoPlans
  NoPlan = NoPlan
  NoItem = NoItem
  Contested = {u1}
  Visitable = {"*"}
SPECIFICATION FairSynthesisSpec
INVARIANTS
  SynthesisTypeOK
  LocksExclusive
  LearntOnce
PROPERTIES
  ImplementsContract
  NothingDropped
  BatchesComplete
