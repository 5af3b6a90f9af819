CONSTANTS
  Sessions = {s1, s2, s3}
  Batches = {b1, b2}
  Units = {p1, build}
  Paths = {p1}
  Hashes = {h1}
  Absent = Absent
  None = None
  MaxFence = 4
SPECIFICATION Spec
CHECK_DEADLOCK FALSE
CONSTRAINT FewAdmissions
SYMMETRY Interchangeable
INVARIANTS
  CoordinationTypeOK
  QuarantineKeepsItsOwner
  BaselineIsAccepted
PROPERTY ImplementsContract
