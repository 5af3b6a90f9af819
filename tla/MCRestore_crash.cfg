\* Three steps that throw and three crashes, in any order.
CONSTANTS
  MaxFaults = 3
  MaxCrashes = 3
  LateFaults = FALSE
SPECIFICATION RestoreSpec
\* An executor that left the programs stopped waits for the next start.
CHECK_DEADLOCK FALSE
INVARIANTS
  RestoreTypeOK
  ServedPairMatches
  OldPairIsKept
  OutcomeTellsPair
  StoppedHasEvidence
PROPERTIES
  ImplementsContract
