\* The tidying after a completed exchange throws, and the container dies.
CONSTANTS
  MaxFaults = 1
  MaxCrashes = 1
  LateFaults = TRUE
SPECIFICATION RestoreSpec
CHECK_DEADLOCK FALSE
INVARIANTS
  ServedPairMatches
