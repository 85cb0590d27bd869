CONSTANTS
  Offered <- MCOffered
  MaxRuns = 2
  MaxFaults = 1
  MaxVisits = 2
SPECIFICATION Spec
INVARIANTS SetupTypeOK SkippedIsDone WiredIsReady
CHECK_DEADLOCK FALSE
