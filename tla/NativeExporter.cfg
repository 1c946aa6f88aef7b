\* Three items, two requests per post, a circuit that opens after two failures.
SPECIFICATION FairSpec
CONSTANTS
  MaxItems = 3
  Signals = {"traces", "other"}
  Big <- FirstIsBig
  MaxBatch = 1
  MaxRetries = 2
  TripsAt = 2
  MaxSpoolFiles = 2
  MaxRestarts = 1
CHECK_DEADLOCK FALSE
INVARIANT Accounted
INVARIANT DuplicatesExplained
PROPERTY SpoolDrains
