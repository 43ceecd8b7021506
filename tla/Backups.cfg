SPECIFICATION FairSpec
CONSTANTS
  NULL = NULL
  Retention = 1
  MaxFiles = 2
  MaxRestores = 2
  MaxActs = 3
  MaxFaults = 2
INVARIANTS DiskInvariant
PROPERTIES RestoreSafe MarkerHeals DueSnapshotMade
CHECK_DEADLOCK FALSE
