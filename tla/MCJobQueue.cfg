SPECIFICATION Spec
CONSTANTS
  w1 = w1
  w2 = w2
  Workers = {w1, w2}
  NoWorker = NoWorker
  k1 = k1
  k2 = k2
  Keys = {k1, k2}
  LeaseTicks = 1
  MaxAttempts = 2
  MaxJobs = 2
  SegmentLines = 1
  MaxTime = 2
  MaxLines = 5
  MaxCrashes = 2
INVARIANTS
  TypeOK
  CrashesNeverCorrupt
  StoreIsReplay
PROPERTIES
  NothingAcknowledgedIsLost
  ImplementsJobLease
CHECK_DEADLOCK FALSE
