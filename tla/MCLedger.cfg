SPECIFICATION FairSpec
CONSTANTS
  p1 = p1
  p2 = p2
  Procs = {p1, p2}
  NoProc = NoProc
  None = None
  Commands <- LockedCommands
  Tears = {"bare", "torn"}
  MaxVersions = 3
  MaxCrashes = 2
  MaxEdits = 1
INVARIANTS
  IntactWithoutFaults
  TwoGapsRecover
  ExplainedOnDisk
PROPERTY
  DoctorNeverLaunders
  AuditedContinuity
  GapCloses
