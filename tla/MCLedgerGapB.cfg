SPECIFICATION Spec
CONSTANTS
  p1 = p1
  p2 = p2
  Procs = {p1, p2}
  NoProc = NoProc
  None = None
  Commands <- LockedCommands
  Tears = {}
  MaxVersions = 3
  MaxCrashes = 1
  MaxEdits = 0
INVARIANT SecondGapRecovers
