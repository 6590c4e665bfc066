SPECIFICATION Spec
CONSTANTS
  p1 = p1
  p2 = p2
  Procs = {p1, p2}
  NoProc = NoProc
  None = None
  Commands <- UnlockedCommands
  Tears = {}
  MaxVersions = 3
  MaxCrashes = 0
  MaxEdits = 0
INVARIANT IntactWithoutFaults
