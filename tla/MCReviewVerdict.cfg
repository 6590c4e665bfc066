SPECIFICATION Spec
CONSTANTS
  Sessions = {s1, s2}
  Pilots = {p}
  Nothing = none
  Specs = {1, 2}
  First = 1
  Cap = 1
  MaxOverrides = 1
  MaxEdits = 1
  MaxPauses = 1
INVARIANT ReviewedWhatItApproves
CHECK_DEADLOCK FALSE
