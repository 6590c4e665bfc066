SPECIFICATION Spec
CONSTANTS
  p1 = p1
  p2 = p2
  a1 = a1
  a2 = a2
  Criteria = {"c1", "c2"}
  Primary = {"c1"}
  Kinds <- SplitKinds
  Specs = {1}
  Actors = {a1, a2}
  Runners = {p1}
  None = None
  Concurrent = FALSE
  Baselines = FALSE
  Trees = {0, 1}
  Policies = {0}
  MaxRecords = 3
  MaxApprovals = 0
  MaxEdits = 3
INVARIANTS
  ReviewedByAnother ReviewStands
SYMMETRY Symmetry
CHECK_DEADLOCK FALSE
