SPECIFICATION Spec
CONSTANTS
  p1 = p1
  p2 = p2
  a1 = a1
  a2 = a2
  Criteria = {"c1"}
  Primary = {"c1"}
  Kinds <- OneKind
  Specs = {1}
  Actors = {a1, a2}
  Runners = {p1}
  None = None
  Concurrent = FALSE
  Baselines = FALSE
  Trees = {0}
  Policies = {0}
  MaxRecords = 2
  MaxApprovals = 2
  MaxEdits = 1
INVARIANTS
  LiveUnderApproval
SYMMETRY Symmetry
CHECK_DEADLOCK FALSE
