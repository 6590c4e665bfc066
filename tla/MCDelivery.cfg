SPECIFICATION Spec
CONSTANTS
  p1 = p1
  p2 = p2
  a1 = a1
  a2 = a2
  Criteria = {"c1"}
  Primary = {"c1"}
  Kinds <- OneKind
  Specs = {1, 2}
  Actors = {a1, a2}
  Runners = {p1}
  None = None
  Concurrent = TRUE
  Baselines = TRUE
  Trees = {0, 1}
  Policies = {0, 1}
  MaxRecords = 2
  MaxApprovals = 2
  MaxEdits = 2
INVARIANTS
  TypeOK BuildsApprovedDesign PassingIsEvidenced DecisionsMatchClaims CompletionStands
SYMMETRY Symmetry
CHECK_DEADLOCK FALSE
