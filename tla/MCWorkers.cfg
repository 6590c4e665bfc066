SPECIFICATION FairParts
CONSTANTS
  Nothing = Nothing
  Workers = {w1, w2}
  NoWorker = NoWorker
  Keys = {k1, k2, k3}
  LeaseTicks = 1
  MaxAttempts = 2
  MaxJobs = 3
  Verifies = {"v1", "v2"}
  Pool = {"v1"}
  NoCache = {}
  Criteria = {"k1", "k2"}
  CheckTests <- MCTests
  Long = {2}
  CheckEdits = 1
  CheckKills = 1
  Runners = {"r1", "r2"}
  AdHoc = "by hand"
  RegressionTests = 1
  Shards = 2
  Versions = 1
  History = 1
  MaxRequests = 2
  RunEdits = 2
  RunTroubles = 1
  Issues = {1, 2}
  Commits = {1}
  Date <- MCDate
  PageSize = 2
  MaxTime = 1
  FleetEdits = 1
  FleetTroubles = 2
  MaxRegistry = 1
  Roots = {"a", "b"}
  Finished = {"a"}
  Troubled = {"a"}
  MaxInits = 2
  MaxTroubles = 1
INVARIANTS
  TypesOK WorkIsDoneOnce
PROPERTIES
  Fenced CollectorSeesUpdates WorkersEnd
CHECK_DEADLOCK FALSE
