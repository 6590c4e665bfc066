SPECIFICATION FairParts
CONSTANTS
  Nothing = Nothing
  Hosts = {"h1", "h2"}
  MaxFailovers = 1
  MaxAttempts = 1
  LifetimeAttempts = 16
  MaxLaunches = 1
  MaxTroubles = 2
  MaxClosures = 1
  Gates = {"g"}
  Watch = "w"
  Pilot = "p"
  NoActor = "none"
  Budget = 1
  MaxTime = 2
  ClockTroubles = 1
  Reviewers = {"s1", "s2"}
  Pilots = {"p"}
  Specs = {1, 2}
  First = 1
  ReviewCap = 1
  MaxOverrides = 1
  MaxEdits = 1
  MaxPauses = 1
  Implementers <- MCImplementers
  Operators <- MCOperators
  Paths = {"p", "q"}
  Owns <- MCOwns
  Committed = {"q"}
  People = "people"
  MaxWrites = 2
  MaxLosses = 1
  TreeTroubles <- MCTreeTroubles
  Profiles <- MCProfiles
  Adapter <- MCAdapter
  Local = {}
  Available = {"codex", "claude"}
  Configured <- MCConfigured
  Fallbacks <- MCFallbacks
  FailoverCap = 2
  Substitution = TRUE
  Rounds = 1
  MaxSessions = 4
  MaxFindings = 1
  Servers <- MCServers
  Mine = {"s1", "s2"}
  Registered = {"s1", "s2", "s3"}
  Viewing = {"s2"}
  Ports = {1}
  Releasers <- MCReleasers
  Observers <- MCObservers
  MaxSlow = 1
  MaxEvents <- MCMaxEvents
INVARIANTS
  TypesOK PointerIsLive CommitsAreValid OneWorker SessionsCountOnce
PROPERTIES
  NothingIsUndone SessionsEnd
CHECK_DEADLOCK FALSE
