SPECIFICATION FairSpec
CONSTANTS
  built = built
  rebuilt = rebuilt
  other = other
  r1 = r1
  r2 = r2
  None = None
  Plans = {built, rebuilt, other}
  Versions = {"first", "next"}
  VersionOf <- Version
  Runners = {r1, r2}
  InitiallyInstalled = {None, other}
  MaxPlanned = 2
  MaxMissions = 2
  MaxFaults = 2
  MaxMeddles = 0
PROPERTIES
  Converges
CHECK_DEADLOCK FALSE
