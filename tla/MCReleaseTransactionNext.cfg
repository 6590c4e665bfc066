SPECIFICATION FairSpec
CONSTANTS
  built = built
  rebuilt = rebuilt
  other = other
  r1 = r1
  r2 = r2
  None = None
  Plans = {built, other}
  Versions = {"first", "next"}
  VersionOf <- Version
  Runners = {r1}
  InitiallyInstalled = {None}
  MaxPlanned = 2
  MaxMissions = 2
  MaxFaults = 0
  MaxMeddles = 0
PROPERTIES
  NextReleaseConverges
CHECK_DEADLOCK FALSE
