SPECIFICATION Spec
CONSTANTS
  built = built
  rebuilt = rebuilt
  other = other
  r1 = r1
  r2 = r2
  None = None
  Plans = {built, rebuilt}
  Versions = {"first"}
  VersionOf <- Version
  Runners = {r1, r2}
  InitiallyInstalled = {None}
  MaxPlanned = 2
  MaxMissions = 1
  MaxFaults = 2
  MaxMeddles = 1
INVARIANTS
  RecordIsTruthful NothingUnannounced
PROPERTIES
  ReportedIsSo
SYMMETRY Symmetry
CHECK_DEADLOCK FALSE
