SPECIFICATION FairParts
CONSTANTS
  Nothing = Nothing
  Issues = {i1}
  Callers = {c1}
  NoItem = NoItem
  NoRecord = NoRecord
  MaxReopens = 1
  MaxTroubles = 2
  Sessions = {"r1", "r2"}
  Asking = {"r1"}
  Role <- MCRole
  ReviewLimit = 1
  Allowance = 1
  Rounds = {2}
  AskingRounds = {2}
  Findings = {0, 1}
  MaxAttempts = 2
  MaxQuestions = 1
  AskingQuestions = 2
  Ids = {1, 2}
  Specs <- MCSpecs
  First <- MCFirst
  Actors = {"a", "b"}
  Architect = "c"
  AmendEdits = 2
  Works = {1, 2}
  WorkIssues = {1}
  Title = {1, 2}
  Criteria = {"c1", "c2"}
  Untagged = Untagged
  Absent = Absent
  Proposed <- MCProposed
  WorkEdits = 1
  Confirmations = 2
  Noticing = {2}
  Flaky = {1}
  Loading = {2}
  MaxVersion = 2
  MaxSpecs = 2
  MaxProofs = 1
  Threads = {"t1"}
  Commands = {"c1", "c2"}
  PageLimit = 1
  MaxStamp = 2
  LateStamp = 3
  MaxDesigns = 2
  LateDesigns = 1
  MaxRequests = 2
  MaxMarks = 1
  LateMarks = 0
  Loop = "loop"
  Others = "others"
  Hosted = {{}, {"supervisor"}}
  Stretches = {{1, 2}, {2, 3}, {4, 5}}
  Stops = {"human_pause"}
  MaxSessions = 3
  MaxByHand = 1
  MaxNews = 1
  MaxStops = 1
INVARIANTS
  TypesOK OneReportEach CompleteIsSo DecidedOnWhatIsThere
PROPERTIES
  OnlyAsAsked ClosesEnd
CHECK_DEADLOCK FALSE
