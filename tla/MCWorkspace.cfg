SPECIFICATION Spec
CONSTANTS
  Sessions = {"s1","s2"}
  Operators = {"o1"}
  Paths = {"p","q"}
  Nothing = Nothing
  Owns <- MCOwns
  Committed = {"q"}
  People = "people"
  MaxWrites = 2
  MaxLosses = 1
  MaxTroubles = 1
INVARIANT KeptUntilDecided
CHECK_DEADLOCK FALSE
