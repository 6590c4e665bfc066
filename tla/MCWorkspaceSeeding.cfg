SPECIFICATION Spec
CONSTANTS
  Sessions = {"s1","s2"}
  Operators = {"o1"}
  Paths = {"p","q"}
  Nothing = Nothing
  Owns <- MCOwns
  Committed = {"q"}
  People = "people"
  MaxWrites = 3
  MaxLosses = 0
  MaxTroubles = 0
PROPERTY NeverOverwritten
CHECK_DEADLOCK FALSE
