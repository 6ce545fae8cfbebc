SPECIFICATION FairSpec
CONSTANTS
  Kinds = {"string", "guid", "group", "attribute"}
  Values = {"a", "b", "bad"}
  Unreadable = {"bad"}
  Null = Null
  Capacity = 3
  MaxSame = 3
INVARIANTS
  StringsReleased
PROPERTIES
  Implements
  CallReturns
CHECK_DEADLOCK FALSE
