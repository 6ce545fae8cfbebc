SPECIFICATION Spec
CONSTANTS
  Nodes <- MCNodes
  Root = "root"
  Kids <- MCKids
  Name <- MCName
  Id <- MCId
  Branches <- MCBranches
  Items <- MCItems
  Sealed = {"s"}
  Profiles <- MCProfiles
  Sizes = {0, 1, 2}
  MaxNodeTokens = 6
  MaxPageTokens = 2
  MaxCalls = 4
  MaxFaults = 1
  MaxSame = 2
  Nil = Nil
INVARIANTS
  ChildrenOnce
  EntriesInPlace
  CursorTracked
PROPERTIES
  FallBackFirst
CHECK_DEADLOCK FALSE
