SPECIFICATION Spec
CONSTANTS
  Nodes <- MCNodes
  Root = "root"
  Kids <- MCKids
  Name <- MCName
  Id <- MCId
  Branches <- MCBranches
  Items <- MCItems
  Requests <- MCRequests
  MaxDepth = 2
  MaxRequests = 3
  MaxFaults = 3
  MaxSame = 3
  Nil = Nil
PROPERTIES
  GroupsRemoved
CHECK_DEADLOCK FALSE
