SPECIFICATION Spec
CONSTANTS
  Servers <- MCServers
  MaxTags = 1
  MaxOutstanding = 2
  Page = 2
  Nil = Nil
  a = a
  b = b
INVARIANTS
  WriteToItsServer
CHECK_DEADLOCK FALSE
