SPECIFICATION Spec
CONSTANTS
  Servers <- MCServers
  MaxTags = 1
  MaxOutstanding = 2
  Page = 2
  Nil = Nil
  a = a
  b = b
INVARIANTS
  TypeOK
  InputNamesShownRow
PROPERTIES
  RowStaysInTable
  LatestReadShown
  LoadingEnds
CHECK_DEADLOCK FALSE
