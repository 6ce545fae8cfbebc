SPECIFICATION FairSpec
CONSTANTS
  Setters = {"caller"}
  Pacings <- MCPacings
  Costs = {0, 2}
  TicksPerSecond = 2
  Bounds <- MCBounds
  Percents = {50, 95}
  OperationKinds = {"Da3Page"}
  Da3Page = "Da3Page"
  MaxOperations = 3
  MaxDuration = 2
  Longest = 3
  Nil = Nil
INVARIANTS
  ReportExact
PROPERTIES
  Paced
  CancelStops
  GateAnswers
CHECK_DEADLOCK FALSE
