SPECIFICATION Spec
CONSTANTS
  Streams = {s1, s2}
  Capacity = 1
  MaxCalls = 2
INVARIANTS
  SlotExact
  OneTerminalLast
PROPERTIES
  RejectionJustified
  DropTerminates
  TerminalArrives
CHECK_DEADLOCK FALSE
