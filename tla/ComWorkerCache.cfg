SPECIFICATION Spec
CONSTANTS
  Callers = {c1, c2}
  Servers = {s1}
  Kinds = {"list", "read", "write", "browse", "caps"}
  Capacity = 1
  MaxSessions = 1
  MaxCalls = 2
  MaxRestarts = 2
  Nil = Nil
INVARIANTS
  TypeOK
  StaleHandleTransparent
  EffectsExplained
CHECK_DEADLOCK FALSE
SYMMETRY CallerSymmetry
