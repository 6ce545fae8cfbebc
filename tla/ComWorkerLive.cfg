SPECIFICATION FairSpec
CONSTANTS
  Callers = {c1, c2}
  Servers = {s1}
  Kinds = {"read", "open", "page", "close"}
  Capacity = 2
  MaxSessions = 1
  MaxCalls = 2
  MaxRestarts = 0
  Nil = Nil
INVARIANTS
  SessionsAccountedFor
PROPERTIES
  TokensNeverRevive
  CallsReturn
  ShutdownReleases
CHECK_DEADLOCK FALSE
