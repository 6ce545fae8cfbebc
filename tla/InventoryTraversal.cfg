SPECIFICATION Spec
CONSTANTS
  Nodes <- MCNodes
  Root = "root"
  Kids <- MCKids
  Name <- MCName
  Id <- MCId
  Branches <- MCBranches
  Items <- MCItems
  Profiles <- MCProfiles
  Scopes = {"root", "b"}
  Limits = {Nil, 0, 3}
  Batches = {1, 2}
  Tokens = {t1, t2}
  MaxEmpty = 2
  MaxSame = 3
  MaxFaults = 2
  Nil = Nil
INVARIANTS
  NothingLostSilently
  EntriesInPlace
  EntriesOnceWithinLimit
  SkipsExplained
PROPERTIES
  FallBackBeforeEntries
  Terminates
CHECK_DEADLOCK FALSE
