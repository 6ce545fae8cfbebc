SPECIFICATION ObjectSpec
CONSTANTS
  MaxLen = 2
  Nil = Nil
INVARIANTS
  WithinArrays
  BlocksReleased
CHECK_DEADLOCK FALSE
