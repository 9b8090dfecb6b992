SPECIFICATION Spec
CONSTANTS
  Budget = 4
  Calls = {c1, c2}
  Deaf = {c2}
  MaxTurns = 2
  Grace = 2
INVARIANTS
  TimeIsKept
PROPERTIES
  AbortEndsWork
  RunEnds
CHECK_DEADLOCK FALSE
