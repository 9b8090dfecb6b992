SPECIFICATION Spec
CONSTANTS
  Tasks = {t1, t2}
  MaxCalls = 2
  Requests = {r1, r2, r3}
  Nobody = nobody
  MaxFaults = 0
INVARIANT PrimaryIsResumed
SYMMETRY Alike
CHECK_DEADLOCK FALSE
