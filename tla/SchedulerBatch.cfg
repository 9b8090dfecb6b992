SPECIFICATION Spec
CONSTANTS
  ca = ca  cb = cb  cc = cc  cd = cd
  j1 = j1  j2 = j2  j3 = j3
  s1 = s1  s2 = s2
  t1 = t1  t2 = t2
  NoJob = NoJob
  Jobs = {j1, j2}
  Signals = {s1}
  Tools = {t1, t2}
  CallsOf <- EitherBatch
  SignalOf <- AllOne
  ToolOf <- TwoTools
  Topics = {}
  Waits = {cb}
  Malformed = {}
  ClientInitiated = {cd}
  Hooked = {cd}
  Heedless = {t2}
  Editable = {cd}
  Tailing = {ca, cd}
  Sandboxed = {cb, cd}
  Detachable = {}
  Interactive = TRUE
  MaxTails = 1
  Calls = {ca, cb, cc, cd}
CONSTRAINT OneIsAsked
INVARIANTS
  TypeOK
  Accounted
  ReportedOnce
  RunsAsApproved
  WaitsForPrevious
  AskedBeforeRun
