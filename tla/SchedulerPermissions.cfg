SPECIFICATION Spec
CONSTANTS
  ca = ca  cb = cb  cc = cc  cd = cd
  j1 = j1  j2 = j2  j3 = j3
  s1 = s1  s2 = s2
  t1 = t1  t2 = t2
  NoJob = NoJob
  Jobs = {j1}
  Signals = {s1}
  Tools = {t1}
  CallsOf <- OneBatch
  SignalOf <- AllOne
  ToolOf <- OneTool
  Topics = {cb}
  Waits = {cb}
  Malformed = {}
  ClientInitiated = {}
  Hooked = {ca}
  Heedless = {}
  Editable = {cb}
  Tailing = {ca}
  Sandboxed = {}
  Detachable = {cc}
  Interactive = TRUE
  MaxTails = 1
  Calls = {ca, cb, cc}
INVARIANTS
  ReportedOnce
  RunsAsRewritten
  RefusalEndsBatch
