SPECIFICATION CancellingSpec
CONSTANTS
  ca = ca  cb = cb  cc = cc  cd = cd
  j1 = j1  j2 = j2  j3 = j3
  s1 = s1  s2 = s2
  t1 = t1  t2 = t2
  NoJob = NoJob
  Jobs = {j1, j2, j3}
  Signals = {s1}
  Tools = {t1}
  CallsOf <- ThreeJobs
  SignalOf <- AllOne
  ToolOf <- OneTool
  Topics = {}
  Waits = {cd}
  Malformed = {ca}
  ClientInitiated = {cb, cc}
  Hooked = {}
  Heedless = {}
  Editable = {}
  Tailing = {}
  Sandboxed = {}
  Detachable = {cc}
  Interactive = TRUE
  MaxTails = 1
  Calls = {ca, cb, cc, cd}
INVARIANTS
  AnsweredInFull
PROPERTIES
  CompletedIsFinal
  EveryJobSettles
  ImplementsBatchService
