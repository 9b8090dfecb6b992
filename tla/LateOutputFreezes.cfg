SPECIFICATION CancellingSpec
CONSTANTS
  ca = ca  cb = cb  cc = cc  cd = cd
  j1 = j1  j2 = j2  j3 = j3
  s1 = s1  s2 = s2
  t1 = t1  t2 = t2
  NoJob = NoJob
  Jobs = {j1, j2}
  Signals = {s1, s2}
  Tools = {t1}
  CallsOf <- TwoBatches
  SignalOf <- TwoSignals
  ToolOf <- OneTool
  Topics = {}
  Waits = {}
  Malformed = {}
  ClientInitiated = {}
  Hooked = {}
  Heedless = {}
  Editable = {}
  Tailing = {}
  Sandboxed = {}
  Detachable = {ca}
  Interactive = TRUE
  MaxTails = 1
  Calls = {ca, cb, cc}
PROPERTIES
  EveryJobSettles
