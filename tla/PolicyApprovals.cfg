SPECIFICATION Spec
CONSTANTS
  log = log  logTo = logTo  npm = npm  both = both  fetch = fetch
  Calls <- TheCalls
  Shell <- TheShell
  ToolOf <- TheTools
  Parts <- TheParts
  Redirected = {logTo}
  Dangerous = {npm}
  KnownSafe = {log}
  Outside = {}
  Guarded = {fetch}
  Sandboxed = FALSE
  Modes <- TheModes
  DefaultDecision = "ask"
  Configurations <- TheConfigurations
  Requests = {r1}
  StartsWith <- TheWords
  Roots <- TheRoots
  SessionPriority = 3950
  SavedPriority = 4950
  MaxApprovals = 2
INVARIANTS
  NoLaxerThanParts
  ExcludedIsDenied
  ApprovalHolds
  SavedStays
PROPERTIES
  EveryRequestAnswered
CHECK_DEADLOCK FALSE
