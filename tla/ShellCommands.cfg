SPECIFICATION FairSpec
CONSTANTS
  command = command  agent = agent  w1 = w1
  Executions = {command, agent}
  Virtual = {agent}
  Injecting = {command, agent}
  Watchers = {w1}
  WatchOf <- OfCommand
INVARIANTS
  ExitHeardOnce
  NothingOutlives
PROPERTIES
  ImplementsExecution
  KilledEnds
CHECK_DEADLOCK FALSE
