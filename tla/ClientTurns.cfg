SPECIFICATION Spec
CONSTANTS
  Senders = {main, side}
  Main = main
  Nobody = nobody
  MaxAttempts = 2
  MaxParts = 1
  MaxCalls = 1
  MaxTurns = 2
  SideTurns = 1
  MaxPrompts = 2
INVARIANTS
  AnswersItsHistory
  CallsAreAnswered
PROPERTIES
  EveryPromptEnds
CHECK_DEADLOCK FALSE
