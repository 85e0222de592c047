SPECIFICATION Spec
CONSTANTS
  N = 2
  MaxLost = 0
  MaxAnswers = 1
  Passes = 3
  MaxCycles = 1
  MaxTries = 1
INVARIANT DisabledOnEveryExit
CHECK_DEADLOCK FALSE
