SPECIFICATION PairSpec
CONSTANTS
  N = 2
  MaxLost = 1
  MaxAnswers = 2
  Passes = 3
  MaxCycles = 2
  MaxTries = 1
  MinCount = 2
INVARIANTS
  PairInStep
PROPERTIES
  ImplementsGroupHold
CHECK_DEADLOCK FALSE
