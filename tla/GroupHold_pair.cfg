SPECIFICATION FairSpec
CONSTANTS
  N = 2
  MaxLost = 1
  MaxAnswers = 2
  Passes = 2
  MaxCycles = 2
  MaxTries = 2
INVARIANTS
  TypeOK
  DisabledIsTrue
  EveryMotorInEveryPass
  AnswersAreTrue
PROPERTIES
  ImplementsFailClosedRun
  Termination
CHECK_DEADLOCK FALSE
