SPECIFICATION FairSpec
CONSTANTS
  N = 2
  MaxLost = 2
  MaxAnswers = 2
  Fast = {1}
  Phase <- MCPhase
  FastPeriod = 1
  SlowPeriod = 2
  WarmSlots = 2
  HoldSlots = 2
  VerifySlots = 2
  Passes = 2
INVARIANTS
  VerifiedEnabled
  AnswersAreTrue
PROPERTIES
  ImplementsFailClosedRun
  Termination
CHECK_DEADLOCK FALSE
