SPECIFICATION Spec
CONSTANTS
  N = 2
  MaxLost = 1
  MaxAnswers = 2
  Fast = {1}
  Phase <- MCPhase
  PreparationSlots = 2
  ActiveSlots = 2
  EnableSlots = 1
  VerifySlots = 2
  PreviewPeriod = 1
  StatePeriod = 2
  OtherPreviews = 2
  DisableAttempts = 2
  TargetTimeout = 0
  FutureSlack = 0
  StartDelay = 1
  LateLimit = 1
  MaxLag = 0
INVARIANTS
  TypeOK
  AnswersAreTrue
  VerifiedEnabled
PROPERTIES
  ImplementsFailClosedRun
CHECK_DEADLOCK FALSE
