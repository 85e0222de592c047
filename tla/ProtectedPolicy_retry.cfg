SPECIFICATION FairSpec
CONSTANTS
  N = 1
  MaxLost = 3
  MaxAnswers = 3
  Fast = {1}
  Phase <- MCPhase
  PreparationSlots = 2
  ActiveSlots = 3
  EnableSlots = 1
  VerifySlots = 2
  PreviewPeriod = 1
  StatePeriod = 2
  OtherPreviews = 2
  DisableAttempts = 3
  TargetTimeout = 1
  FutureSlack = 0
  StartDelay = 1
  LateLimit = 1
  MaxLag = 0
INVARIANTS
  PassesOutlastLosses
PROPERTIES
  Termination
CHECK_DEADLOCK FALSE
