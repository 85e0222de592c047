SPECIFICATION Spec
CONSTANTS
  N = 1
  MaxLost = 0
  MaxAnswers = 1
  Fast = {}
  Phase <- MCPhase
  PreparationSlots = 4
  ActiveSlots = 9
  EnableSlots = 4
  VerifySlots = 1
  PreviewPeriod = 2
  StatePeriod = 4
  OtherPreviews = 2
  DisableAttempts = 1
  TargetTimeout = 3
  FutureSlack = 1
  StartDelay = 2
  LateLimit = 2
  MaxLag = 2
INVARIANTS
  CommandsFollowTargets
CHECK_DEADLOCK FALSE
