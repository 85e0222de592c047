SPECIFICATION FairSpec
CONSTANTS
  Period = 3
  PrepTicks = 10
  GapTicks = 1
  ActiveStates = 3
  ShutdownTicks = 2
  MaxReport = 1
  MaxAge = 3
  TargetTimeout = 9
  MaxLag = 1
  FirstWait = 6
  NextWait = 9
  CloseWait = 3
  Prompt = 1
INVARIANTS
  EachStateOnce
  CommandsFromRecentStates
  PromptActorNeverCutOff
  CompletionByCount
  GoneActorStopsRun
PROPERTIES
  Termination
CHECK_DEADLOCK FALSE
