SPECIFICATION Spec
CONSTANTS
  Sources = {"yahboom", "bno055", "native-bno055"}
  MaxAge = 2
  MaxLine = 3
  MaxChunks = 3
  MaxFrames = 1
  MaxReads = 3
  Period = 1
  PrepTicks = 3
  TargetTimeout = 1
  MaxLag = 2
  Duration = 6
  MaxSkips = 1
  HoldSteps = 0
  RampSteps = 2
  HandoffSteps = 2
  MaxClamps = 2
  IgnoredTicks = 1
  StageEnds <- MCStageEnds
  MaxBusy <- MCMaxBusy
  Horizon <- MCHorizon
INVARIANTS
  SamplesAreRecent
  WalksAtFullGain
  StandsAtTheEnd
  LatchedErrorStopsTargets
CHECK_DEADLOCK FALSE
