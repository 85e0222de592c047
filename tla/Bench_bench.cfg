\* The tools around the controller, one at a time, on two motors.
CONSTANTS
  N = 2
  Duration = 5
  Timeout = 1
  Burst = 2
  MaxDrain = 2
  MinCoverage = 50
  MaxCatchUp = 2
  Divisor = 2
  MaxQueue = 2
  MaxWake = 2
  MaxOdd = 1
  MaxTrips = 1
  Drives = 2
  Addresses = 2
  Retries = 2
  MaxReceived = 2
  MaxStrange = 1
  BankMotors = {1}
  MaxStateAge = 1
  MaxCommandAge = 2
  Substeps = 2
  Peak = 4
  RatedSpeed = 1
  RatedTorque = 2
  MaxSpeed = 2
  Samples <- TheSamples
  Calibrations <- TheCalibrations
  Urdf <- TheUrdf
  SoftMargin = 1
  SoftOverrides <- TheOverrides
  PositionMax = {7}
  TorqueMax = 9
  EffortLimit = 2
  Goals <- TheGoals
  Postures <- ThePostures
  TicksPerPolicy = 2
SPECIFICATION Spec
\* The tools end.
CHECK_DEADLOCK FALSE
INVARIANTS
  NoBacklog
  PassedProbeIsRecent
  InstalledRangesAreTrue
  ZeroedHeadIsZero
  FaultsHoldTransmission
  LegalPosesReachTheDrives
  FramesCarryTheImpedance
