SPECIFICATION FairSpec
CONSTANTS
  N = 1
  MaxLost = 2
  MaxAnswers = 6
  MinTries = 3
  MaxTries = 4
  MaxCycles = 2
INVARIANTS
  DisabledIsTrue
  TriesOutlastStaleReplies
PROPERTIES
  ImplementsFailClosedRun
  Termination
CHECK_DEADLOCK FALSE
