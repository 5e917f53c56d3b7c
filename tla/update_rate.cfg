CONSTANTS
  Billion = 10
  EarlyStop = 2
  TimeStep = 5
  SyncOffset = 1
  PGain = 2
  IGain = 1
  Scale = 4
  Starts = {0, 9}
  DcPhases = {1, 3, 5, 7}
  Durations = {0, 1, 4, 7, 16}
  MaxJitter = 3
  MaxSteps = 4
SPECIFICATION Spec
INVARIANT IInv
INVARIANT DeadlineIsAccounted
INVARIANT DeadlineIsAhead
INVARIANT SteersToNearestBoundary
PROPERTY ImplementsTimer
CHECK_DEADLOCK FALSE
