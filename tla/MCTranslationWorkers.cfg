SPECIFICATION WorkersFairSpec
CONSTANTS
  Slices = 4
  jobs = 3
CHECK_DEADLOCK FALSE
INVARIANT SlotsExact StopReachesAll PrintedInOrder ResultExact
PROPERTY Terminates
