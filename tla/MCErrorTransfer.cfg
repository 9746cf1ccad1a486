SPECIFICATION Spec
CONSTANTS
  MaxOpen = 3
  ERROR_BOUND = 3
  ERROR_MAX_DEPTH = 2
  CallbackOpens = {"defer"}
  CleanupOpens = {"defer", "catch", "finally", "both"}
CHECK_DEADLOCK FALSE
INVARIANT TypeOK NoImbalance ChainsExact FramesExact
PROPERTY CleanupOnce
