\* The pause as the header describes it.
CONSTANTS
  N = 2
  Interval = 1
  Watches <- MCWatches
  Modes <- MCModes
SPECIFICATION Spec
INVARIANTS PauseHolds
CHECK_DEADLOCK FALSE
