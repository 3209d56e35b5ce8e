\* Two pipes, a mode with two main pipes, one with WDR, one that is refused.
CONSTANTS
  N = 2
  Interval = 2
  Watches <- MCWatches
  Modes <- MCModes
SPECIFICATION FairSpec
INVARIANTS TypeOK LayoutFollowsMode OneLateWrite OneStaleCall
PROPERTIES CallsReturn ThreadsEnd
CHECK_DEADLOCK FALSE
