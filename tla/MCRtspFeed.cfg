SPECIFICATION FairSpec
CONSTANTS
  MaxFrames = 5
  Pieces = 2
INVARIANTS BufferExclusive
  OnceInOrder
  LenLagsOne
PROPERTY StopCompletes
\* the program ends with the camera's last frame and the stop
CHECK_DEADLOCK FALSE
