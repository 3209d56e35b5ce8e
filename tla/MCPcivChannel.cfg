\* Sessions of all three kinds follow each other.
CONSTANTS
  Block = {b1, b2}
  PicMod = 2
  QueueCap = 1
  Sessions <- MCSessions
SPECIFICATION FairSpec
INVARIANTS HeldWhileRead RectMatches NothingLeft
PROPERTY StopCompletes
