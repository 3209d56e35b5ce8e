\* One foreground region, values on both sides of every boundary.
\* The program ends: CHECK_DEADLOCK FALSE.
CONSTANTS
  Fg = {"f0"}
  Roi = "roi"
  Bg = "bg"
  Params <- MCParams
  StartQps = {0, 30, 51}
  Rcs <- MCRcs
SPECIFICATION Spec
INVARIANTS TypeOK QpBounds SignKept StillOnce
CHECK_DEADLOCK FALSE
