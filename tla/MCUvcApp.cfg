\* Format 1 is sent raw, format 2 encoded; any step of the route can fail, and the driver can
\* refuse to stop the channel and to switch the stream.
CONSTANTS
  NumFrames <- MCNumFrames
  Picks <- MCPicks
  Raw = {1}
  EvCap = 2
  MayFail <- MCMayFail
SPECIFICATION FairSpec
INVARIANTS TypeOK RunsAgreed NothingLeft BufferGoesRound
PROPERTIES QuitCloses
CHECK_DEADLOCK FALSE
