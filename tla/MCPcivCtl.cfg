\* Two channels per chip. The processes of one chip and the host, or the slaves of two chips,
\* die at any point and start again and ports are refused; or commands and answers of one
\* chip are lost or late.
CONSTANTS
  NChans = 2
  MaxPort = 4
  QueueCap = 2
  MaxChips = 2
  Setups <- MCSetups
SPECIFICATION FairSpec
INVARIANTS TypeOK StartedTogether StopLeavesNothing AnswersMatch QuitReachesSlaves JoinsOwnThread
PROPERTY StopCompletes
