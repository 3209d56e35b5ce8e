\* The comment of sample_pciv_host_quit about ctrl+c.
CONSTANTS
  NChans = 1
  MaxPort = 1
  QueueCap = 1
  MaxChips = 1
  Setups <- MCOneChip
SPECIFICATION Spec
INVARIANTS CtrlCReachesSlaves
