\* Reliable ports, every frame size the API admits, DMA requests that time out.
CONSTANTS
  BufLen = 6
  Data = {d1}
  Chunks = {1, 2, 3}
  MaxFrame = 6
  MaxHeld = 3
  QueueCap = 6
  SeqMod = 4
  Faults <- MCTimeouts
SPECIFICATION FairSpec
INVARIANTS TypeOK NothingRefused
PROPERTIES EverySendCompletes
