\* Every fault: lost messages, full ports, empty frames, failing DMA requests.
\* Two values of a byte: the ring refines the lossy FIFO.
CONSTANTS
  BufLen = 3
  Data = {d1, d2}
  Chunks = {1, 2}
  MaxFrame = 2
  MaxHeld = 1
  QueueCap = 1
  SeqMod = 3
  Faults <- MCAllFaults
SPECIFICATION Spec
INVARIANTS NoOverwrite RingOrder
PROPERTIES DeliversInOrder
