\* The size rule in the comment of trans_get_write_offset.
CONSTANTS
  BufLen = 4
  Data = {d1}
  Chunks = {1, 2}
  MaxFrame = 4
  MaxHeld = 2
  QueueCap = 4
  SeqMod = 4
  Faults <- MCNoFaults
SPECIFICATION Spec
INVARIANT HalfRule
