\* Two transfers, one broken connection.
SPECIFICATION Spec
CONSTANTS
  x1 = x1
  x2 = x2
  Xfer = {x1, x2}
  FileSize <- LongAndShort
  ChunkSize = 2
  MaxDrops = 1
  MaxPauses = 0
  None = None
INVARIANTS
  ChunksStayApart
CHECK_DEADLOCK FALSE
