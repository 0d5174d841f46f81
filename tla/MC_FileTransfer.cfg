\* Two transfers, one broken connection or restart, one pause.
SPECIFICATION Spec
CONSTANTS
  x1 = x1
  x2 = x2
  Xfer = {x1, x2}
  FileSize <- LongAndShort
  ChunkSize = 2
  MaxDrops = 1
  MaxPauses = 1
  None = None
INVARIANTS
  FileTypeOK
  NeverStalls
PROPERTIES
  KeepsItsPromise
  Finishes
CHECK_DEADLOCK FALSE
