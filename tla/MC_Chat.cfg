\* A text either way and the item of a file, one more than a page holds; two
\* breaks, crashes or restarts, one read receipt.
SPECIFICATION Spec
CONSTANTS
  a = a
  b = b
  m1 = m1
  m2 = m2
  f = f
  Node = {a, b}
  Msg = {m1, m2, f}
  File = {f}
  Author <- EachWay
  PageSize = 2
  MaxDrops = 2
  MaxReads = 1
  None = None
INVARIANTS
  ChatTypeOK
  DeliveredIsStored
  TextsOnScreen
PROPERTIES
  StatusForward
  Confirmed
VIEW Unordered
CHECK_DEADLOCK FALSE
