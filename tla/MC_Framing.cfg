\* Up to three frames, bytes of three values, lengths of two bytes.
SPECIFICATION Spec
CONSTANTS
  Base = 3
  LenBytes = 2
  MaxFrame = 2
  Payload <- Payloads
  MaxSent = 3
INVARIANTS
  FramingTypeOK
  WholeFrames
  FailsOnHeader
  BufferBounded
CHECK_DEADLOCK FALSE
