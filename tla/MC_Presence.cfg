\* The periods of the program; a datagram may take as long as one period, and
\* every second announcement may be lost.  The peer's clock is up to a second
\* behind, for which the timeout has to be a second above its default.
SPECIFICATION Spec
CONSTANTS
  Period = 5
  Sweep = 2
  Timeout = 21
  MaxDelay = 5
  MaxMiss = 1
  MinSkew <- OneBehind
  MaxSkew = 1
INVARIANTS
  PresenceTypeOK
  LostInTime
PROPERTIES
  NeverLost
VIEW ClockView
