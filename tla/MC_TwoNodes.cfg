\* Two connections at a time between the two processes.
SPECIFICATION Spec
CONSTANTS
  a = a
  b = b
  fpA = fpA
  fpB = fpB
  Fp = {fpA, fpB}
  Link = {c1, c2}
  None = None
INVARIANTS
  WireTypeOK
  HandshakeAlive
  NoHalfOpen
  Agreement
PROPERTIES
  HandshakesEnd
VIEW NetworkView
