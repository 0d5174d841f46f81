\* Two connections, and nothing but announcements to start them.
SPECIFICATION CalmSpec
CONSTANTS
  a = a
  b = b
  fpA = fpA
  fpB = fpB
  Fp = {fpA, fpB}
  Link = {c1, c2}
  None = None
PROPERTIES
  StaysConnected
