\* Two launches that may overlap, four values to generate.
SPECIFICATION Spec
CONSTANTS
  Proc = {p1, p2}
  Value = {v1, v2, v3, v4}
  None = None
INVARIANTS
  StartupTypeOK
  SchemaComplete
  OneIdentity
  NotItsOwnPeer
SYMMETRY Symmetry
