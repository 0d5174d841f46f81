\* One peer, whose id is above ours, that three connections may serve in turn
\* with two fingerprints.  No symmetry: two of the properties are liveness.
SPECIFICATION Spec
CONSTANTS
  p1 = p1
  Peer = {p1}
  Self = self
  Greater <- OneGreater
  Fp = {f1, f2}
  Link = {l1, l2, l3}
  None = None
INVARIANTS
  TypeOK
  LinkTables
  NoDangling
  NoLeak
  CachePersisted
  LinkedOnline
  BlockedCut
PROPERTIES
  TrustKeepsFingerprint
  BlockedSticks
  BlockedGoes
  ClosedFreed
