\* One peer, one fingerprint, two links: a link and the one that replaces it.
SPECIFICATION LifeSpec
CONSTANTS
  Peer = {p1}
  Self = self
  Greater <- AllSmaller
  Fp = {f1}
  Link = {l1, l2}
  None = None
INVARIANTS
  AliveOnStack
