\* Two peers whose prompts compete, two fingerprints, two links.
SPECIFICATION PromptSpec
CONSTANTS
  Peer = {p1, p2}
  Self = self
  Greater <- AllSmaller
  Fp = {f1, f2}
  Link = {l1, l2}
  None = None
  MaxPosted = 2
INVARIANTS
  PromptTypeOK
  PromptOwed
  QueueServed
  DialogUndecided
SYMMETRY Symmetry
VIEW PromptView
