\* One peer that reconnects with another fingerprint while the user reads.
SPECIFICATION PromptSpec
CONSTANTS
  Peer = {p1}
  Self = self
  Greater <- AllSmaller
  Fp = {f1, f2}
  Link = {l1, l2}
  None = None
  MaxPosted = 2
PROPERTIES
  TrustsWhatIsShown
