\* Does an ancestor that was reported ever lie outside the window?
CONSTANTS
  None = None
  Block <- mcBlock
  chain <- mcChain
  density <- mcDensity
  rank <- mcRank
  shortRange <- mcShortRange
  requested = 4
SPECIFICATION Spec
INVARIANT AncestorInWindow
