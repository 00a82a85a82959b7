\* The smallest window new() allows.
CONSTANTS
  None = None
  Block <- mcBlock
  chain <- mcChain
  density <- mcDensity
  rank <- mcRank
  shortRange <- mcShortRange
  requested = 0
SPECIFICATION Spec
CHECK_DEADLOCK FALSE
INVARIANTS
  CanonicalUntilPanic
