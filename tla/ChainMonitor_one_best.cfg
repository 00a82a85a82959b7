\* The smallest window new() allows: is the best ever evicted?
CONSTANTS
  None = None
  Block <- mcBlock
  chain <- mcChain
  density <- mcDensity
  rank <- mcRank
  shortRange <- mcShortRange
  requested = 1
SPECIFICATION Spec
INVARIANT BestNeverEvicted
