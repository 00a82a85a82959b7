\* A live network: every pair of tips in short range, a window of four blocks.
CONSTANTS
  None = None
  Block <- mcBlock
  chain <- mcChain
  density <- mcDensity
  rank <- mcRank
  shortRange <- mcShortRange
  requested = 4
SPECIFICATION CliSpec
INVARIANTS
  TypeOK
  WindowIsSound
  BestNeverEvicted
  VerdictsExact
  UnresolvedHasGap
  NoExtraFetch
  BestIsCanonical
  ExitCodeIsHonest
  PrintsCanonicalBest
CHECK_DEADLOCK FALSE
