\* Two branches in long range, where the preference is not transitive.
CONSTANTS
  None = None
  Block <- mcBlock
  chain <- mcChain
  density <- mcLongDensity
  rank <- mcRank
  shortRange <- mcLongShortRange
  requested = 3
  MaxTips = 3
SPECIFICATION LongSpec
INVARIANTS
  RecentRetained
  VerdictsExact
  WinnerIsCanonical
  NoLaterTipPreferred
PROPERTIES
  ImplementsCanonicalTip
