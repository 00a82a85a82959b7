\* Does every run of the monitor end with a summary?
CONSTANTS
  None = None
  Block <- mcBlock
  chain <- mcChain
  density <- mcDensity
  rank <- mcRank
  shortRange <- mcShortRange
  Message <- mcMessage
  tag <- mcTag
  carries <- mcCarries
  proof <- mcProof
  requested = 3
  MaxArrivals = 4
SPECIFICATION LiveSpec
CHECK_DEADLOCK FALSE
INVARIANT SummaryAtExit
