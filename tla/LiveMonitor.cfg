\* Every network with seeds; the channel may hold every message that arrives.
CONSTANTS
  None = None
  Block <- mcBlock
  chain <- mcChain
  density <- mcDensity
  rank <- mcRank
  shortRange <- mcShortRange
  Message <- mcMessage
  tag <- mcTag
  carries <- mcCarries
  proof <- mcProof
  requested = 3
  MaxArrivals = 4
SPECIFICATION LiveSpec
CHECK_DEADLOCK FALSE
INVARIANTS
  VerifyBeforeIngest
  SummaryIsComplete
PROPERTIES
  Terminates
