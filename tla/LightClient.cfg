\* Ledgers of depth 2; a sweep of five accounts in batches of two,
\* of a ledger of depth 3.
CONSTANTS
  Depth <- mcDepth
  Ledger <- mcLedger
  content <- mcContent
  node <- mcNode
  Empty = "empty"
  BadHash <- mcBadHash
  Undecodable = "undecodable"
  None = None
  Block <- mcBlock
  Index <- mcIndex
  AnswerLists <- mcAnswerLists
  Claims <- mcClaims
  SubtreeHeight = 1
  SweepDepth = 3
  Capacity = 5
  owner <- mcOwner
  Refused = Refused
SPECIFICATION ClientSpec
INVARIANTS
  PairsRight
  NothingSkipped
  ReadSound
  ReadComplete
  InclusionSound
CHECK_DEADLOCK FALSE
