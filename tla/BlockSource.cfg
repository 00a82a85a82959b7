\* Three peers, batches of up to three queries.
CONSTANTS
  Peer = {"p", "r", "s"}
  Reliable <- mcReliable
  Batch <- mcBatch
  reply <- mcReply
  None = None
  Json <- mcJson
  decoded <- mcDecoded
  proof <- mcProof
SPECIFICATION Spec
INVARIANTS
  OneStreamPerConnection
  NoiseIsHarmless
  OnlyProvenFacts
PROPERTIES
  ImplementsFetch
  SourceReturns
CHECK_DEADLOCK FALSE
