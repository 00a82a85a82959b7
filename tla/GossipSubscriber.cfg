\* Two seeds, one of which can always be dialled; two runs of the tool.
CONSTANTS
  Peer = {"s1", "s2"}
  Reliable = {"s1"}
  Wanted = {0, 1, 2, 3}
  None = None
  Truncated = Truncated
  MaxDrops = 3
  MaxBlocks = 3
  MaxRuns = 2
SPECIFICATION Spec
INVARIANTS
  CountIsExact
  SeedsKept
  CaptureIsExact
PROPERTIES
  Reconnects
CHECK_DEADLOCK FALSE
