\* Two threads; of three clients one may stall for ever.
CONSTANTS
  None = None
  Worker = {w1, w2}
  Request = {r1, r2, r3}
  stalled = {r3}
SPECIFICATION Spec
CHECK_DEADLOCK FALSE
INVARIANTS
  RequestsAccounted
  ValidMeansVerified
PROPERTIES
  EveryRequestAnswered
