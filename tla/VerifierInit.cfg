\* Two threads, any pair of calls, any set of keys that load.
CONSTANTS
  Unset = Unset
  Thread = {t1, t2}
SPECIFICATION ConstructSpec
CHECK_DEADLOCK FALSE
INVARIANTS
  NetworkAsRequested
  ConflictIsReal
  HookRestored
PROPERTIES
  EveryCallReturns
