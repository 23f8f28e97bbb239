\* Three lookups of one key over two ticks: joins, timers, late fetches.
SPECIFICATION Spec
CONSTANTS
  Callers = {a, b, c}
  Timeout = 2
  None = None
INVARIANTS PeersSurvive
PROPERTIES LookupReturns
CHECK_DEADLOCK FALSE
