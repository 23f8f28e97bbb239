\* The lookup that starts a fetch leaves early, the fetch hangs, another lookup comes.
SPECIFICATION Spec
CONSTANTS
  Callers = {a, b}
  Timeout = 2
  None = None
PROPERTIES JoinsNoStuckFetch
CHECK_DEADLOCK FALSE
