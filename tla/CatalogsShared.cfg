\* Two processes at once on one directory.
SPECIFICATION Spec
CONSTANTS
  Procs = {p1, p2}
  Roles = {"gate"}
  TTL = 1
  MaxTime = 2
  MaxCrashes = 0
  MaxLookups = 1
  Qualities = {{"table", "docs"}}
  None = None
  Torn = Torn
INVARIANT FreshIsFresh
CHECK_DEADLOCK FALSE
