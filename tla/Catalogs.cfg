\* One process after another on one directory, its gate, lookups and hints in parallel.
SPECIFICATION Spec
CONSTANTS
  Procs = {p1}
  Roles = {"gate", "reference", "hint"}
  TTL = 1
  MaxTime = 2
  MaxCrashes = 1
  MaxLookups = 1
  Qualities = {{}, {"table"}, {"table", "docs"}}
  None = None
  Torn = Torn
INVARIANTS UsesAdmitted IndexOfItsArchive FreshIsFresh
CHECK_DEADLOCK FALSE
