\* A script that closes the async wrapper itself: RunProgram's value is not its promise.
SPECIFICATION Spec
CONSTANTS
  Calls = {c1}
  Slots = 1
  MaxRuns = 2
  EscapesWrapper = TRUE
INVARIANTS StartsOnCleanRuntime
