\* Two Runs with three calls over one slot fewer than calls.
SPECIFICATION Spec
CONSTANTS
  Calls = {c1, c2, c3}
  Slots = 2
  MaxRuns = 2
  EscapesWrapper = FALSE
INVARIANTS SlotsAccounted NoStaleInterrupt StartsOnCleanRuntime NoLateStart SuccessIsComplete
PROPERTIES RunReturns
