\* One turn in depth: every tool kind, sub-agent, verification, budget.
SPECIFICATION Spec
CONSTANTS
  MaxIter = 3
  MaxSubagentIter = 2
  MaxEmpty = 2
  MaxTruncated = 2
  MaxFailures = 2
  MaxTokens = 3
  MaxBatch = 2
  MaxInner = 1
  MaxUsage = 1
  MaxTurns = 1
  Tools = {"io", "task", "verify", "unknown"}
INVARIANTS NoLateCall RequestsPaired AttemptsClosed
PROPERTIES StopPreempts OverBudgetStartsNothing
