\* A session of several turns: history, carried tasks, retries, a press that ends a turn.
SPECIFICATION Spec
CONSTANTS
  MaxIter = 5
  MaxSubagentIter = 0
  MaxEmpty = 2
  MaxTruncated = 2
  MaxFailures = 1
  MaxTokens = 2
  MaxBatch = 1
  MaxInner = 1
  MaxUsage = 1
  MaxTurns = 3
  Tools = {"io", "todos"}
INVARIANTS HistoryAccounted FutileTurnsBounded
PROPERTIES StopEndsTurn
