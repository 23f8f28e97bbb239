\* A tool call with an inner call, and two detached calls that begin, write and hang while the log is closed.
SPECIFICATION Spec
CONSTANTS
  Outer = {o1}
  Inner = {i1}
  Boot = {b1, b2}
  NoCall = NoCall
INVARIANTS CleanCloseIsComplete AttemptsFirst
PROPERTIES CloserReturns KeepsContract
CHECK_DEADLOCK FALSE
