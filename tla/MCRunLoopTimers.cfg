SPECIFICATION Spec
CONSTANTS
  Mode = {"A", "B"}
  Timer = {"t1", "t2", "t3"}
  Owner = "L"
  Client = {"T"}
  Interval <- MCInterval
  Tolerance <- MCTolerance
  Programs <- MCPrograms
  IntervalLimit = 2
  LongMax = 4
  MaxNow = 3
  MaxDepth = 2
  None = None
INVARIANTS NotForgotten ArraysSorted
\* At the end of the bounded time nothing is left to do.
CHECK_DEADLOCK FALSE
