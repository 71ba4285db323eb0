SPECIFICATION FairSpec
CONSTANTS
  wx = wx
  wy = wy
  Root = Root
  Workers <- TwoWorkers
  MaySpawn <- Nested
  MaxTasks = 1
  MaxReports = 2
INVARIANTS FreedByLast FreedInTheEnd HookWindow
PROPERTIES ExitAwaited ImplementsThreads JoinReturns ExitReturns
\* When every worker has ended and every handle is gone, nothing is left to do.
CHECK_DEADLOCK FALSE
