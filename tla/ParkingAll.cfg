SPECIFICATION FairSpec
CONSTANTS
  ux = ux
  vx = vx
  Unparkers <- TwoUnparkers
  MaxUnparks = 4
INVARIANTS SleeperNotified FewReturns
PROPERTIES ImplementsLiveToken
\* A thread may stay parked when nobody unparks it, and a panic ends it.
CHECK_DEADLOCK FALSE
