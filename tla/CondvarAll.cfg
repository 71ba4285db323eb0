SPECIFICATION FairSpec
CONSTANTS
  a = a
  b = b
  c = c
  n = n
  Waiters <- TwoWaiters
  Notifiers <- OneNotifier
  Kinds <- AllKinds
  Timed <- AllKinds
  Notifies <- AllOnly
  MayCancel = TRUE
  MayStray = TRUE
  MaxItems = 1
  MaxEntries = 1
INVARIANTS Registered NoLostWakeup
PROPERTIES WaitEnds TimedWaitEnds
