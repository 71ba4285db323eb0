SPECIFICATION Spec
CONSTANTS
  a = a
  b = b
  c = c
  n = n
  Waiters <- TwoWaiters
  Notifiers <- OneNotifier
  Kinds <- BlockOnly
  Timed <- BlockOnly
  Notifies <- OneOnly
  MayCancel = FALSE
  MayStray = FALSE
  MaxItems = 2
  MaxEntries = 1
INVARIANTS EnoughWakeups
