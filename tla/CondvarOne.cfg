SPECIFICATION Spec
CONSTANTS
  a = a
  b = b
  c = c
  n = n
  Waiters <- ThreeWaiters
  Notifiers <- OneNotifier
  Kinds <- AllKinds
  Timed <- SpinOnly
  Notifies <- OneOnly
  MayCancel = FALSE
  MayStray = FALSE
  MaxItems = 2
  MaxEntries = 1
INVARIANTS EnoughWakeups
PROPERTIES OneIsWoken
