SPECIFICATION Spec
CONSTANTS
  tx = tx
  main = main
  n1 = n1
  n2 = n2
  f1 = f1
  f2 = f2
  Nobody = Nobody
  Threads <- OneThread
  Clients <- OneClient
  Names <- TwoNames
  Fns <- TwoFns
  MaxChanges = 1
INVARIANTS JoinNeverFails
\* When every thread has ended and every handle is gone, nothing is left to do.
CHECK_DEADLOCK FALSE
