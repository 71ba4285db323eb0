SPECIFICATION FairSpec
CONSTANTS
  a = a
  b = b
  c = c
  Actors <- Three
  Calls <- AllCalls
  Limits <- AnyLimit
  MayCancel = TRUE
  SleepTruncates = FALSE
  MaxEntries = 1
INVARIANTS MutualExclusion NoStranded
PROPERTIES ImplementsLiveLock OnlyOvertaking UnlockEnds TimedCallReturns
