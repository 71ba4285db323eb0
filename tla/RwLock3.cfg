SPECIFICATION FairSpec
CONSTANTS
  a = a
  b = b
  c = c
  Actors <- Three
  Calls <- AllCalls
  LOCKED_WRITE = 3
  MaxEntries = 1
INVARIANTS LockWord NoStranded
PROPERTIES ImplementsLiveRwLock OnlyOvertaking DropEnds
\* A reader that panics keeps the spinlock of its list, and all others may end
\* up waiting for it.
CHECK_DEADLOCK FALSE
