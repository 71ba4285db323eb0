SPECIFICATION FairSpec
CONSTANTS
  a = a
  b = b
  c = c
  Threads <- Three
  MayPanic = TRUE
  Modulus = 4
INVARIANTS MutualExclusion NoLostUpdate
PROPERTIES OnlyOvertaking
\* After a panic the flag stays set and every later caller spins for ever.
CHECK_DEADLOCK FALSE
