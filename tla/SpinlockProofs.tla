--------------------------- MODULE SpinlockProofs ---------------------------
(* Mutual exclusion of closures, and with it the absence of lost updates,    *)
(* for any number of threads, panicking closures included.                   *)
EXTENDS Spinlock, TLAPS

\* The invariant holds at first.
LEMMA InitInv == Init => IndInv
<1> SUFFICES ASSUME Init PROVE IndInv
  OBVIOUS
<1> USE DEF Init
<1>1. 0 \in 0 .. Modulus - 1
  BY ModulusAssumption
<1>2. TypeOK
  BY <1>1 DEF TypeOK
<1>3. MutualExclusion /\ ReadIsCurrent /\ NoLostUpdate
  BY DEF MutualExclusion, Owns, Inside, ReadIsCurrent, NoLostUpdate
<1>4. QED
  BY <1>2, <1>3 DEF IndInv

\* Every step keeps it: only Swap enters, and only when the flag is clear.
LEMMA StepInv == IndInv /\ [Next]_vars => IndInv'
<1> SUFFICES ASSUME IndInv, [Next]_vars PROVE IndInv'
  OBVIOUS
<1> USE ModulusAssumption DEF IndInv, TypeOK, MutualExclusion, Owns, Inside,
                              ReadIsCurrent, NoLostUpdate, Goto
<1>1. ASSUME NEW t \in Threads, Call(t) PROVE IndInv'
  BY <1>1 DEF Call
<1>2. ASSUME NEW t \in Threads, Swap(t) PROVE IndInv'
  BY <1>2 DEF Swap
<1>3. ASSUME NEW t \in Threads, Read(t) PROVE IndInv'
  BY <1>3 DEF Read
<1>4. ASSUME NEW t \in Threads, Write(t) PROVE IndInv'
  BY <1>4 DEF Write
<1>5. ASSUME NEW t \in Threads, Leave(t) PROVE IndInv'
  BY <1>5 DEF Leave
<1>6. ASSUME NEW t \in Threads, Panic(t) PROVE IndInv'
  BY <1>6 DEF Panic
<1>7. CASE UNCHANGED vars
  BY <1>7 DEF vars
<1>8. QED
  BY <1>1, <1>2, <1>3, <1>4, <1>5, <1>6, <1>7 DEF Next, Step

\* The inductive invariant holds in every reachable state.
THEOREM Invariance == Spec => []IndInv
BY InitInv, StepInv, PTL DEF Spec

\* with_mut runs one closure at a time.
THEOREM Exclusion == Spec => []MutualExclusion
<1>1. IndInv => MutualExclusion
  BY DEF IndInv
<1>2. QED
  BY <1>1, Invariance, PTL

\* No closure's update of the data is lost, even when other closures panic.
THEOREM UpdatesKept == Spec => []NoLostUpdate
<1>1. IndInv => NoLostUpdate
  BY DEF IndInv
<1>2. QED
  BY <1>1, Invariance, PTL

\* The flag, the protected count and the threads' places keep their types.
THEOREM Typed == Spec => []TypeOK
<1>1. IndInv => TypeOK
  BY DEF IndInv
<1>2. QED
  BY <1>1, Invariance, PTL
=============================================================================
