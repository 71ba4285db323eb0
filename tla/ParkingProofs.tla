--------------------------- MODULE ParkingProofs ---------------------------
(* Proofs about Parking for any number of unparkers and of calls: no lost    *)
(* wakeup, a bound on what one unpark ends, and the refinement of the token. *)
EXTENDS Parking, FiniteSetTheorems, TLAPS

\* The bound on returns holds step by step, with the types alone beside it.
IndInv == TypeOK /\ SleeperNotified /\ FewReturns

\* A thread starts awake, without a token and without a debt.
LEMMA InitInv == Init => IndInv
<1> SUFFICES ASSUME Init PROVE IndInv
  OBVIOUS
<1> USE DEF Init
<1>0. parking_state \in 0 .. 1
  OBVIOUS
<1>1. TypeOK
  BY <1>0 DEF TypeOK
<1>4. SleeperNotified
  BY DEF SleeperNotified
<1>2. Cardinality(notifying) = 0
  BY FS_EmptySet
<1>3. FewReturns
  BY <1>2 DEF FewReturns, Endings
<1>5. QED
  BY <1>1, <1>3, <1>4 DEF IndInv

\* Every step keeps the types.
LEMMA StepTypes == TypeOK /\ [Next]_vars => TypeOK'
<1> SUFFICES ASSUME TypeOK, [Next]_vars PROVE TypeOK'
  OBVIOUS
<1> USE DEF TypeOK, counts
<1>1. CASE Park
  BY <1>1 DEF Park
<1>2. CASE ThreadStep
  BY <1>2 DEF ThreadStep, TryToken, Wait, Unsupported, Consume, ReturnEarly
<1>3. CASE TimeOut
  BY <1>3 DEF TimeOut
<1>4. ASSUME NEW u \in Unparkers, Unpark(u) PROVE TypeOK'
  BY <1>4 DEF Unpark
<1>5. ASSUME NEW u \in Unparkers, Notify(u) PROVE TypeOK'
  BY <1>5 DEF Notify
<1>6. CASE UNCHANGED vars
  BY <1>6 DEF vars
<1>7. QED
  BY <1>1, <1>2, <1>3, <1>4, <1>5, <1>6 DEF Next

\* A thread falls asleep only on a clear word, and whoever sets it goes on to
\* notify.  The last notify does not leave the thread asleep.
LEMMA StepNotified == TypeOK /\ SleeperNotified /\ [Next]_vars => SleeperNotified'
<1> SUFFICES ASSUME TypeOK, SleeperNotified, [Next]_vars PROVE SleeperNotified'
  OBVIOUS
<1> USE DEF SleeperNotified, TypeOK
<1>1. CASE Park
  BY <1>1 DEF Park
<1>2. CASE ThreadStep
  BY <1>2 DEF ThreadStep, TryToken, Wait, Unsupported, Consume, ReturnEarly
<1>3. CASE TimeOut
  BY <1>3 DEF TimeOut
<1>4. ASSUME NEW u \in Unparkers, Unpark(u) PROVE SleeperNotified'
  BY <1>4 DEF Unpark
<1>5. ASSUME NEW u \in Unparkers, Notify(u) PROVE SleeperNotified'
  BY <1>5 DEF Notify
<1>6. CASE UNCHANGED vars
  BY <1>6 DEF vars
<1>7. QED
  BY <1>1, <1>2, <1>3, <1>4, <1>5, <1>6 DEF Next

\* Each unpark brings three endings at most; a return uses one up at least.
LEMMA StepReturns == TypeOK /\ FewReturns /\ [Next]_vars => FewReturns'
<1> SUFFICES ASSUME TypeOK, FewReturns, [Next]_vars PROVE FewReturns'
  OBVIOUS
<1> DEFINE n == Cardinality(notifying)
<1>1. IsFiniteSet(notifying) /\ n \in Nat
  BY UnparkersAssumption, FS_Subset, FS_CardinalityType DEF TypeOK
<1> USE DEF TypeOK, FewReturns, Endings
<1>2. CASE Park
  BY <1>1, <1>2 DEF Park, counts
<1>3. CASE TryToken
  BY <1>1, <1>3 DEF TryToken, ReturnEarly
<1>4. CASE Wait
  BY <1>1, <1>4 DEF Wait, ReturnEarly
<1>5. CASE Unsupported
  BY <1>1, <1>5 DEF Unsupported, counts
<1>6. CASE Consume
  BY <1>1, <1>6 DEF Consume, ReturnEarly
<1>7. CASE TimeOut
  BY <1>1, <1>7 DEF TimeOut, counts
<1>8. ASSUME NEW u \in Unparkers, Unpark(u) PROVE FewReturns'
  <2>1. Cardinality(notifying') = n + 1
    BY <1>1, <1>8, FS_AddElement DEF Unpark
  <2>2. QED
    BY <1>1, <1>8, <2>1 DEF Unpark
<1>9. ASSUME NEW u \in Unparkers, Notify(u) PROVE FewReturns'
  <2>1. Cardinality(notifying') = n - 1
    BY <1>1, <1>9, FS_RemoveElement DEF Notify
  <2>2. QED
    BY <1>1, <1>9, <2>1 DEF Notify, counts
<1>10. CASE UNCHANGED vars
  BY <1>1, <1>10 DEF vars, counts
<1>11. QED
  BY <1>2, <1>3, <1>4, <1>5, <1>6, <1>7, <1>8, <1>9, <1>10 DEF Next, ThreadStep

\* Every step of the thread and of its unparkers keeps all three.
LEMMA StepInv == IndInv /\ [Next]_vars => IndInv'
BY StepTypes, StepNotified, StepReturns DEF IndInv

\* The inductive invariant holds in every reachable state.
THEOREM Invariance == Spec => []IndInv
BY InitInv, StepInv, PTL DEF Spec

\* No thread sleeps on a set word without a notify on its way, whatever the
\* order of the store, the notify and the wait.
THEOREM NoSleepThroughUnpark == Spec => []SleeperNotified
<1>1. IndInv => SleeperNotified
  BY DEF IndInv
<1>2. QED
  BY <1>1, Invariance, PTL

\* n calls of unpark end at most 3n parks early, for any number of unparkers.
THEOREM ReturnsBounded == Spec => []FewReturns
<1>1. IndInv => FewReturns
  BY DEF IndInv
<1>2. QED
  BY <1>1, Invariance, PTL

\* Every access to the word is a step of the token, or none.
LEMMA StepMaps == TypeOK /\ [Next]_vars => [Abs!Next]_(Abs!vars)
<1> SUFFICES ASSUME TypeOK, [Next]_vars PROVE [Abs!Next]_(Abs!vars)
  OBVIOUS
<1> USE DEF TypeOK, Token, Parked, counts
<1>1. CASE Park
  <2>1. Token' = Token /\ Parked = "no" /\ Parked' \in {"park", "park_timeout"}
    BY <1>1 DEF Park
  <2>2. QED
    BY <2>1 DEF Abs!Park, Abs!Next
<1>2. CASE TryToken \/ Consume
  <2>1. CASE pc = "trying" /\ parking_state = 0
    <3>1. Parked' = Parked /\ (Token' <=> Token)
      BY <1>2, <2>1 DEF TryToken, Consume, ReturnEarly
    <3>2. QED
      BY <3>1 DEF Abs!vars
  <2>2. CASE ~(pc = "trying" /\ parking_state = 0)
    <3>1. Token /\ ~Token' /\ Parked # "no" /\ Parked' = "no"
      BY <1>2, <2>2 DEF TryToken, Consume, ReturnEarly
    <3>2. QED
      BY <3>1 DEF Abs!Return, Abs!Next
  <2>3. QED
    BY <2>1, <2>2
<1>3. CASE Wait
  <2>1. Token' <=> Token
    BY <1>3 DEF Wait, ReturnEarly
  <2>2. \/ Parked' = Parked
        \/ Parked = "park_timeout" /\ Parked' = "no"
    BY <1>3 DEF Wait, ReturnEarly
  <2>3. QED
    BY <2>1, <2>2 DEF Abs!TimedReturn, Abs!Next, Abs!vars
<1>4. CASE Unsupported
  <2>1. Token' = Token /\ Parked # "no" /\ Parked' = "no"
    BY <1>4 DEF Unsupported
  <2>2. QED
    BY <2>1 DEF Abs!Refuse, Abs!Next
<1>5. CASE TimeOut
  <2>1. Token' = Token /\ Parked = "park_timeout" /\ Parked' = "no"
    BY <1>5 DEF TimeOut
  <2>2. QED
    BY <2>1 DEF Abs!TimedReturn, Abs!Next
<1>6. ASSUME NEW u \in Unparkers, Unpark(u) \/ Notify(u) PROVE [Abs!Next]_(Abs!vars)
  <2>1. Parked' = Parked /\ (Token' = Token \/ Token' = TRUE)
    BY <1>6 DEF Unpark, Notify
  <2>2. QED
    BY <2>1 DEF Abs!Unpark, Abs!Next, Abs!vars
<1>7. CASE UNCHANGED vars
  BY <1>7 DEF vars, Abs!vars
<1>8. QED
  BY <1>1, <1>2, <1>3, <1>4, <1>5, <1>6, <1>7 DEF Next, ThreadStep

\* The word implements the token, for any number of unparkers.
THEOREM Refinement == Spec => ImplementsToken
<1>1. Init => Abs!Init
  BY DEF Init, Abs!Init, Token, Parked
<1>2. IndInv => TypeOK
  BY DEF IndInv
<1>3. QED
  BY <1>1, <1>2, StepMaps, Invariance, PTL DEF Spec, ImplementsToken, Abs!SafeSpec

\* parking_state is 0 or 1, and the other variables have their types.
THEOREM Typed == Spec => []TypeOK
<1>1. IndInv => TypeOK
  BY DEF IndInv
<1>2. QED
  BY <1>1, Invariance, PTL
=============================================================================
