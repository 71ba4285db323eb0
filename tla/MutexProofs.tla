---------------------------- MODULE MutexProofs ----------------------------
(* Proofs about Mutex for any set of actors.  The invariant IndInv is proved *)
(* one conjunct at a time: its types, mutual exclusion, and the four halves  *)
(* of the wakeup debt.  From it follow mutual exclusion, the absence of      *)
(* stranded sleepers, and the refinement of AbstractLock step by step.       *)
EXTENDS Mutex, TLAPS

\* Taking the lock keeps the types, whichever call takes it.
LEMMA AcquireTypes == ASSUME TypeOK, NEW t \in Actors, Acquire(t) PROVE TypeOK'
<1>1. pc' \in [Actors -> States]
  BY DEF TypeOK, Acquire, Goto, States
<1>2. deadline' \in [Actors -> {"none", "ahead", "passed"}]
  BY DEF TypeOK, Acquire
<1>3. QED
  BY <1>1, <1>2 DEF TypeOK, Acquire, lists, wakes, woken

\* A call that returns without the lock keeps them.
LEMMA GiveUpTypes ==
  ASSUME TypeOK, NEW t \in Actors, GiveUp(t), UNCHANGED <<lists, wakes, woken>>
  PROVE  TypeOK'
<1>1. pc' \in [Actors -> States]
  BY DEF TypeOK, GiveUp, Goto, States
<1>2. deadline' \in [Actors -> {"none", "ahead", "passed"}]
  BY DEF TypeOK, GiveUp
<1>3. QED
  BY <1>1, <1>2 DEF TypeOK, GiveUp, lists, wakes, woken

\* Going on to the next place of the code keeps them.
LEMMA GotoTypes ==
  ASSUME TypeOK, NEW t \in Actors, NEW s \in States, Goto(t, s),
         UNCHANGED <<data_lock, lists, deadline, wakes, woken>>
  PROVE  TypeOK'
<1>1. pc' \in [Actors -> States]
  BY DEF TypeOK, Goto
<1>2. QED
  BY <1>1 DEF TypeOK, lists, wakes, woken

\* Dropping an async receiver keeps them, whether for a None or with its future.
LEMMA DropReceiverTypes ==
  ASSUME TypeOK, NEW t \in Actors, NEW s \in States, DropReceiver(t), Goto(t, s)
  PROVE  TypeOK'
<1>1. pc' \in [Actors -> States]
  BY DEF TypeOK, Goto
<1>2. /\ waiting_async' \subseteq Actors
      /\ sends' \in [Actors -> SUBSET Actors]
  BY DEF TypeOK, DropReceiver
<1>3. /\ signal' \in [Actors -> BOOLEAN]
      /\ deadline' \in [Actors -> {"none", "ahead", "passed"}]
  BY DEF TypeOK, DropReceiver
<1>4. QED
  BY <1>1, <1>2, <1>3 DEF TypeOK, DropReceiver

\* The head of a loop keeps them: the last try, None, or the next round.
LEMMA LoopHeadTypes ==
  ASSUME TypeOK, NEW t \in Actors, NEW top, NEW try \in States, LoopHead(t, top, try)
  PROVE  TypeOK'
<1>1. CASE Acquire(t)
  BY <1>1, AcquireTypes
<1>2. CASE GiveUp(t) /\ UNCHANGED <<lists, wakes, woken>>
  BY <1>2, GiveUpTypes
<1>3. CASE Goto(t, try) /\ UNCHANGED <<data_lock, lists, deadline, wakes, woken>>
  BY <1>3, GotoTypes
<1>4. QED
  BY <1>1, <1>2, <1>3 DEF LoopHead

\* Every step keeps the types.
LEMMA TypeStep == TypeOK /\ [Next]_vars => TypeOK'
<1> SUFFICES ASSUME TypeOK, [Next]_vars PROVE TypeOK'
  OBVIOUS
<1>1. ASSUME NEW t \in Actors, TryLock(t) PROVE TypeOK'
  BY <1>1, AcquireTypes DEF TryLock
<1>2. ASSUME NEW t \in Actors, Call(t) PROVE TypeOK'
  <2>1. pc' \in [Actors -> States]
    BY <1>2, CallsAssumption DEF TypeOK, Call, Goto, States
  <2>2. deadline' \in [Actors -> {"none", "ahead", "passed"}]
    BY <1>2, LimitsAssumption DEF TypeOK, Call
  <2>3. QED
    BY <1>2, <2>1, <2>2 DEF TypeOK, Call, lists, wakes, woken
<1>3. ASSUME NEW t \in Actors, CancelAsync(t) PROVE TypeOK'
  BY <1>3, DropReceiverTypes DEF CancelAsync, States
<1>4. ASSUME NEW t \in Actors, SpinSwap(t) PROVE TypeOK'
  <2>1. CASE Acquire(t)
    BY <2>1, AcquireTypes
  <2>2. CASE ~Acquire(t)
    BY <1>4, <2>2, GotoTypes DEF SpinSwap, States
  <2>3. QED
    BY <2>1, <2>2
<1>5. ASSUME NEW t \in Actors, SpinCheck(t) PROVE TypeOK'
  <2>1. CASE GiveUp(t)
    BY <1>5, <2>1, GiveUpTypes DEF SpinCheck
  <2>2. CASE ~GiveUp(t)
    BY <1>5, <2>2, GotoTypes DEF SpinCheck, States
  <2>3. QED
    BY <2>1, <2>2
<1>6. ASSUME NEW t \in Actors, BlockHead(t) PROVE TypeOK'
  BY <1>6, LoopHeadTypes DEF BlockHead, States
<1>7. ASSUME NEW t \in Actors, AsyncHead(t) PROVE TypeOK'
  BY <1>7, LoopHeadTypes DEF AsyncHead, States
<1>8. ASSUME NEW t \in Actors, AwaitTimeout(t) PROVE TypeOK'
  BY <1>8, DropReceiverTypes DEF AwaitTimeout, States
<1>9. ASSUME NEW t \in Actors, BlockTry(t) PROVE TypeOK'
  <2>1. CASE Acquire(t)
    BY <2>1, AcquireTypes
  <2>2. CASE ~Acquire(t)
    BY <1>9, <2>2, GotoTypes DEF BlockTry, TryOrPush, States
  <2>3. QED
    BY <2>1, <2>2
<1>10. ASSUME NEW t \in Actors, AsyncTry(t) PROVE TypeOK'
  <2>1. CASE Acquire(t)
    BY <2>1, AcquireTypes
  <2>2. CASE ~Acquire(t)
    BY <1>10, <2>2, GotoTypes DEF AsyncTry, TryOrPush, States
  <2>3. QED
    BY <2>1, <2>2
<1> USE DEF TypeOK, States, Goto, lists, wakes, woken
<1>11. ASSUME NEW t \in Actors, BlockPush(t) PROVE TypeOK'
  BY <1>11 DEF BlockPush
<1>12. ASSUME NEW t \in Actors, ParkReturn(t) PROVE TypeOK'
  BY <1>12 DEF ParkReturn
<1>13. ASSUME NEW t \in Actors, AsyncPush(t) PROVE TypeOK'
  BY <1>13 DEF AsyncPush
<1>14. ASSUME NEW t \in Actors, AwaitReturn(t) PROVE TypeOK'
  BY <1>14 DEF AwaitReturn
<1>15. ASSUME NEW t \in Actors, StrayUnpark(t) PROVE TypeOK'
  BY <1>15 DEF StrayUnpark
<1>16. ASSUME NEW t \in Actors, TakeSync(t) PROVE TypeOK'
  BY <1>16 DEF TakeSync, SyncListFree, NoHandles
<1>17. ASSUME NEW t \in Actors, Unpark(t) PROVE TypeOK'
  BY <1>17 DEF Unpark
<1>18. ASSUME NEW t \in Actors, TakeAsync(t) PROVE TypeOK'
  BY <1>18 DEF TakeAsync, AsyncListFree, NoHandles
<1>19. ASSUME NEW t \in Actors, Send(t) PROVE TypeOK'
  BY <1>19 DEF Send
<1>20. ASSUME NEW t \in Actors,
            ParkTimeout(t) \/ DropGuard(t)
            \/ Unlocked(t) \/ DeadlinePasses(t)
      PROVE TypeOK'
  <2>1. CASE ParkTimeout(t)
    BY <2>1 DEF ParkTimeout
  <2>2. CASE DropGuard(t)
    BY <2>2 DEF DropGuard
  <2>3. CASE Unlocked(t)
    BY <2>3 DEF Unlocked
  <2>4. CASE DeadlinePasses(t)
    BY <2>4 DEF DeadlinePasses
  <2>5. QED
    BY <1>20, <2>1, <2>2, <2>3, <2>4
<1>21. CASE UNCHANGED vars
  BY <1>21 DEF vars
<1>22. QED
  BY <1>1, <1>2, <1>3, <1>4, <1>5, <1>6, <1>7, <1>8, <1>9, <1>10, <1>11, <1>12,
     <1>13, <1>14, <1>15, <1>16, <1>17, <1>18, <1>19, <1>20, <1>21 DEF Next, Step

\* Only a successful CAS on a clear data_lock makes a guard, and only
\* Guard::drop clears it again.
LEMMA ExclusionStep == TypeOK /\ MutualExclusion /\ [Next]_vars => MutualExclusion'
<1> SUFFICES ASSUME TypeOK, MutualExclusion, [Next]_vars PROVE MutualExclusion'
  OBVIOUS
<1> USE DEF TypeOK, States, MutualExclusion, Goto, lists, wakes, woken
<1>1. ASSUME NEW t \in Actors, TryLock(t) PROVE MutualExclusion'
  BY <1>1 DEF TryLock, Acquire, Outside
<1>2. ASSUME NEW t \in Actors, SpinSwap(t) PROVE MutualExclusion'
  <2>1. CASE Acquire(t)
    BY <1>2, <2>1 DEF SpinSwap, Acquire
  <2>2. CASE ~Acquire(t)
    BY <1>2, <2>2 DEF SpinSwap
  <2>3. QED
    BY <2>1, <2>2
<1>3. ASSUME NEW t \in Actors, SpinCheck(t) PROVE MutualExclusion'
  <2>1. Goto(t, "idle") \/ Goto(t, "spin")
    BY <1>3 DEF SpinCheck, GiveUp
  <2>2. pc[t] = "spin_check" /\ UNCHANGED data_lock
    BY <1>3 DEF SpinCheck, GiveUp
  <2>3. QED
    BY <2>1, <2>2
<1>4. ASSUME NEW t \in Actors, BlockHead(t) PROVE MutualExclusion'
  BY <1>4 DEF BlockHead, LoopHead, Acquire, GiveUp
<1>5. ASSUME NEW t \in Actors, BlockTry(t) PROVE MutualExclusion'
  BY <1>5 DEF BlockTry, TryOrPush, Acquire, SyncListFree
<1>6. ASSUME NEW t \in Actors, AsyncHead(t) PROVE MutualExclusion'
  BY <1>6 DEF AsyncHead, LoopHead, Acquire, GiveUp
<1>7. ASSUME NEW t \in Actors, AsyncTry(t) PROVE MutualExclusion'
  BY <1>7 DEF AsyncTry, TryOrPush, Acquire, AsyncListFree
<1>8. ASSUME NEW t \in Actors, DropGuard(t) PROVE MutualExclusion'
  BY <1>8 DEF DropGuard
<1>9. ASSUME NEW t \in Actors,
            Call(t) \/ CancelAsync(t)
            \/ BlockPush(t) \/ ParkReturn(t) \/ ParkTimeout(t) \/ AsyncPush(t)
            \/ AwaitReturn(t) \/ AwaitTimeout(t) \/ TakeSync(t) \/ Unpark(t)
            \/ TakeAsync(t) \/ Send(t) \/ Unlocked(t) \/ DeadlinePasses(t)
            \/ StrayUnpark(t)
      PROVE MutualExclusion'
  BY <1>9, CallsAssumption, LimitsAssumption
     DEF Call, FewHandles,
         CancelAsync, DropReceiver, GiveUp, Outside, BlockPush, ParkReturn,
         ParkTimeout, AsyncPush, AwaitReturn, AwaitTimeout, TimerFired, SleepEnds,
         TakeSync, SyncListFree, NoHandles, Unpark, TakeAsync,
         AsyncListFree, Send, Unlocked, DeadlinePasses, StrayUnpark
<1>10. CASE UNCHANGED vars
  BY <1>10 DEF vars
<1>11. QED
  BY <1>1, <1>2, <1>3, <1>4, <1>5, <1>6, <1>7, <1>8, <1>9, <1>10 DEF Next, Step

\* A parked thread keeps its claim on a wakeup: its handle moves from the list
\* to an unlocker to its token, and nothing drops it on the way.
LEMMA SyncOwedStep == IndInv /\ [Next]_vars => SyncOwed'
<1> SUFFICES ASSUME TypeOK, SyncOwed, [Next]_vars PROVE SyncOwed'
  BY DEF IndInv, WakeupsOwed
<1> USE DEF TypeOK, States, SyncOwed, Goto, lists, wakes, woken
<1>1. ASSUME NEW t \in Actors, BlockPush(t) PROVE SyncOwed'
  BY <1>1 DEF BlockPush
<1>2. ASSUME NEW t \in Actors, ParkReturn(t) PROVE SyncOwed'
  BY <1>2 DEF ParkReturn
<1>3. ASSUME NEW t \in Actors, TakeSync(t) PROVE SyncOwed'
  BY <1>3 DEF TakeSync, SyncListFree, NoHandles
<1>4. ASSUME NEW t \in Actors, Unpark(t) PROVE SyncOwed'
  BY <1>4 DEF Unpark
<1>5. ASSUME NEW t \in Actors, TakeAsync(t) PROVE SyncOwed'
  BY <1>5 DEF TakeAsync, AsyncListFree, NoHandles
<1>6. ASSUME NEW t \in Actors, StrayUnpark(t) PROVE SyncOwed'
  BY <1>6 DEF StrayUnpark
<1>7. ASSUME NEW t \in Actors,
            TryLock(t) \/ Call(t)
            \/ CancelAsync(t) \/ SpinSwap(t) \/ SpinCheck(t) \/ BlockHead(t)
            \/ BlockTry(t) \/ ParkTimeout(t) \/ AsyncHead(t) \/ AsyncTry(t)
            \/ AsyncPush(t) \/ AwaitReturn(t) \/ AwaitTimeout(t)
            \/ DropGuard(t) \/ Send(t) \/ Unlocked(t) \/ DeadlinePasses(t)
      PROVE SyncOwed'
  BY <1>7, CallsAssumption, LimitsAssumption
     DEF TryLock, Acquire, Call, Outside,
         FewHandles, CancelAsync, DropReceiver, GiveUp, SpinSwap, SpinCheck,
         BlockHead, LoopHead, BlockTry, TryOrPush, SyncListFree,
         ParkTimeout, AsyncHead, AsyncTry, AsyncListFree, AsyncPush,
         AwaitReturn, AwaitTimeout, TimerFired, SleepEnds, DropGuard, Send, Unlocked,
         DeadlinePasses
<1>8. CASE UNCHANGED vars
  BY <1>8 DEF vars
<1>9. QED
  BY <1>1, <1>2, <1>3, <1>4, <1>5, <1>6, <1>7, <1>8 DEF Next, Step

\* The same for an awaiting task and its sender.
LEMMA AsyncOwedStep == IndInv /\ [Next]_vars => AsyncOwed'
<1> SUFFICES ASSUME TypeOK, AsyncOwed, [Next]_vars PROVE AsyncOwed'
  BY DEF IndInv, WakeupsOwed
<1> USE DEF TypeOK, States, AsyncOwed, Goto, lists, wakes, woken
<1>1. ASSUME NEW t \in Actors, CancelAsync(t) PROVE AsyncOwed'
  BY <1>1 DEF CancelAsync, DropReceiver, Goto
<1>2. ASSUME NEW t \in Actors, AsyncPush(t) PROVE AsyncOwed'
  BY <1>2 DEF AsyncPush
<1>3. ASSUME NEW t \in Actors, AwaitReturn(t) PROVE AsyncOwed'
  BY <1>3 DEF AwaitReturn
<1>4. ASSUME NEW t \in Actors, AwaitTimeout(t) PROVE AsyncOwed'
  BY <1>4 DEF AwaitTimeout, TimerFired, SleepEnds, DropReceiver, GiveUp
<1>5. ASSUME NEW t \in Actors, TakeAsync(t) PROVE AsyncOwed'
  BY <1>5 DEF TakeAsync, AsyncListFree, NoHandles
<1>6. ASSUME NEW t \in Actors, Send(t) PROVE AsyncOwed'
  BY <1>6 DEF Send
<1>7. ASSUME NEW t \in Actors, Unlocked(t) PROVE AsyncOwed'
  BY <1>7 DEF Unlocked
<1>8. ASSUME NEW t \in Actors,
            TryLock(t) \/ Call(t)
            \/ SpinSwap(t) \/ SpinCheck(t) \/ BlockHead(t) \/ BlockTry(t)
            \/ BlockPush(t) \/ ParkReturn(t) \/ ParkTimeout(t) \/ AsyncHead(t)
            \/ AsyncTry(t) \/ DropGuard(t) \/ TakeSync(t) \/ Unpark(t)
            \/ DeadlinePasses(t) \/ StrayUnpark(t)
      PROVE AsyncOwed'
  BY <1>8, CallsAssumption, LimitsAssumption
     DEF TryLock, Acquire, Call, Outside,
         FewHandles, SpinSwap, SpinCheck, GiveUp, BlockHead, LoopHead,
         BlockTry, TryOrPush, SyncListFree, BlockPush, ParkReturn,
         ParkTimeout, AsyncHead, AsyncTry, AsyncListFree, DropGuard,
         TakeSync, NoHandles, Unpark, DeadlinePasses, StrayUnpark
<1>9. CASE UNCHANGED vars
  BY <1>9 DEF vars
<1>10. QED
  BY <1>1, <1>2, <1>3, <1>4, <1>5, <1>6, <1>7, <1>8, <1>9 DEF Next, Step

\* A handle enters the list only while the lock is held (the spinlock of the
\* list keeps the unlocker out until the push), and did_unlock takes them all.
LEMMA SyncCoveredStep == IndInv /\ [Next]_vars => SyncCovered'
<1> SUFFICES ASSUME TypeOK, MutualExclusion, SyncCovered, [Next]_vars PROVE SyncCovered'
  BY DEF IndInv, WakeupsOwed
<1> USE DEF TypeOK, States, MutualExclusion, SyncCovered, Goto, lists, wakes, woken
<1>1. ASSUME NEW t \in Actors, BlockTry(t) PROVE SyncCovered'
  BY <1>1 DEF BlockTry, TryOrPush, Acquire, SyncListFree
<1>2. ASSUME NEW t \in Actors, BlockPush(t) PROVE SyncCovered'
  BY <1>2 DEF BlockPush
<1>3. ASSUME NEW t \in Actors, DropGuard(t) PROVE SyncCovered'
  BY <1>3 DEF DropGuard
<1>4. ASSUME NEW t \in Actors, TakeSync(t) PROVE SyncCovered'
  BY <1>4 DEF TakeSync, SyncListFree, NoHandles
<1>5. ASSUME NEW t \in Actors,
            TryLock(t) \/ Call(t)
            \/ CancelAsync(t) \/ SpinSwap(t) \/ SpinCheck(t) \/ BlockHead(t)
            \/ ParkReturn(t) \/ ParkTimeout(t) \/ AsyncHead(t) \/ AsyncTry(t)
            \/ AsyncPush(t) \/ AwaitReturn(t) \/ AwaitTimeout(t) \/ Unpark(t)
            \/ TakeAsync(t) \/ Send(t) \/ Unlocked(t) \/ DeadlinePasses(t)
            \/ StrayUnpark(t)
      PROVE SyncCovered'
  BY <1>5, CallsAssumption, LimitsAssumption
     DEF TryLock, Acquire, Call, Outside,
         FewHandles, CancelAsync, DropReceiver, GiveUp, SpinSwap, SpinCheck,
         BlockHead, LoopHead, ParkReturn, ParkTimeout, AsyncHead, AsyncTry,
         TryOrPush, AsyncListFree, AsyncPush, AwaitReturn, AwaitTimeout,
         TimerFired, SleepEnds, Unpark, TakeAsync, NoHandles, Send, Unlocked,
         DeadlinePasses, StrayUnpark
<1>6. CASE UNCHANGED vars
  BY <1>6 DEF vars
<1>7. QED
  BY <1>1, <1>2, <1>3, <1>4, <1>5, <1>6 DEF Next, Step

\* The same for the senders, which did_unlock takes after the handles.
LEMMA AsyncCoveredStep == IndInv /\ [Next]_vars => AsyncCovered'
<1> SUFFICES ASSUME TypeOK, MutualExclusion, AsyncCovered, [Next]_vars PROVE AsyncCovered'
  BY DEF IndInv, WakeupsOwed
<1> USE DEF TypeOK, States, MutualExclusion, AsyncCovered, Goto, lists, wakes, woken
<1>1. ASSUME NEW t \in Actors, CancelAsync(t) PROVE AsyncCovered'
  BY <1>1 DEF CancelAsync, DropReceiver, Goto
<1>2. ASSUME NEW t \in Actors, AsyncTry(t) PROVE AsyncCovered'
  BY <1>2 DEF AsyncTry, TryOrPush, Acquire, AsyncListFree
<1>3. ASSUME NEW t \in Actors, AsyncPush(t) PROVE AsyncCovered'
  BY <1>3 DEF AsyncPush
<1>4. ASSUME NEW t \in Actors, AwaitTimeout(t) PROVE AsyncCovered'
  BY <1>4 DEF AwaitTimeout, TimerFired, SleepEnds, DropReceiver, GiveUp
<1>5. ASSUME NEW t \in Actors, DropGuard(t) PROVE AsyncCovered'
  BY <1>5 DEF DropGuard
<1>6. ASSUME NEW t \in Actors, TakeSync(t) PROVE AsyncCovered'
  BY <1>6 DEF TakeSync, SyncListFree, NoHandles
<1>7. ASSUME NEW t \in Actors, TakeAsync(t) PROVE AsyncCovered'
  BY <1>7 DEF TakeAsync, AsyncListFree, NoHandles
<1>8. ASSUME NEW t \in Actors,
            TryLock(t) \/ Call(t)
            \/ SpinSwap(t) \/ SpinCheck(t) \/ BlockHead(t) \/ BlockTry(t)
            \/ BlockPush(t) \/ ParkReturn(t) \/ ParkTimeout(t) \/ AsyncHead(t)
            \/ AwaitReturn(t) \/ Unpark(t) \/ Send(t) \/ Unlocked(t)
            \/ DeadlinePasses(t) \/ StrayUnpark(t)
      PROVE AsyncCovered'
  BY <1>8, CallsAssumption, LimitsAssumption
     DEF TryLock, Acquire, Call, Outside,
         FewHandles, SpinSwap, SpinCheck, GiveUp, BlockHead, LoopHead,
         BlockTry, TryOrPush, SyncListFree, BlockPush, ParkReturn,
         ParkTimeout, AsyncHead, AwaitReturn, Unpark, Send, Unlocked,
         DeadlinePasses, StrayUnpark
<1>9. CASE UNCHANGED vars
  BY <1>9 DEF vars
<1>10. QED
  BY <1>1, <1>2, <1>3, <1>4, <1>5, <1>6, <1>7, <1>8, <1>9 DEF Next, Step

\* The invariant holds of a new mutex.
LEMMA InitInv == Init => IndInv
<1> SUFFICES ASSUME Init PROVE IndInv
  OBVIOUS
<1> USE DEF Init, NoHandles
<1>1. TypeOK
  BY DEF TypeOK, States
<1>2. MutualExclusion
  BY DEF MutualExclusion
<1>3. WakeupsOwed
  BY DEF WakeupsOwed, SyncOwed, AsyncOwed, SyncCovered, AsyncCovered
<1>4. QED
  BY <1>1, <1>2, <1>3 DEF IndInv

\* The inductive invariant holds in every reachable state.
THEOREM Invariance == Spec => []IndInv
<1>1. IndInv /\ [Next]_vars => IndInv'
  BY TypeStep, ExclusionStep, SyncOwedStep, AsyncOwedStep, SyncCoveredStep,
     AsyncCoveredStep DEF IndInv, WakeupsOwed
<1>2. QED
  BY InitInv, <1>1, PTL DEF Spec

\* At most one guard exists, and data_lock says whether one does.
THEOREM Exclusion == Spec => []MutualExclusion
<1>1. IndInv => MutualExclusion
  BY DEF IndInv
<1>2. QED
  BY <1>1, Invariance, PTL

\* No sleeper is left beside a free lock that nobody is unlocking: its handle
\* or sender was queued while the lock was held, and its claim is never dropped.
THEOREM NobodyStranded == Spec => []NoStranded
<1>1. ASSUME IndInv PROVE NoStranded
  <2> SUFFICES ASSUME NEW t \in Actors, Asleep(t), ~data_lock
               PROVE \E u \in Actors : pc[u] \in {"take_sync", "unpark", "send"}
    BY DEF NoStranded
  <2>1. CASE pc[t] = "parked" /\ ~token[t]
    BY <1>1, <2>1 DEF IndInv, WakeupsOwed, SyncOwed, SyncCovered
  <2>2. CASE pc[t] = "awaiting" /\ ~signal[t]
    BY <1>1, <2>2 DEF IndInv, WakeupsOwed, AsyncOwed, AsyncCovered
  <2>3. QED
    BY <2>1, <2>2 DEF Asleep
<1>2. QED
  BY <1>1, Invariance, PTL

\* What moving one actor does to the abstract state.
LEMMA GotoMaps == ASSUME TypeOK, NEW t \in Actors, NEW l, Goto(t, l)
  PROVE /\ Asking' = [Asking EXCEPT ![t] = How(l)]
        /\ Holders' = IF l = "critical" THEN Holders \cup {t} ELSE Holders \ {t}
<1>1. pc' = [pc EXCEPT ![t] = l] /\ pc \in [Actors -> States]
  BY DEF Goto, TypeOK
<1>2. Asking' = [Asking EXCEPT ![t] = How(l)]
  BY <1>1 DEF Asking
<1>3. Holders' = IF l = "critical" THEN Holders \cup {t} ELSE Holders \ {t}
  BY <1>1 DEF Holders
<1>4. QED
  BY <1>2, <1>3

\* A successful CAS is the abstract acquisition.
LEMMA AcquireMaps == ASSUME TypeOK, MutualExclusion, NEW t \in Actors, Acquire(t)
  PROVE Abs!Acquire(t)
<1>1. Goto(t, "critical")
  BY DEF Acquire
<1>2. Holders = {}
  BY DEF Acquire, MutualExclusion, Holders
<1>3. How("critical") = "no"
  BY DEF How, InCall, InFuture
<1>4. QED
  BY <1>1, <1>2, <1>3, GotoMaps DEF Acquire, Abs!Acquire

\* A call that returns without the lock gives up: after its deadline, or in an
\* await with a timer that may be early.
LEMMA GiveUpMaps == ASSUME TypeOK, NEW t \in Actors, Waiting(t), GiveUp(t),
                           \/ deadline[t] = "passed"
                           \/ pc[t] \in InFuture /\ SleepEnds(t)
  PROVE Abs!GiveUp(t)
<1>1. Asking' = [Asking EXCEPT ![t] = "no"] /\ Holders' = Holders
  <2>1. Goto(t, "idle") /\ How("idle") = "no"
    BY DEF GiveUp, How, InCall, InFuture
  <2>2. t \notin Holders
    BY DEF Holders, Waiting, InCall, InFuture
  <2>3. QED
    BY <2>1, <2>2, GotoMaps
<1>2. /\ Asking[t] = How(pc[t])
      /\ Asking[t] \in {"call", "future"}
      /\ pc[t] \in InFuture => Asking[t] = "future"
  BY DEF Asking, How, Waiting, InCall, InFuture
<1>3. QED
  BY <1>1, <1>2 DEF GiveUp, SleepEnds, Abs!GiveUp, Abs!Waits

\* Moving within one kind of call is invisible.
LEMMA StutterMaps == ASSUME TypeOK, NEW t \in Actors, NEW l, Goto(t, l),
                            l # "critical", pc[t] # "critical",
                            How(l) = How(pc[t]), UNCHANGED deadline
  PROVE UNCHANGED Abs!vars
<1>1. Asking' = [Asking EXCEPT ![t] = How(l)] /\ Holders' = Holders \ {t}
  BY GotoMaps
<1>2. Asking[t] = How(l) /\ t \notin Holders
  BY DEF Asking, Holders
<1>3. Asking' = Asking
  BY <1>1, <1>2 DEF Asking
<1>4. Holders' = Holders
  BY <1>1, <1>2
<1>5. QED
  BY <1>3, <1>4 DEF Abs!vars

\* So is a step that moves nobody.
LEMMA FrameMaps == ASSUME UNCHANGED <<pc, deadline>> PROVE UNCHANGED Abs!vars
BY DEF Abs!vars, Asking, Holders

\* The head of the lock loops: a last try, None, or nothing yet.
LEMMA HeadMaps == ASSUME IndInv, NEW t \in Actors,
                         NEW top, NEW try, LoopHead(t, top, try),
                         How(top) = How(try), try # "critical",
                         top \in InCall \cup InFuture
  PROVE [Abs!Next]_Abs!vars
<1> USE DEF IndInv
<1>1. CASE Acquire(t)
  BY <1>1, AcquireMaps DEF Abs!Next
<1>2. CASE deadline[t] = "passed" /\ GiveUp(t)
  BY <1>2, GiveUpMaps DEF LoopHead, Waiting, Abs!Next
<1>3. CASE Goto(t, try) /\ UNCHANGED deadline
  <2>1. pc[t] = top /\ top # "critical"
    BY DEF LoopHead, InCall, InFuture
  <2>2. QED
    BY <1>3, <2>1, StutterMaps
<1>4. QED
  BY <1>1, <1>2, <1>3 DEF LoopHead

\* The closure of the lock loops: the lock, or nothing yet.
LEMMA TryMaps == ASSUME IndInv, NEW t \in Actors, NEW try, NEW push, NEW free,
                        TryOrPush(t, try, push, free),
                        How(try) = How(push), try # "critical", push # "critical"
  PROVE [Abs!Next]_Abs!vars
<1> USE DEF IndInv
<1>1. CASE Acquire(t)
  BY <1>1, AcquireMaps DEF Abs!Next
<1>2. CASE Goto(t, push) /\ UNCHANGED deadline
  BY <1>2, StutterMaps DEF TryOrPush
<1>3. QED
  BY <1>1, <1>2 DEF TryOrPush

\* Every step of the mutex is a step of the abstract lock, or invisible.
LEMMA StepMaps == IndInv /\ [Next]_vars => [Abs!Next]_Abs!vars
<1> SUFFICES ASSUME IndInv, [Next]_vars PROVE [Abs!Next]_Abs!vars
  OBVIOUS
<1> USE DEF IndInv
<1>0. /\ \A l \in InCall : How(l) = "call"
      /\ \A l \in InFuture : How(l) = "future"
      /\ How("cancelled") = "dropped"
      /\ \A l \in {"idle", "critical", "take_sync", "unpark", "send"} : How(l) = "no"
  BY DEF How, InCall, InFuture
<1>1. ASSUME NEW t \in Actors, TryLock(t) PROVE Abs!Next
  BY <1>1, AcquireMaps DEF TryLock, Abs!Next
<1>2. ASSUME NEW t \in Actors, Call(t) PROVE Abs!Next
  <2>1. PICK how \in Calls, d \in Limits :
          Goto(t, how) /\ deadline' = [deadline EXCEPT ![t] = d]
    BY <1>2 DEF Call
  <2>2. how \in {"spin", "block", "async"} /\ d \in {"none", "ahead"}
    BY CallsAssumption, LimitsAssumption
  <2>3. Asking[t] \in {"no", "dropped"} /\ t \notin Holders
    BY <1>0, <1>2 DEF Call, Outside, Asking, Holders
  <2>4. How(how) \in {"call", "future"} /\ how # "critical"
    BY <1>0, <2>2 DEF InCall, InFuture
  <2>5. Asking' = [Asking EXCEPT ![t] = How(how)] /\ Holders' = Holders
    BY <2>1, <2>3, <2>4, GotoMaps
  <2>6. Abs!Ask(t, How(how), d)
    BY <2>1, <2>3, <2>5 DEF Abs!Ask
  <2>7. QED
    BY <2>2, <2>4, <2>6 DEF Abs!Next
<1>3. ASSUME NEW t \in Actors, CancelAsync(t) \/ AwaitTimeout(t) PROVE Abs!Next
  <2>1. CASE AwaitTimeout(t)
    <3>1. GiveUp(t) /\ SleepEnds(t) /\ pc[t] \in InFuture
      BY <2>1 DEF AwaitTimeout, TimerFired, DropReceiver, GiveUp, InFuture
    <3>2. QED
      BY <3>1, GiveUpMaps DEF Waiting, Abs!Next
  <2>2. CASE CancelAsync(t)
    <3>1. Asking[t] = "future" /\ t \notin Holders
      BY <1>0, <2>2 DEF CancelAsync, Asking, Holders, InFuture
    <3>2. Asking' = [Asking EXCEPT ![t] = "dropped"] /\ Holders' = Holders
      BY <1>0, <2>2, <3>1, GotoMaps DEF CancelAsync
    <3>3. Abs!Cancel(t)
      BY <2>2, <3>1, <3>2 DEF CancelAsync, DropReceiver, Abs!Cancel
    <3>4. QED
      BY <3>3 DEF Abs!Next
  <2>3. QED
    BY <1>3, <2>1, <2>2
<1>4. ASSUME NEW t \in Actors, SpinSwap(t) PROVE [Abs!Next]_Abs!vars
  <2>1. CASE Acquire(t)
    BY <2>1, AcquireMaps DEF Abs!Next
  <2>2. CASE Goto(t, "spin_check") /\ UNCHANGED deadline
    <3>1. pc[t] = "spin" /\ How("spin") = How("spin_check")
      BY <1>0, <1>4 DEF SpinSwap, InCall
    <3>2. QED
      BY <2>2, <3>1, StutterMaps
  <2>3. QED
    BY <1>4, <2>1, <2>2 DEF SpinSwap
<1>5. ASSUME NEW t \in Actors, SpinCheck(t) PROVE [Abs!Next]_Abs!vars
  <2>1. pc[t] = "spin_check" /\ How("spin") = How("spin_check")
    BY <1>0, <1>5 DEF SpinCheck, InCall
  <2>2. CASE deadline[t] = "passed" /\ GiveUp(t)
    BY <2>1, <2>2, GiveUpMaps DEF Waiting, InCall, Abs!Next
  <2>3. CASE Goto(t, "spin") /\ UNCHANGED deadline
    BY <2>1, <2>3, StutterMaps
  <2>4. QED
    BY <1>5, <2>2, <2>3 DEF SpinCheck
<1>6. ASSUME NEW t \in Actors, BlockHead(t) \/ AsyncHead(t) PROVE [Abs!Next]_Abs!vars
  <2>1. /\ {"block", "block_try"} \subseteq InCall
        /\ {"async", "async_try"} \subseteq InFuture
    BY DEF InCall, InFuture
  <2>2. QED
    BY <1>0, <1>6, <2>1, HeadMaps DEF BlockHead, AsyncHead
<1>7. ASSUME NEW t \in Actors, BlockTry(t) \/ AsyncTry(t) PROVE [Abs!Next]_Abs!vars
  <2>1. /\ {"block_try", "block_push"} \subseteq InCall
        /\ {"async_try", "async_push"} \subseteq InFuture
    BY DEF InCall, InFuture
  <2>2. QED
    BY <1>0, <1>7, <2>1, TryMaps DEF BlockTry, AsyncTry
<1>8. ASSUME NEW t \in Actors,
             BlockPush(t) \/ ParkReturn(t) \/ ParkTimeout(t)
             \/ AsyncPush(t) \/ AwaitReturn(t)
             \/ TakeSync(t) \/ TakeAsync(t) \/ Unlocked(t)
      PROVE UNCHANGED Abs!vars
  <2>1. PICK l \in States \ {"critical"} :
          Goto(t, l) /\ How(l) = How(pc[t]) /\ pc[t] # "critical" /\ UNCHANGED deadline
    BY <1>0, <1>8 DEF BlockPush, ParkReturn, ParkTimeout, AsyncPush, AwaitReturn,
                      TakeSync, TakeAsync, Unlocked, InCall, InFuture, States
  <2>2. QED
    BY <2>1, StutterMaps
<1>9. ASSUME NEW t \in Actors, DropGuard(t) PROVE Abs!Next
  <2>1. Asking' = [Asking EXCEPT ![t] = "no"] /\ Holders' = Holders \ {t}
    BY <1>0, <1>9, GotoMaps DEF DropGuard
  <2>2. Asking[t] = "no" /\ t \in Holders
    BY <1>0, <1>9 DEF DropGuard, Asking, Holders
  <2>3. Asking' = Asking
    BY <2>1, <2>2 DEF Asking
  <2>4. Abs!Release(t)
    BY <1>9, <2>1, <2>2, <2>3 DEF DropGuard, Abs!Release
  <2>5. QED
    BY <2>4 DEF Abs!Next
<1>10. ASSUME NEW t \in Actors, Unpark(t) \/ Send(t) \/ StrayUnpark(t)
       PROVE UNCHANGED Abs!vars
  BY <1>10, FrameMaps DEF Unpark, Send, StrayUnpark
<1>11. ASSUME NEW t \in Actors, DeadlinePasses(t) PROVE Abs!Next
  <2>1. UNCHANGED <<Asking, Holders>>
    BY <1>11 DEF DeadlinePasses, Asking, Holders
  <2>2. QED
    BY <1>11, <2>1 DEF DeadlinePasses, Abs!DeadlinePasses, Abs!Next
<1>12. CASE UNCHANGED vars
  BY <1>12, FrameMaps DEF vars
<1>13. QED
  BY <1>1, <1>2, <1>3, <1>4, <1>5, <1>6, <1>7, <1>8, <1>9, <1>10, <1>11, <1>12
     DEF Next, Step

\* The mutex implements the abstract lock, for any number of actors.
THEOREM Refinement == Spec => ImplementsLock
<1>1. Init => Abs!Init
  BY DEF Init, Abs!Init, Holders, Asking, How, InCall, InFuture
<1>2. QED
  BY <1>1, StepMaps, Invariance, PTL DEF Spec, ImplementsLock, Abs!SafeSpec

\* Off wasm, where sleep does not cut the duration, no timed call returns None
\* before its deadline.
THEOREM NoneComesLate == ASSUME ~SleepTruncates PROVE Spec => GivesUpLate
<1> DEFINE Late(t) == Waiting(t) /\ pc'[t] = "idle" => deadline[t] = "passed"
<1>1. ASSUME TypeOK, [Next]_vars, NEW t \in Actors PROVE Late(t)
  <2> SUFFICES ASSUME Waiting(t), pc'[t] = "idle" PROVE deadline[t] = "passed"
    OBVIOUS
  <2> USE DEF Waiting, InCall, InFuture, TypeOK, States, Goto
  <2>1. ASSUME NEW u \in Actors, u # t, \E l : Goto(u, l) PROVE FALSE
    BY <2>1
  <2>2. ASSUME UNCHANGED pc PROVE FALSE
    BY <2>2
  <2>3. PICK u \in Actors : \/ TryLock(u) \/ Call(u) \/ CancelAsync(u)
                           \/ Step(u) \/ DropGuard(u) \/ DeadlinePasses(u) \/ StrayUnpark(u)
    BY <1>1, <2>2 DEF Next, vars
  <2>4. CASE u # t
    <3>1. UNCHANGED pc \/ \E l : Goto(u, l)
      BY <2>3 DEF TryLock, Call, CancelAsync, Step, DeadlinePasses, StrayUnpark,
           SpinSwap, SpinCheck, BlockHead, BlockTry, BlockPush, ParkReturn, ParkTimeout,
           AsyncHead, AsyncTry, AsyncPush, AwaitReturn, AwaitTimeout, DropGuard,
           TakeSync, Unpark, TakeAsync, Send, Unlocked, LoopHead, TryOrPush,
           Acquire, GiveUp
    <3>2. QED
      BY <2>1, <2>2, <2>4, <3>1
  <2>5. CASE u = t
    <3>1. ASSUME NEW l, Goto(t, l), l # "idle" PROVE FALSE
      BY <1>1, <3>1
    <3>2. CASE TryLock(t) \/ Call(t) \/ BlockTry(t) \/ AsyncTry(t) \/ BlockPush(t)
               \/ ParkReturn(t) \/ ParkTimeout(t) \/ AsyncPush(t) \/ AwaitReturn(t)
               \/ SpinSwap(t) \/ DropGuard(t) \/ TakeSync(t) \/ TakeAsync(t)
      <4>1. \E l : Goto(t, l) /\ l # "idle"
        BY <3>2, CallsAssumption
           DEF TryLock, Call, BlockTry, AsyncTry, BlockPush, ParkReturn, ParkTimeout,
               AsyncPush, AwaitReturn, SpinSwap, DropGuard, TakeSync, TakeAsync,
               TryOrPush, Acquire
      <4>2. QED
        BY <3>1, <4>1
    <3>3. CASE SpinCheck(t)
      BY <3>1, <3>3 DEF SpinCheck
    <3>4. CASE BlockHead(t) \/ AsyncHead(t)
      BY <3>1, <3>4 DEF BlockHead, AsyncHead, LoopHead, Acquire
    <3>5. CASE AwaitTimeout(t)
      BY <3>5 DEF AwaitTimeout, TimerFired, SleepEnds
    <3>6. CASE CancelAsync(t)
      BY <3>1, <3>6 DEF CancelAsync
    <3>7. CASE Unlocked(t)
      BY <3>7 DEF Unlocked
    <3>8. CASE Unpark(t) \/ Send(t) \/ StrayUnpark(t) \/ DeadlinePasses(t)
      BY <2>2, <3>8 DEF Unpark, Send, StrayUnpark, DeadlinePasses
    <3>9. QED
      BY <2>3, <2>5, <3>2, <3>3, <3>4, <3>5, <3>6, <3>7, <3>8 DEF Step
  <2>6. QED
    BY <2>4, <2>5
<1>2. TypeOK /\ [Next]_vars => [\A t \in Actors : Late(t)]_vars
  BY <1>1
<1>3. IndInv => TypeOK
  BY DEF IndInv
<1>4. QED
  BY <1>2, <1>3, Invariance, PTL DEF Spec, GivesUpLate

\* Every variable has its type: the two lists count handles, never less than none.
THEOREM Typed == Spec => []TypeOK
<1>1. IndInv => TypeOK
  BY DEF IndInv
<1>2. QED
  BY <1>1, Invariance, PTL

\* Nobody who has released the lock drops the debt of wakeups to the two lists.
THEOREM DebtKept == Spec => []WakeupsOwed
<1>1. IndInv => WakeupsOwed
  BY DEF IndInv
<1>2. QED
  BY <1>1, Invariance, PTL
=============================================================================
