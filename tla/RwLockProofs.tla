---------------------------- MODULE RwLockProofs ----------------------------
(* Proofs about RwLock for any finite set of actors and any writer bit: the  *)
(* types, the lock word, the wakeup debt of the four lists, and from them    *)
(* the absence of stranded sleepers and the refinement of AbstractRwLock.    *)
EXTENDS RwLock, FiniteSetTheorems, TLAPS

\* Taking the lock keeps the types.
LEMMA EnterType == ASSUME TypeOK, NEW t \in Actors, NEW m \in Modes, Enter(t, m),
                          mode' = [mode EXCEPT ![t] = m]
  PROVE TypeOK'
<1>1. data_lock' \in 0 .. LOCKED_WRITE
  BY LockedWriteAssumption DEF Enter, CanEnter, TypeOK, Modes
<1>2. QED
  BY <1>1 DEF Enter, TypeOK, Goto, lists, wakes, woken

\* Every step keeps the types; the two drops because of the lock word.
LEMMA TypeStep == TypeOK /\ LockWord /\ [Next]_vars => TypeOK'
<1> SUFFICES ASSUME TypeOK, LockWord, [Next]_vars PROVE TypeOK'
  OBVIOUS
<1> USE DEF TypeOK, Goto, Rest, InCall, InUnlock, lists, wakes, woken
<1>1. ASSUME NEW t \in Actors, TryLock(t) PROVE TypeOK'
  <2>1. PICK m \in Modes : mode' = [mode EXCEPT ![t] = m] /\ Enter(t, m)
    BY <1>1 DEF TryLock
  <2>2. QED
    BY <2>1, EnterType
<1>2. ASSUME NEW t \in Actors, Call(t) PROVE TypeOK'
  BY <1>2, CallsAssumption DEF Call, Begin
<1>3. ASSUME NEW t \in Actors, CancelAsync(t) PROVE TypeOK'
  BY <1>3 DEF CancelAsync
<1>4. ASSUME NEW t \in Actors, Spin(t) \/ BlockTry(t) \/ AsyncTry(t) PROVE TypeOK'
  <2>1. mode[t] \in Modes /\ mode' = [mode EXCEPT ![t] = mode[t]]
    BY <1>4 DEF Spin, BlockTry, AsyncTry, TryOrPush
  <2>2. CASE Enter(t, mode[t])
    BY <2>1, <2>2, EnterType
  <2>3. CASE ~Enter(t, mode[t])
    BY <1>4, <2>3 DEF Spin, BlockTry, AsyncTry, TryOrPush
  <2>4. QED
    BY <2>2, <2>3
<1>5. ASSUME NEW t \in Actors, BlockPush(t) PROVE TypeOK'
  BY <1>5 DEF BlockPush
<1>6. ASSUME NEW t \in Actors, ParkReturn(t) PROVE TypeOK'
  BY <1>6 DEF ParkReturn
<1>7. ASSUME NEW t \in Actors, AsyncPush(t) PROVE TypeOK'
  BY <1>7 DEF AsyncPush
<1>8. ASSUME NEW t \in Actors, AwaitReturn(t) PROVE TypeOK'
  BY <1>8 DEF AwaitReturn
<1>9. ASSUME NEW t \in Actors, DropGuard(t) PROVE TypeOK'
  <2>1. data_lock' \in 0 .. LOCKED_WRITE
    <3>1. CASE mode[t] = "write"
      BY <1>9, <3>1, LockedWriteAssumption DEF DropGuard, UNLOCKED
    <3>2. CASE mode[t] = "read"
      <4>1. t \in Readers /\ Writers = {}
        BY <1>9, <3>2 DEF DropGuard, Readers, LockWord
      <4>2. IsFiniteSet(Readers)
        BY ActorsAssumption, FS_Subset DEF Readers
      <4>3. data_lock # 0
        BY <4>1, <4>2, FS_EmptySet DEF LockWord
      <4>4. QED
        BY <1>9, <3>2, <4>3, LockedWriteAssumption DEF DropGuard
    <3>3. QED
      BY <3>1, <3>2 DEF Modes
  <2>2. QED
    BY <1>9, <2>1 DEF DropGuard, Modes
<1>10. ASSUME NEW t \in Actors, TakeSync(t) PROVE TypeOK'
  BY <1>10 DEF TakeSync, NoHandles
<1>11. ASSUME NEW t \in Actors, Unpark(t) PROVE TypeOK'
  BY <1>11 DEF Unpark
<1>12. ASSUME NEW t \in Actors, TakeAsync(t) PROVE TypeOK'
  BY <1>12 DEF TakeAsync
<1>13. ASSUME NEW t \in Actors, Send(t) PROVE TypeOK'
  BY <1>13 DEF Send
<1>14. ASSUME NEW t \in Actors, Sent(t) PROVE TypeOK'
  <2>1. batch' \in [Actors -> Modes]
    BY <1>14 DEF Sent, Modes
  <2>2. CASE Goto(t, "take_sync")
    BY <1>14, <2>1, <2>2 DEF Sent
  <2>3. CASE Goto(t, "idle")
    BY <1>14, <2>1, <2>3 DEF Sent
  <2>4. QED
    BY <1>14, <2>2, <2>3 DEF Sent
<1>15. ASSUME NEW t \in Actors, StrayUnpark(t) PROVE TypeOK'
  BY <1>15 DEF StrayUnpark
<1>16. CASE UNCHANGED vars
  BY <1>16 DEF vars
<1>17. QED
  BY <1>1, <1>2, <1>3, <1>4, <1>5, <1>6, <1>7, <1>8, <1>9, <1>10, <1>11, <1>12,
     <1>13, <1>14, <1>15, <1>16 DEF Next, Step

\* How a step of one actor moves it into and out of the two sets.
LEMMA GotoMoves == ASSUME TypeOK, NEW t \in Actors, NEW l, NEW m \in Modes, Goto(t, l),
                          mode' = [mode EXCEPT ![t] = m]
  PROVE /\ Readers' = IF l = "holding" /\ m = "read" THEN Readers \cup {t}
                                                     ELSE Readers \ {t}
        /\ Writers' = IF l = "holding" /\ m = "write" THEN Writers \cup {t}
                                                      ELSE Writers \ {t}
<1> USE DEF TypeOK, Goto
<1>1. Readers' = IF l = "holding" /\ m = "read" THEN Readers \cup {t} ELSE Readers \ {t}
  BY DEF Readers
<1>2. Writers' = IF l = "holding" /\ m = "write" THEN Writers \cup {t} ELSE Writers \ {t}
  BY DEF Writers
<1>3. QED
  BY <1>1, <1>2

\* A step that does not end inside leaves the two sets without its actor.
LEMMA OutMoves == ASSUME TypeOK, NEW t \in Actors, NEW l, Goto(t, l), l # "holding",
                         UNCHANGED mode
  PROVE Readers' = Readers \ {t} /\ Writers' = Writers \ {t}
  BY DEF TypeOK, Goto, Readers, Writers

\* A step in which nobody enters or leaves: the two sets stay.
LEMMA StayMoves == ASSUME TypeOK, NEW t \in Actors, NEW l, Goto(t, l), l # "holding",
                          pc[t] # "holding", UNCHANGED mode
  PROVE Readers' = Readers /\ Writers' = Writers
  BY OutMoves DEF Readers, Writers

\* The sets of those inside are finite.
LEMMA FiniteInside == IsFiniteSet(Readers) /\ IsFiniteSet(Writers)
  BY ActorsAssumption, FS_Subset DEF Readers, Writers

\* When the lock is taken for a mode, nobody inside excludes it.
LEMMA EnterMoves == ASSUME TypeOK, LockWord, NEW t \in Actors, NEW m \in Modes,
                           Enter(t, m), mode' = [mode EXCEPT ![t] = m],
                           pc[t] # "holding"
  PROVE /\ Writers = {} /\ t \notin Readers
        /\ m = "read" => Readers' = Readers \cup {t} /\ Writers' = {}
        /\ m = "write" => Readers = {} /\ Readers' = {} /\ Writers' = {t}
<1>1. data_lock \in Nat /\ data_lock < LOCKED_WRITE
  BY LockedWriteAssumption DEF Enter, CanEnter, TypeOK, Modes, UNLOCKED
<1>2. Writers = {}
  BY <1>1 DEF LockWord
<1>3. t \notin Readers /\ t \notin Writers
  BY DEF Readers, Writers
<1>4. Goto(t, "holding")
  BY DEF Enter
<1>5. m = "write" => Readers = {}
  BY <1>2, FiniteInside, FS_EmptySet DEF LockWord, Enter, CanEnter, UNLOCKED
<1>6. QED
  BY <1>2, <1>3, <1>4, <1>5, GotoMoves DEF Modes

\* try_lock_read and try_lock_write keep the lock word.
LEMMA EnterWord == ASSUME TypeOK, LockWord, NEW t \in Actors, NEW m \in Modes,
                          Enter(t, m), mode' = [mode EXCEPT ![t] = m],
                          pc[t] # "holding"
  PROVE LockWord'
<1>1. CASE m = "read"
  <2>1. Writers = {} /\ t \notin Readers /\ Readers' = Readers \cup {t} /\ Writers' = {}
    BY <1>1, EnterMoves
  <2>2. Cardinality(Readers') = Cardinality(Readers) + 1
    BY <2>1, FiniteInside, FS_AddElement
  <2>3. data_lock' = data_lock + 1 /\ data_lock < LOCKED_WRITE - 1 /\ data_lock \in Nat
    BY <1>1, LockedWriteAssumption DEF Enter, CanEnter, TypeOK
  <2>4. data_lock' = Cardinality(Readers') /\ data_lock' < LOCKED_WRITE
    BY <2>1, <2>2, <2>3, LockedWriteAssumption DEF LockWord
  <2>5. QED
    BY <2>1, <2>4 DEF LockWord
<1>2. CASE m = "write"
  <2>1. Readers' = {} /\ Writers' = {t}
    BY <1>2, EnterMoves
  <2>2. data_lock' = LOCKED_WRITE
    BY <1>2 DEF Enter
  <2>3. QED
    BY <2>1, <2>2 DEF LockWord
<1>3. QED
  BY <1>1, <1>2 DEF Modes

\* The drops of the two guards keep it: the counter counts.
LEMMA DropWord == ASSUME TypeOK, LockWord, NEW t \in Actors, DropGuard(t)
  PROVE LockWord'
<1>1. Goto(t, "take_sync") /\ mode' = mode /\ pc[t] = "holding"
  BY DEF DropGuard
<1>2. mode[t] \in Modes
  BY DEF TypeOK
<1>3. Readers' = Readers \ {t} /\ Writers' = Writers \ {t}
  BY <1>1, OutMoves
<1>4. CASE mode[t] = "read"
  <2>1. t \in Readers
    BY <1>1, <1>4 DEF Readers
  <2>2. Writers = {} /\ Writers' = {}
    BY <1>3, <2>1 DEF LockWord
  <2>3. Cardinality(Readers') = Cardinality(Readers) - 1
    BY <1>3, <2>1, FiniteInside, FS_RemoveElement
  <2>4. data_lock' = data_lock - 1 /\ data_lock \in Nat
    BY <1>4, LockedWriteAssumption DEF DropGuard, TypeOK
  <2>5. data_lock' = Cardinality(Readers') /\ data_lock' < LOCKED_WRITE
    BY <2>2, <2>3, <2>4, LockedWriteAssumption DEF LockWord
  <2>6. QED
    BY <2>2, <2>5 DEF LockWord
<1>5. CASE mode[t] = "write"
  <2>1. t \in Writers
    BY <1>1, <1>5 DEF Writers
  <2>2. Readers = {} /\ Writers = {t}
    BY <2>1 DEF LockWord
  <2>3. Readers' = {} /\ Writers' = {}
    BY <1>3, <2>2
  <2>4. data_lock' = 0
    BY <1>5 DEF DropGuard, UNLOCKED
  <2>5. QED
    BY <2>3, <2>4, LockedWriteAssumption, FS_EmptySet DEF LockWord
<1>6. QED
  BY <1>2, <1>4, <1>5 DEF Modes

\* The lock word is kept by every step; only the two lemmas above are about
\* steps that touch it.
LEMMA LockWordStep == TypeOK /\ LockWord /\ [Next]_vars => LockWord'
<1> SUFFICES ASSUME TypeOK, LockWord, [Next]_vars PROVE LockWord'
  OBVIOUS
<1>1. ASSUME Readers' = Readers, Writers' = Writers, data_lock' = data_lock
      PROVE LockWord'
  BY <1>1 DEF LockWord
<1>2. ASSUME NEW t \in Actors, TryLock(t) PROVE LockWord'
  BY <1>2, EnterWord DEF TryLock
<1>3. ASSUME NEW t \in Actors, Spin(t) \/ BlockTry(t) \/ AsyncTry(t) PROVE LockWord'
  <2> DEFINE m == mode[t]
  <2>1. m \in Modes /\ mode' = [mode EXCEPT ![t] = m] /\ mode' = mode /\ pc[t] # "holding"
    BY <1>3 DEF TypeOK, Spin, BlockTry, AsyncTry, TryOrPush
  <2>2. \/ Enter(t, m)
        \/ /\ \E l : Goto(t, l) /\ l # "holding"
           /\ data_lock' = data_lock
    BY <1>3 DEF Spin, BlockTry, AsyncTry, TryOrPush, Rest
  <2> HIDE DEF m
  <2>3. QED
    BY <1>1, <2>1, <2>2, EnterWord, StayMoves
<1>4. ASSUME NEW t \in Actors, DropGuard(t) PROVE LockWord'
  BY <1>4, DropWord
<1>5. ASSUME NEW t \in Actors,
             CancelAsync(t) \/ BlockPush(t) \/ ParkReturn(t) \/ AsyncPush(t)
             \/ AwaitReturn(t) \/ TakeSync(t) \/ TakeAsync(t) \/ Sent(t)
      PROVE LockWord'
  <2>1. PICK l : Goto(t, l) /\ l # "holding"
    BY <1>5 DEF CancelAsync, BlockPush, ParkReturn, AsyncPush, AwaitReturn, TakeSync,
                TakeAsync, Sent
  <2>2. pc[t] # "holding" /\ mode' = mode /\ data_lock' = data_lock
    BY <1>5 DEF CancelAsync, BlockPush, ParkReturn, AsyncPush, AwaitReturn, TakeSync,
                TakeAsync, Sent
  <2>3. QED
    BY <1>1, <2>1, <2>2, StayMoves
<1>6. ASSUME NEW t \in Actors, Call(t) PROVE LockWord'
  <2>1. PICK m \in Modes, how \in Calls :
          mode' = [mode EXCEPT ![t] = m] /\ Rest(t, how)
    BY <1>6 DEF Call, Begin
  <2>2. how # "holding" /\ t \notin Readers \cup Writers /\ data_lock' = data_lock
    BY <1>6, <2>1, CallsAssumption DEF Call, Begin, Readers, Writers, Rest
  <2>3. Readers' = Readers /\ Writers' = Writers
    <3>1. Goto(t, how)
      BY <2>1 DEF Rest
    <3>2. QED
      BY <2>1, <2>2, <3>1 DEF TypeOK, Goto, Readers, Writers
  <2>4. QED
    BY <1>1, <2>2, <2>3
<1>7. ASSUME NEW t \in Actors, Unpark(t) \/ Send(t) \/ StrayUnpark(t) PROVE LockWord'
  BY <1>1, <1>7 DEF Unpark, Send, StrayUnpark, Readers, Writers
<1>8. CASE UNCHANGED vars
  BY <1>1, <1>8 DEF vars, Readers, Writers
<1>9. QED
  BY <1>2, <1>3, <1>4, <1>5, <1>6, <1>7, <1>8 DEF Next, Step

\* A step that no claim of a sync sleeper depends on.
SyncQuiet ==
  /\ UNCHANGED <<token, waiting_sync, unparks>>
  /\ \A u \in Actors : pc'[u] = "parked" => pc[u] = "parked" /\ mode'[u] = mode[u]
  /\ \A u \in Actors : pc[u] = "unpark" => pc'[u] = "unpark" /\ batch'[u] = batch[u]

\* Such a step keeps the debt of the sync lists.
LEMMA SyncQuietOwed == SyncOwed /\ SyncQuiet => SyncOwed'
  BY DEF SyncOwed, SyncQuiet

\* A parked thread keeps its claim on a wakeup: its handle moves from the list
\* of its mode to an unlocker that wakes that mode and on to its token.
LEMMA SyncOwedStep == TypeOK /\ SyncOwed /\ [Next]_vars => SyncOwed'
<1> SUFFICES ASSUME TypeOK, SyncOwed, [Next]_vars PROVE SyncOwed'
  OBVIOUS
<1> USE DEF TypeOK, InCall, InUnlock, Goto, Rest, lists, wakes, woken
<1>1. ASSUME NEW t \in Actors, BlockPush(t) PROVE SyncOwed'
  BY <1>1 DEF BlockPush, SyncOwed
<1>2. ASSUME NEW t \in Actors, ParkReturn(t) PROVE SyncOwed'
  BY <1>2 DEF ParkReturn, SyncOwed
<1>3. ASSUME NEW t \in Actors, TakeSync(t) PROVE SyncOwed'
  BY <1>3 DEF TakeSync, NoHandles, SyncOwed
<1>4. ASSUME NEW t \in Actors, Unpark(t) PROVE SyncOwed'
  BY <1>4 DEF Unpark, SyncOwed
<1>5. ASSUME NEW t \in Actors, TakeAsync(t) PROVE SyncOwed'
  BY <1>5 DEF TakeAsync, NoHandles, SyncOwed
<1>6. ASSUME NEW t \in Actors, StrayUnpark(t) PROVE SyncOwed'
  BY <1>6 DEF StrayUnpark, SyncOwed
<1>7. ASSUME NEW t \in Actors, TryLock(t) PROVE SyncQuiet
  BY <1>7 DEF TryLock, Enter, SyncQuiet
<1>8. ASSUME NEW t \in Actors, Call(t) PROVE SyncQuiet
  BY <1>8, CallsAssumption DEF Call, Begin, SyncQuiet
<1>9. ASSUME NEW t \in Actors, Spin(t) \/ BlockTry(t) \/ AsyncTry(t) PROVE SyncQuiet
  BY <1>9 DEF Spin, BlockTry, AsyncTry, TryOrPush, Enter, SyncQuiet
<1>10. ASSUME NEW t \in Actors,
              CancelAsync(t) \/ AsyncPush(t) \/ AwaitReturn(t) \/ DropGuard(t)
              \/ Send(t) \/ Sent(t)
       PROVE SyncQuiet
  BY <1>10 DEF CancelAsync, AsyncPush, AwaitReturn, DropGuard, Send, Sent, SyncQuiet
<1>11. CASE UNCHANGED vars
  BY <1>11, SyncQuietOwed DEF vars, SyncQuiet
<1>12. QED
  BY <1>1, <1>2, <1>3, <1>4, <1>5, <1>6, <1>7, <1>8, <1>9, <1>10, <1>11,
     SyncQuietOwed DEF Next, Step

\* A step that no claim of an async sleeper depends on.
AsyncQuiet ==
  /\ UNCHANGED <<signal, waiting_async, sends>>
  /\ \A u \in Actors : pc'[u] = "awaiting" => pc[u] = "awaiting" /\ mode'[u] = mode[u]
  /\ \A u \in Actors : pc[u] = "send" /\ sends[u] # {} =>
                         pc'[u] = "send" /\ batch'[u] = batch[u]

\* Such a step keeps the debt of the async lists.
LEMMA AsyncQuietOwed == AsyncOwed /\ AsyncQuiet => AsyncOwed'
  BY DEF AsyncOwed, AsyncQuiet

\* An awaiting task keeps its claim: its sender moves like the handles do.
LEMMA AsyncOwedStep == TypeOK /\ AsyncOwed /\ [Next]_vars => AsyncOwed'
<1> SUFFICES ASSUME TypeOK, AsyncOwed, [Next]_vars PROVE AsyncOwed'
  OBVIOUS
<1> USE DEF TypeOK, InCall, InUnlock, Goto, Rest, lists, wakes, woken
<1>1. ASSUME NEW t \in Actors, AsyncPush(t) PROVE AsyncOwed'
  BY <1>1 DEF AsyncPush, AsyncOwed
<1>2. ASSUME NEW t \in Actors, AwaitReturn(t) PROVE AsyncOwed'
  BY <1>2 DEF AwaitReturn, AsyncOwed
<1>3. ASSUME NEW t \in Actors, CancelAsync(t) PROVE AsyncOwed'
  BY <1>3 DEF CancelAsync, AsyncOwed
<1>4. ASSUME NEW t \in Actors, TakeAsync(t) PROVE AsyncOwed'
  BY <1>4 DEF TakeAsync, AsyncOwed
<1>5. ASSUME NEW t \in Actors, Send(t) PROVE AsyncOwed'
  BY <1>5 DEF Send, AsyncOwed
<1>6. ASSUME NEW t \in Actors, TryLock(t) PROVE AsyncQuiet
  BY <1>6 DEF TryLock, Enter, AsyncQuiet
<1>7. ASSUME NEW t \in Actors, Call(t) PROVE AsyncQuiet
  BY <1>7, CallsAssumption DEF Call, Begin, AsyncQuiet
<1>8. ASSUME NEW t \in Actors, Spin(t) \/ BlockTry(t) \/ AsyncTry(t) PROVE AsyncQuiet
  BY <1>8 DEF Spin, BlockTry, AsyncTry, TryOrPush, Enter, AsyncQuiet
<1>9. ASSUME NEW t \in Actors,
             BlockPush(t) \/ ParkReturn(t) \/ DropGuard(t) \/ TakeSync(t)
             \/ Unpark(t) \/ Sent(t) \/ StrayUnpark(t)
      PROVE AsyncQuiet
  BY <1>9 DEF BlockPush, ParkReturn, DropGuard, TakeSync, Unpark, Sent, StrayUnpark,
              AsyncQuiet
<1>10. CASE UNCHANGED vars
  BY <1>10, AsyncQuietOwed DEF vars, AsyncQuiet
<1>11. QED
  BY <1>1, <1>2, <1>3, <1>4, <1>5, <1>6, <1>7, <1>8, <1>9, <1>10, AsyncQuietOwed
     DEF Next, Step

\* A try that fails without a panic fails because of somebody inside whose drop
\* will wake the mode that was refused.
LEMMA RefusedBlocks == ASSUME TypeOK, LockWord, NEW m \in Modes, Refused(m)
  PROVE Blocks(m)
<1>1. CASE m = "read"
  <2>1. data_lock = LOCKED_WRITE
    BY <1>1, LockedWriteAssumption DEF Refused, CanEnter, TooManyReaders, TypeOK
  <2>2. QED
    BY <1>1, <2>1, LockedWriteAssumption DEF LockWord, Blocks
<1>2. CASE m = "write"
  <2>1. data_lock # 0
    BY <1>2 DEF Refused, CanEnter, TooManyReaders, UNLOCKED
  <2>2. QED
    BY <1>2, <2>1, FS_EmptySet DEF LockWord, Blocks
<1>3. QED
  BY <1>1, <1>2 DEF Modes

\* Only a drop takes somebody out: every other step keeps a mode blocked.
LEMMA BlocksKept == ASSUME TypeOK, [Next]_vars, ~(\E t \in Actors : DropGuard(t)),
                           NEW m \in Modes, Blocks(m)
  PROVE Blocks(m)'
<1> USE DEF TypeOK, InCall, InUnlock, Goto, Rest, lists, wakes, woken
<1> DEFINE Stays == \A u \in Actors : pc[u] = "holding" =>
                      pc'[u] = "holding" /\ mode'[u] = mode[u]
<1>1. ASSUME NEW t \in Actors, TryLock(t) \/ Call(t) PROVE Stays
  BY <1>1 DEF TryLock, Call, Begin, Enter
<1>2. ASSUME NEW t \in Actors, Spin(t) \/ BlockTry(t) \/ AsyncTry(t) PROVE Stays
  BY <1>2 DEF Spin, BlockTry, AsyncTry, TryOrPush, Enter
<1>3. ASSUME NEW t \in Actors,
             CancelAsync(t) \/ BlockPush(t) \/ ParkReturn(t) \/ AsyncPush(t)
             \/ AwaitReturn(t) \/ TakeSync(t) \/ Unpark(t) \/ TakeAsync(t)
             \/ Send(t) \/ Sent(t) \/ StrayUnpark(t)
      PROVE Stays
  BY <1>3 DEF CancelAsync, BlockPush, ParkReturn, AsyncPush, AwaitReturn, TakeSync,
              Unpark, TakeAsync, Send, Sent, StrayUnpark
<1>4. Stays
  BY <1>1, <1>2, <1>3 DEF Next, Step, vars
<1>5. Readers \subseteq Readers' /\ Writers \subseteq Writers'
  BY <1>4 DEF Readers, Writers
<1>6. QED
  BY <1>5 DEF Blocks

\* A drop starts the did_unlock that will take every list it lets in.
LEMMA DropCovers == ASSUME TypeOK, LockWord, NEW t \in Actors, DropGuard(t),
                           NEW m \in Modes, Blocks(m)
  PROVE WillTakeSync(m)' /\ WillTakeAsync(m)'
<1>1. pc'[t] = "take_sync" /\ batch'[t] = IF mode[t] = "read" THEN "write" ELSE "read"
  BY DEF DropGuard, Goto, TypeOK
<1>2. batch'[t] = m \/ (batch'[t] = "read" /\ m = "write")
  <2>1. CASE mode[t] = "read"
    <3>1. t \in Readers
      BY <2>1 DEF DropGuard, Readers
    <3>2. m = "write"
      BY <3>1 DEF LockWord, Blocks, Modes
    <3>3. QED
      BY <1>1, <2>1, <3>2
  <2>2. CASE mode[t] = "write"
    BY <1>1, <2>2 DEF Modes
  <2>3. QED
    BY <2>1, <2>2 DEF TypeOK, Modes
<1>3. QED
  BY <1>1, <1>2 DEF WillTakeSync, WillTakeAsync, InUnlock

\* A handle enters a sync list only while somebody is inside whose drop wakes
\* that list, and the did_unlock that is under way takes it.
LEMMA SyncCoveredStep == TypeOK /\ LockWord /\ SyncCovered /\ [Next]_vars => SyncCovered'
<1> SUFFICES ASSUME TypeOK, LockWord, SyncCovered, [Next]_vars,
                    NEW m \in Modes, NEW s \in Actors,
                    (waiting_sync[m][s] > 0 \/ (pc[s] = "block_push" /\ mode[s] = m))'
             PROVE Blocks(m)' \/ WillTakeSync(m)'
  BY DEF SyncCovered
<1> DEFINE Entry == waiting_sync[m][s] > 0 \/ (pc[s] = "block_push" /\ mode[s] = m)
<1> USE DEF TypeOK, InCall, InUnlock, Goto, Rest, lists, wakes, woken
<1>1. Entry => Blocks(m) \/ WillTakeSync(m)
  BY DEF SyncCovered
<1>2. CASE \E t \in Actors : DropGuard(t)
  <2>1. PICK t \in Actors : DropGuard(t)
    BY <1>2
  <2>2. Entry
    BY <2>1 DEF DropGuard
  <2>3. WillTakeSync(m) => WillTakeSync(m)'
    BY <2>1 DEF DropGuard, WillTakeSync
  <2>4. QED
    BY <1>1, <2>1, <2>2, <2>3, DropCovers
<1>3. CASE ~(\E t \in Actors : DropGuard(t))
  <2>0. Blocks(m) => Blocks(m)'
    BY <1>3, BlocksKept
  <2>1. ASSUME NEW t \in Actors, BlockTry(t) PROVE Blocks(m)' \/ WillTakeSync(m)'
    <3>1. WillTakeSync(m) => WillTakeSync(m)'
      BY <2>1 DEF BlockTry, TryOrPush, Enter, WillTakeSync
    <3>2. Entry \/ Refused(m)
      BY <2>1 DEF BlockTry, TryOrPush, Enter
    <3>3. QED
      BY <1>1, <2>0, <3>1, <3>2, RefusedBlocks
  <2>2. ASSUME NEW t \in Actors, BlockPush(t) PROVE Blocks(m)' \/ WillTakeSync(m)'
    <3>1. WillTakeSync(m) => WillTakeSync(m)'
      BY <2>2 DEF BlockPush, WillTakeSync
    <3>2. Entry
      BY <2>2 DEF BlockPush
    <3>3. QED
      BY <1>1, <2>0, <3>1, <3>2
  <2>3. ASSUME NEW t \in Actors, TakeSync(t) PROVE Blocks(m)' \/ WillTakeSync(m)'
    <3>1. Entry /\ batch[t] # m
      BY <2>3 DEF TakeSync, SyncListFree, NoHandles
    <3>2. WillTakeSync(m) => WillTakeSync(m)'
      BY <2>3, <3>1 DEF TakeSync, WillTakeSync
    <3>3. QED
      BY <1>1, <2>0, <3>1, <3>2
  <2>4. ASSUME NEW t \in Actors, Sent(t) PROVE Blocks(m)' \/ WillTakeSync(m)'
    <3>1. Entry
      BY <2>4 DEF Sent
    <3>2. WillTakeSync(m) => WillTakeSync(m)'
      BY <2>4 DEF Sent, WillTakeSync
    <3>3. QED
      BY <1>1, <2>0, <3>1, <3>2
  <2>5. ASSUME Entry' => Entry, WillTakeSync(m) => WillTakeSync(m)'
        PROVE Blocks(m)' \/ WillTakeSync(m)'
    BY <1>1, <2>0, <2>5
  <2>6. ASSUME NEW t \in Actors, TryLock(t) \/ Call(t)
        PROVE (Entry' => Entry) /\ (WillTakeSync(m) => WillTakeSync(m)')
    BY <2>6, CallsAssumption DEF TryLock, Call, Begin, Enter, WillTakeSync
  <2>7. ASSUME NEW t \in Actors, Spin(t) \/ AsyncTry(t)
        PROVE (Entry' => Entry) /\ (WillTakeSync(m) => WillTakeSync(m)')
    BY <2>7 DEF Spin, AsyncTry, TryOrPush, Enter, WillTakeSync
  <2>8. ASSUME NEW t \in Actors,
               CancelAsync(t) \/ ParkReturn(t) \/ AsyncPush(t) \/ AwaitReturn(t)
               \/ Unpark(t) \/ TakeAsync(t) \/ Send(t) \/ StrayUnpark(t)
        PROVE (Entry' => Entry) /\ (WillTakeSync(m) => WillTakeSync(m)')
    BY <2>8 DEF CancelAsync, ParkReturn, AsyncPush, AwaitReturn, Unpark, TakeAsync,
                Send, StrayUnpark, WillTakeSync
  <2>9. CASE UNCHANGED vars
    BY <2>5, <2>9 DEF vars, WillTakeSync
  <2>10. QED
    BY <1>3, <2>1, <2>2, <2>3, <2>4, <2>5, <2>6, <2>7, <2>8, <2>9 DEF Next, Step
<1>4. QED
  BY <1>2, <1>3

\* The same for the senders, which each did_unlock takes after the handles.
LEMMA AsyncCoveredStep == TypeOK /\ LockWord /\ AsyncCovered /\ [Next]_vars => AsyncCovered'
<1> SUFFICES ASSUME TypeOK, LockWord, AsyncCovered, [Next]_vars,
                    NEW m \in Modes, NEW s \in Actors,
                    (s \in waiting_async[m] \/ (pc[s] = "async_push" /\ mode[s] = m))'
             PROVE Blocks(m)' \/ WillTakeAsync(m)'
  BY DEF AsyncCovered
<1> DEFINE Entry == s \in waiting_async[m] \/ (pc[s] = "async_push" /\ mode[s] = m)
<1> USE DEF TypeOK, InCall, InUnlock, Goto, Rest, lists, wakes, woken
<1>1. Entry => Blocks(m) \/ WillTakeAsync(m)
  BY DEF AsyncCovered
<1>2. CASE \E t \in Actors : DropGuard(t)
  <2>1. PICK t \in Actors : DropGuard(t)
    BY <1>2
  <2>2. Entry
    BY <2>1 DEF DropGuard
  <2>3. WillTakeAsync(m) => WillTakeAsync(m)'
    BY <2>1 DEF DropGuard, WillTakeAsync
  <2>4. QED
    BY <1>1, <2>1, <2>2, <2>3, DropCovers
<1>3. CASE ~(\E t \in Actors : DropGuard(t))
  <2>0. Blocks(m) => Blocks(m)'
    BY <1>3, BlocksKept
  <2>1. ASSUME NEW t \in Actors, AsyncTry(t) PROVE Blocks(m)' \/ WillTakeAsync(m)'
    <3>1. WillTakeAsync(m) => WillTakeAsync(m)'
      BY <2>1 DEF AsyncTry, TryOrPush, Enter, WillTakeAsync
    <3>2. Entry \/ Refused(m)
      BY <2>1 DEF AsyncTry, TryOrPush, Enter
    <3>3. QED
      BY <1>1, <2>0, <3>1, <3>2, RefusedBlocks
  <2>2. ASSUME NEW t \in Actors, TakeAsync(t) PROVE Blocks(m)' \/ WillTakeAsync(m)'
    <3>1. Entry /\ batch[t] # m
      BY <2>2 DEF TakeAsync, AsyncListFree
    <3>2. WillTakeAsync(m) => WillTakeAsync(m)'
      BY <2>2, <3>1 DEF TakeAsync, WillTakeAsync
    <3>3. QED
      BY <1>1, <2>0, <3>1, <3>2
  <2>3. ASSUME Entry' => Entry, WillTakeAsync(m) => WillTakeAsync(m)'
        PROVE Blocks(m)' \/ WillTakeAsync(m)'
    BY <1>1, <2>0, <2>3
  <2>4. ASSUME NEW t \in Actors, AsyncPush(t)
        PROVE (Entry' => Entry) /\ (WillTakeAsync(m) => WillTakeAsync(m)')
    BY <2>4 DEF AsyncPush, WillTakeAsync
  <2>5. ASSUME NEW t \in Actors, CancelAsync(t)
        PROVE (Entry' => Entry) /\ (WillTakeAsync(m) => WillTakeAsync(m)')
    BY <2>5 DEF CancelAsync, WillTakeAsync
  <2>6. ASSUME NEW t \in Actors, Sent(t)
        PROVE (Entry' => Entry) /\ (WillTakeAsync(m) => WillTakeAsync(m)')
    BY <2>6 DEF Sent, WillTakeAsync
  <2>7. ASSUME NEW t \in Actors, TryLock(t) \/ Call(t)
        PROVE (Entry' => Entry) /\ (WillTakeAsync(m) => WillTakeAsync(m)')
    BY <2>7, CallsAssumption DEF TryLock, Call, Begin, Enter, WillTakeAsync
  <2>8. ASSUME NEW t \in Actors, Spin(t) \/ BlockTry(t)
        PROVE (Entry' => Entry) /\ (WillTakeAsync(m) => WillTakeAsync(m)')
    BY <2>8 DEF Spin, BlockTry, TryOrPush, Enter, WillTakeAsync
  <2>9. ASSUME NEW t \in Actors,
               BlockPush(t) \/ ParkReturn(t) \/ AwaitReturn(t) \/ TakeSync(t)
               \/ Unpark(t) \/ Send(t) \/ StrayUnpark(t)
        PROVE (Entry' => Entry) /\ (WillTakeAsync(m) => WillTakeAsync(m)')
    BY <2>9 DEF BlockPush, ParkReturn, AwaitReturn, TakeSync, Unpark, Send,
                StrayUnpark, WillTakeAsync
  <2>10. CASE UNCHANGED vars
    BY <2>3, <2>10 DEF vars, WillTakeAsync
  <2>11. QED
    BY <1>3, <2>1, <2>2, <2>3, <2>4, <2>5, <2>6, <2>7, <2>8, <2>9, <2>10 DEF Next, Step
<1>4. QED
  BY <1>2, <1>3

\* The invariant holds of a new lock.
LEMMA InitInv == Init => IndInv
<1> SUFFICES ASSUME Init PROVE IndInv
  OBVIOUS
<1> USE DEF Init, NoHandles
<1>1. TypeOK
  BY LockedWriteAssumption DEF TypeOK, Modes, UNLOCKED
<1>2. LockWord
  <2>1. Readers = {} /\ Writers = {}
    BY DEF Readers, Writers
  <2>2. QED
    BY <2>1, FS_EmptySet, LockedWriteAssumption DEF LockWord, UNLOCKED
<1>3. WakeupsOwed
  BY DEF WakeupsOwed, SyncOwed, AsyncOwed, SyncCovered, AsyncCovered
<1>4. QED
  BY <1>1, <1>2, <1>3 DEF IndInv

\* The inductive invariant holds in every reachable state.
THEOREM Invariance == Spec => []IndInv
<1>1. IndInv /\ [Next]_vars => IndInv'
  BY TypeStep, LockWordStep, SyncOwedStep, AsyncOwedStep, SyncCoveredStep,
     AsyncCoveredStep DEF IndInv, WakeupsOwed
<1>2. QED
  BY InitInv, <1>1, PTL DEF Spec

\* A writer is alone, and data_lock counts the readers or shows the writer: the
\* assertions of the drops hold, for any number of actors and any writer bit.
THEOREM Exclusion == Spec => []LockWord
<1>1. IndInv => LockWord
  BY DEF IndInv
<1>2. QED
  BY <1>1, Invariance, PTL

\* Nobody sleeps beside a lock that would let it in, unless a drop is on its way
\* to wake it: a reader's drop wakes writers only, and that is enough.
THEOREM NobodyStranded == Spec => []NoStranded
<1>1. ASSUME IndInv PROVE NoStranded
  <2> SUFFICES ASSUME NEW t \in Actors, Asleep(t), ~Reaching(mode[t])
               PROVE IF mode[t] = "read" THEN data_lock = LOCKED_WRITE
                                         ELSE data_lock # UNLOCKED
    BY DEF NoStranded
  <2> DEFINE m == mode[t]
  <2>1. m \in Modes
    BY <1>1 DEF IndInv, TypeOK
  <2>2. ~WillTakeSync(m) /\ ~WillTakeAsync(m)
    BY DEF Reaching, WillTakeSync, WillTakeAsync, InUnlock
  <2>3. Blocks(m) => IF m = "read" THEN data_lock = LOCKED_WRITE ELSE data_lock # UNLOCKED
    <3>1. ASSUME Writers = {}, Readers # {} PROVE data_lock # 0
      BY <1>1, <3>1, FiniteInside, FS_EmptySet DEF IndInv, LockWord
    <3>2. ASSUME Writers # {} PROVE data_lock = LOCKED_WRITE /\ data_lock # 0
      BY <1>1, <3>2, LockedWriteAssumption DEF IndInv, LockWord
    <3>3. QED
      BY <2>1, <3>1, <3>2 DEF Blocks, Modes, UNLOCKED
  <2>4. CASE pc[t] = "parked" /\ ~token[t]
    <3>1. waiting_sync[m][t] > 0
      BY <1>1, <2>4 DEF IndInv, WakeupsOwed, SyncOwed, Reaching, InUnlock
    <3>2. Blocks(m)
      BY <1>1, <2>1, <2>2, <3>1 DEF IndInv, WakeupsOwed, SyncCovered
    <3>3. QED
      BY <2>3, <3>2
  <2>5. CASE pc[t] = "awaiting" /\ ~signal[t]
    <3>1. t \in waiting_async[m]
      BY <1>1, <2>5 DEF IndInv, WakeupsOwed, AsyncOwed, Reaching, InUnlock
    <3>2. Blocks(m)
      BY <1>1, <2>1, <2>2, <3>1 DEF IndInv, WakeupsOwed, AsyncCovered
    <3>3. QED
      BY <2>3, <3>2
  <2>6. QED
    BY <2>4, <2>5 DEF Asleep
<1>2. QED
  BY <1>1, Invariance, PTL

\* Taking the lock is the abstract entry of a reader or of the writer.
LEMMA EnterMaps == ASSUME TypeOK, LockWord, NEW t \in Actors, NEW m \in Modes,
                          Enter(t, m), mode' = [mode EXCEPT ![t] = m],
                          pc[t] # "holding"
  PROVE Abs!EnterRead(t) \/ Abs!EnterWrite(t)
<1>1. Asking' = [Asking EXCEPT ![t] = "no"]
  BY DEF Enter, TypeOK, Goto, Asking, InCall
<1>2. CASE m = "read"
  BY <1>1, <1>2, EnterMoves DEF Abs!EnterRead
<1>3. CASE m = "write"
  BY <1>1, <1>3, EnterMoves DEF Abs!EnterWrite
<1>4. QED
  BY <1>2, <1>3 DEF Modes

\* Going on inside a call, or inside a drop, is invisible.
LEMMA StutterMaps == ASSUME TypeOK, NEW t \in Actors, NEW l, Goto(t, l), UNCHANGED mode,
                            pc[t] # "holding", l # "holding",
                            pc[t] \in InCall <=> l \in InCall
  PROVE UNCHANGED Abs!vars
<1>1. Asking' = Asking
  BY DEF TypeOK, Goto, Asking
<1>2. QED
  BY <1>1, StayMoves DEF Abs!vars

\* Ending a call without the lock is the abstract withdrawal.
LEMMA WithdrawMaps == ASSUME TypeOK, NEW t \in Actors, NEW l, Goto(t, l), UNCHANGED mode,
                             pc[t] \in InCall, l \notin InCall \cup {"holding"}
  PROVE Abs!Withdraw(t)
<1>1. Readers' = Readers /\ Writers' = Writers
  BY StayMoves DEF InCall
<1>2. Asking' = [Asking EXCEPT ![t] = "no"] /\ Asking[t] # "no"
  BY DEF TypeOK, Goto, Asking, Modes
<1>3. QED
  BY <1>1, <1>2 DEF Abs!Withdraw

\* Every step of the lock is a step of the abstract lock, or invisible.
LEMMA StepMaps == IndInv /\ [Next]_vars => [Abs!Next]_Abs!vars
<1> SUFFICES ASSUME TypeOK, LockWord, [Next]_vars PROVE [Abs!Next]_Abs!vars
  BY DEF IndInv
<1>1. ASSUME NEW t \in Actors, TryLock(t) PROVE Abs!Next
  BY <1>1, EnterMaps DEF TryLock, Abs!Next
<1>2. ASSUME NEW t \in Actors, Call(t) PROVE Abs!Next
  <2>1. PICK m \in Modes, how \in Calls :
          mode' = [mode EXCEPT ![t] = m] /\ Goto(t, how)
    BY <1>2 DEF Call, Begin, Rest
  <2>2. how \in InCall /\ how # "holding"
    BY CallsAssumption DEF InCall
  <2>3. Asking' = [Asking EXCEPT ![t] = m]
    BY <2>1, <2>2 DEF TypeOK, Goto, Asking
  <2>4. Asking[t] = "no" /\ t \notin Readers \cup Writers
    BY <1>2 DEF Call, Begin, Asking, InCall, Readers, Writers
  <2>5. Readers' = Readers /\ Writers' = Writers
    BY <2>1, <2>2, <2>4 DEF TypeOK, Goto, Readers, Writers
  <2>6. Abs!Ask(t, m)
    BY <2>3, <2>4, <2>5 DEF Abs!Ask
  <2>7. QED
    BY <2>6 DEF Abs!Next, Modes
<1>3. ASSUME NEW t \in Actors, Spin(t) \/ BlockTry(t) \/ AsyncTry(t)
      PROVE [Abs!Next]_Abs!vars
  <2> DEFINE m == mode[t]
  <2>1. m \in Modes /\ mode' = [mode EXCEPT ![t] = m] /\ UNCHANGED mode
    BY <1>3 DEF TypeOK, Spin, BlockTry, AsyncTry, TryOrPush
  <2>2. pc[t] \in InCall /\ pc[t] # "holding"
    BY <1>3 DEF Spin, BlockTry, AsyncTry, TryOrPush, InCall
  <2>3. \/ Enter(t, m)
        \/ \E l \in {"block_push", "async_push"} : Goto(t, l)
        \/ \E l \in {"idle", "block_panic", "async_panic"} : Goto(t, l)
    BY <1>3 DEF Spin, BlockTry, AsyncTry, TryOrPush, Rest
  <2> HIDE DEF m
  <2>4. CASE Enter(t, m)
    BY <2>1, <2>2, <2>4, EnterMaps DEF Abs!Next
  <2>5. ASSUME NEW l \in {"block_push", "async_push"}, Goto(t, l)
        PROVE UNCHANGED Abs!vars
    <3>1. l \in InCall /\ l # "holding"
      BY DEF InCall
    <3>2. QED
      BY <2>1, <2>2, <2>5, <3>1, StutterMaps
  <2>6. ASSUME NEW l \in {"idle", "block_panic", "async_panic"}, Goto(t, l)
        PROVE Abs!Next
    <3>1. l \notin InCall \cup {"holding"}
      BY DEF InCall
    <3>2. QED
      BY <2>1, <2>2, <2>6, <3>1, WithdrawMaps DEF Abs!Next
  <2>7. QED
    BY <2>3, <2>4, <2>5, <2>6
<1>4. ASSUME NEW t \in Actors, CancelAsync(t) PROVE Abs!Next
  <2>1. pc[t] \in InCall /\ "idle" \notin InCall \cup {"holding"}
    BY <1>4 DEF CancelAsync, InCall
  <2>2. QED
    BY <1>4, <2>1, WithdrawMaps DEF CancelAsync, Abs!Next
<1>5. ASSUME NEW t \in Actors, DropGuard(t) PROVE Abs!Next
  <2>1. Readers' = Readers \ {t} /\ Writers' = Writers \ {t}
    BY <1>5, OutMoves DEF DropGuard
  <2>2. Asking' = Asking
    BY <1>5 DEF DropGuard, TypeOK, Goto, Asking, InCall
  <2>3. t \in Readers \cup Writers
    BY <1>5 DEF DropGuard, TypeOK, Modes, Readers, Writers
  <2>4. QED
    BY <2>1, <2>2, <2>3 DEF Abs!Leave, Abs!Next
<1>6. ASSUME NEW t \in Actors,
             BlockPush(t) \/ ParkReturn(t) \/ AsyncPush(t) \/ AwaitReturn(t)
             \/ TakeSync(t) \/ TakeAsync(t) \/ Sent(t)
      PROVE UNCHANGED Abs!vars
  <2>1. PICK l : /\ Goto(t, l) /\ l # "holding"
                 /\ pc[t] \in InCall <=> l \in InCall
    BY <1>6 DEF BlockPush, ParkReturn, AsyncPush, AwaitReturn, TakeSync, TakeAsync,
                Sent, InCall
  <2>2. pc[t] # "holding" /\ UNCHANGED mode
    BY <1>6 DEF BlockPush, ParkReturn, AsyncPush, AwaitReturn, TakeSync, TakeAsync, Sent
  <2>3. QED
    BY <2>1, <2>2, StutterMaps
<1>7. ASSUME NEW t \in Actors, Unpark(t) \/ Send(t) \/ StrayUnpark(t)
      PROVE UNCHANGED Abs!vars
  BY <1>7 DEF Unpark, Send, StrayUnpark, Readers, Writers, Asking, Abs!vars
<1>8. CASE UNCHANGED vars
  BY <1>8 DEF vars, Readers, Writers, Asking, Abs!vars
<1>9. QED
  BY <1>1, <1>2, <1>3, <1>4, <1>5, <1>6, <1>7, <1>8 DEF Next, Step

\* The lock implements the abstract readers-writer lock, for any number of
\* actors and any writer bit.
THEOREM Refinement == Spec => ImplementsRwLock
<1>1. Init => Abs!Init
  BY DEF Init, Abs!Init, Readers, Writers, Asking, InCall
<1>2. QED
  BY <1>1, StepMaps, Invariance, PTL DEF Spec, ImplementsRwLock, Abs!SafeSpec

\* Every variable has its type: the four lists count handles, never less than none.
THEOREM Typed == Spec => []TypeOK
<1>1. IndInv => TypeOK
  BY DEF IndInv
<1>2. QED
  BY <1>1, Invariance, PTL

\* Nobody who has released the lock drops the debt of wakeups to the four lists.
THEOREM DebtKept == Spec => []WakeupsOwed
<1>1. IndInv => WakeupsOwed
  BY DEF IndInv
<1>2. QED
  BY <1>1, Invariance, PTL
=============================================================================
