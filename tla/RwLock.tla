------------------------------- MODULE RwLock -------------------------------
(* The readers-writer lock: try, spinning, blocking and async acquisition    *)
(* for readers and writers, the drops of the two guards, and the two         *)
(* did_unlock.  As in Mutex, an actor is a thread or an async task, and the  *)
(* closure of a lock loop is two steps under the spinlock of its list.       *)
EXTENDS Naturals, FiniteSets

CONSTANTS Actors,
          Calls,         \* the strategies in use, of {"spin", "block", "async"}
          LOCKED_WRITE,  \* the writer bit; 1 .. LOCKED_WRITE - 1 count readers
          MaxEntries     \* how many handles of one thread may be about

ASSUME ActorsAssumption == IsFiniteSet(Actors)
ASSUME CallsAssumption == Calls \subseteq {"spin", "block", "async"}
ASSUME LockedWriteAssumption == LOCKED_WRITE \in Nat \ {0, 1}
ASSUME MaxEntriesAssumption == MaxEntries \in Nat

UNLOCKED == 0
Modes == {"read", "write"}

VARIABLES
  data_lock,      \* RwLock.data_lock
  waiting_sync,   \* [mode -> [thread -> handles]]: waiting_sync_{read,write}_threads
  waiting_async,  \* [mode -> tasks with a sender]: waiting_async_{read,write}_threads
  pc,             \* where each actor is
  mode,           \* what its call or its guard is for
  batch,          \* the mode whose waiters its did_unlock is waking
  unparks, sends, \* what it took of the lists and has not woken yet
  token, signal   \* park tokens; receivers sent to

lists == <<waiting_sync, waiting_async>>
wakes == <<batch, unparks, sends>>
woken == <<token, signal>>
vars == <<data_lock, lists, pc, mode, wakes, woken>>

NoHandles == [t \in Actors |-> 0]

Init == /\ data_lock = UNLOCKED
        /\ waiting_sync = [m \in Modes |-> NoHandles]
        /\ waiting_async = [m \in Modes |-> {}]
        /\ pc = [t \in Actors |-> "idle"]
        /\ mode = [t \in Actors |-> "read"]
        /\ batch = [t \in Actors |-> "write"]
        /\ unparks = [t \in Actors |-> NoHandles]
        /\ sends = [t \in Actors |-> {}]
        /\ token = [t \in Actors |-> FALSE]
        /\ signal = [t \in Actors |-> FALSE]

Goto(t, l) == pc' = [pc EXCEPT ![t] = l]
Rest(t, l) == Goto(t, l) /\ UNCHANGED <<data_lock, lists, wakes, woken>>

\* Mutant: one reader too many.
CanEnterLate(m) == IF m = "read" THEN data_lock < LOCKED_WRITE
                                 ELSE data_lock = UNLOCKED

\* try_lock_read and try_lock_write by what they find in data_lock.
CanEnter(m) == IF m = "read" THEN data_lock < LOCKED_WRITE - 1
                             ELSE data_lock = UNLOCKED
TooManyReaders(m) == m = "read" /\ data_lock = LOCKED_WRITE - 1
Refused(m) == ~CanEnter(m) /\ ~TooManyReaders(m)

Enter(t, m) == /\ CanEnter(m)
               /\ data_lock' = IF m = "read" THEN data_lock + 1 ELSE LOCKED_WRITE
               /\ Goto(t, "holding")
               /\ UNCHANGED <<lists, wakes, woken>>

\* Mutant: the handle is pushed after the closure that tried has returned.
SyncListUnguarded(m) == TRUE

\* The spinlock of a list is held between a failed try and the push, and for
\* ever once the try has panicked inside the closure.
SyncListFree(m) == \A u \in Actors :
  ~(pc[u] \in {"block_push", "block_panic"} /\ mode[u] = m)
AsyncListFree(m) == \A u \in Actors :
  ~(pc[u] \in {"async_push", "async_panic"} /\ mode[u] = m)

\* The bound: calls and stray unparks wait for old handles to be worked off.
FewHandles(t) == \A u \in Actors, m \in Modes :
  waiting_sync[m][t] + unparks[u][t] < MaxEntries

(* ------------------------------ acquiring ------------------------------ *)

\* try_lock_read and try_lock_write that succeed; a refusal changes nothing.
TryLock(t) == /\ pc[t] = "idle"
              /\ \E m \in Modes : mode' = [mode EXCEPT ![t] = m] /\ Enter(t, m)

\* The entry of lock_{spin,block,async}_{read,write}; lock_sync_* chooses one.
Begin(t, m, how) == mode' = [mode EXCEPT ![t] = m] /\ Rest(t, how)

Call(t) == /\ pc[t] = "idle" /\ FewHandles(t)
           /\ \E m \in Modes, how \in Calls : Begin(t, m, how)

Spin(t) == /\ pc[t] = "spin"
           /\ \/ Enter(t, mode[t])
              \/ TooManyReaders(mode[t]) /\ Rest(t, "idle")   \* panics
           /\ UNCHANGED mode

\* The closure of the lock loops tries under the list's spinlock.
TryOrPush(t, try, free, push, panic) ==
  /\ pc[t] = try /\ free
  /\ \/ Enter(t, mode[t])
     \/ Refused(mode[t]) /\ Rest(t, push)
     \/ TooManyReaders(mode[t]) /\ Rest(t, panic)
  /\ UNCHANGED mode

BlockTry(t) ==
  TryOrPush(t, "block", SyncListFree(mode[t]), "block_push", "block_panic")

BlockPush(t) == /\ pc[t] = "block_push"
                /\ waiting_sync' = [waiting_sync EXCEPT ![mode[t]][t] = @ + 1]
                /\ Goto(t, "parked")
                /\ UNCHANGED <<data_lock, waiting_async, mode, wakes, woken>>

ParkReturn(t) == /\ pc[t] = "parked" /\ token[t]
                 /\ token' = [token EXCEPT ![t] = FALSE]
                 /\ Goto(t, "block")
                 /\ UNCHANGED <<data_lock, lists, mode, wakes, signal>>

AsyncTry(t) ==
  TryOrPush(t, "async", AsyncListFree(mode[t]), "async_push", "async_panic")

AsyncPush(t) == /\ pc[t] = "async_push"
                /\ waiting_async' = [waiting_async EXCEPT ![mode[t]] = @ \cup {t}]
                /\ Goto(t, "awaiting")
                /\ UNCHANGED <<data_lock, waiting_sync, mode, wakes, woken>>

AwaitReturn(t) == /\ pc[t] = "awaiting" /\ signal[t]
                  /\ signal' = [signal EXCEPT ![t] = FALSE]
                  /\ Goto(t, "async")
                  /\ UNCHANGED <<data_lock, lists, mode, wakes, token>>

\* The future is dropped.  Its sender stays queued without effect, so the model
\* counts a sender only while its receiver lives.
CancelAsync(t) ==
  /\ pc[t] = "awaiting"
  /\ waiting_async' = [m \in Modes |-> waiting_async[m] \ {t}]
  /\ sends' = [u \in Actors |-> sends[u] \ {t}]
  /\ signal' = [signal EXCEPT ![t] = FALSE]
  /\ Goto(t, "idle")
  /\ UNCHANGED <<data_lock, waiting_sync, mode, batch, unparks, token>>

(* ------------------------------ releasing ------------------------------ *)

\* Mutant: both guards call did_unlock_read.
DropGuardAsReader(t) ==
  /\ pc[t] = "holding"
  /\ data_lock' = IF mode[t] = "read" THEN data_lock - 1 ELSE UNLOCKED
  /\ batch' = [batch EXCEPT ![t] = "write"]
  /\ Goto(t, "take_sync")
  /\ UNCHANGED <<lists, mode, unparks, sends, woken>>

\* ReadGuard::drop wakes only writers, WriteGuard::drop readers and then writers.
DropGuard(t) ==
  /\ pc[t] = "holding"
  /\ data_lock' = IF mode[t] = "read" THEN data_lock - 1 ELSE UNLOCKED
  /\ batch' = [batch EXCEPT ![t] = IF mode[t] = "read" THEN "write" ELSE "read"]
  /\ Goto(t, "take_sync")
  /\ UNCHANGED <<lists, mode, unparks, sends, woken>>

TakeSync(t) ==
  LET m == batch[t] IN
  /\ pc[t] = "take_sync" /\ SyncListFree(m)
  /\ unparks' = [unparks EXCEPT ![t] = waiting_sync[m]]
  /\ waiting_sync' = [waiting_sync EXCEPT ![m] = NoHandles]
  /\ Goto(t, "unpark")
  /\ UNCHANGED <<data_lock, waiting_async, mode, batch, sends, woken>>

\* Mutant: the handles are unparked without being taken off the batch.
UnparkAgain(t) == /\ pc[t] = "unpark"
                  /\ \E s \in Actors :
                       unparks[t][s] > 0 /\ token' = [token EXCEPT ![s] = TRUE]
                  /\ UNCHANGED <<data_lock, lists, pc, mode, wakes, signal>>

Unpark(t) == /\ pc[t] = "unpark"
             /\ \E s \in Actors :
                  /\ unparks[t][s] > 0
                  /\ unparks' = [unparks EXCEPT ![t][s] = @ - 1]
                  /\ token' = [token EXCEPT ![s] = TRUE]
             /\ UNCHANGED <<data_lock, lists, pc, mode, batch, sends, signal>>

TakeAsync(t) ==
  LET m == batch[t] IN
  /\ pc[t] = "unpark" /\ unparks[t] = NoHandles /\ AsyncListFree(m)
  /\ sends' = [sends EXCEPT ![t] = waiting_async[m]]
  /\ waiting_async' = [waiting_async EXCEPT ![m] = {}]
  /\ Goto(t, "send")
  /\ UNCHANGED <<data_lock, waiting_sync, mode, batch, unparks, woken>>

Send(t) == /\ pc[t] = "send"
           /\ \E s \in sends[t] :
                /\ sends' = [sends EXCEPT ![t] = @ \ {s}]
                /\ signal' = [signal EXCEPT ![s] = TRUE]
           /\ UNCHANGED <<data_lock, lists, pc, mode, batch, unparks, token>>

\* Mutant: did_unlock_write stops after the readers.
SentOnce(t) == /\ pc[t] = "send" /\ sends[t] = {}
               /\ Goto(t, "idle")
               /\ batch' = [batch EXCEPT ![t] = "write"]
               /\ UNCHANGED <<data_lock, lists, mode, unparks, sends, woken>>

\* did_unlock_write goes on to the writers; then the drop is done.
Sent(t) == /\ pc[t] = "send" /\ sends[t] = {}
           /\ \/ batch[t] = "read" /\ Goto(t, "take_sync")
              \/ batch[t] = "write" /\ Goto(t, "idle")
           /\ batch' = [batch EXCEPT ![t] = "write"]
           /\ UNCHANGED <<data_lock, lists, mode, unparks, sends, woken>>

\* The one park token of a thread is set for another primitive.
StrayUnpark(t) == /\ FewHandles(t) /\ ~token[t]
                  /\ token' = [token EXCEPT ![t] = TRUE]
                  /\ UNCHANGED <<data_lock, lists, pc, mode, wakes, signal>>

\* What an actor does by itself inside a call or a drop.
Step(t) == \/ Spin(t) \/ BlockTry(t) \/ BlockPush(t) \/ ParkReturn(t)
           \/ AsyncTry(t) \/ AsyncPush(t) \/ AwaitReturn(t)
           \/ TakeSync(t) \/ Unpark(t) \/ TakeAsync(t) \/ Send(t) \/ Sent(t)

Next == \E t \in Actors : \/ TryLock(t) \/ Call(t) \/ CancelAsync(t)
                          \/ Step(t) \/ DropGuard(t) \/ StrayUnpark(t)

Spec == Init /\ [][Next]_vars

\* Threads and woken tasks run, but a guard may be kept for ever.
FairSpec == Spec /\ \A t \in Actors : WF_vars(Step(t))

-----------------------------------------------------------------------------
(* Properties *)

InCall == {"spin", "block", "block_push", "parked",
           "async", "async_push", "awaiting"}
InUnlock == {"take_sync", "unpark", "send"}

\* Every variable has its type.
TypeOK == /\ data_lock \in 0 .. LOCKED_WRITE
          /\ waiting_sync \in [Modes -> [Actors -> Nat]]
          /\ waiting_async \in [Modes -> SUBSET Actors]
          /\ pc \in [Actors -> InCall \cup InUnlock
                               \cup {"idle", "holding", "block_panic", "async_panic"}]
          /\ mode \in [Actors -> Modes]
          /\ batch \in [Actors -> Modes]
          /\ unparks \in [Actors -> [Actors -> Nat]]
          /\ sends \in [Actors -> SUBSET Actors]
          /\ token \in [Actors -> BOOLEAN]
          /\ signal \in [Actors -> BOOLEAN]

Readers == {t \in Actors : pc[t] = "holding" /\ mode[t] = "read"}
Writers == {t \in Actors : pc[t] = "holding" /\ mode[t] = "write"}

\* A writer is alone, and data_lock says exactly who is inside: the writer bit,
\* or the number of readers.  So the assertions of the two drops never fail.
LockWord == /\ Writers # {} => data_lock = LOCKED_WRITE /\ Readers = {}
            /\ Writers = {} => data_lock = Cardinality(Readers)
                               /\ data_lock < LOCKED_WRITE
            /\ \A t, u \in Writers : t = u

\* Asleep with nothing that would end the sleep.
Asleep(t) == \/ pc[t] = "parked" /\ ~token[t]
             \/ pc[t] = "awaiting" /\ ~signal[t]

\* An actor inside did_unlock that has yet to reach, or to finish, the lists of
\* the given mode: did_unlock_write does the readers first.
Reaching(m) == \E u \in Actors :
  pc[u] \in InUnlock /\ (batch[u] = m \/ batch[u] = "read")

\* No lost wakeup: a writer sleeps only while somebody is inside or on the way
\* to wake it, a reader only while a writer is.  In particular no reader sleeps
\* beside other readers, although their drops wake writers only.
NoStranded == \A t \in Actors : Asleep(t) =>
  \/ IF mode[t] = "read" THEN data_lock = LOCKED_WRITE ELSE data_lock # UNLOCKED
  \/ Reaching(mode[t])

(* What each list, and each batch taken from it, owes to the sleepers. *)

SyncOwed == \A t \in Actors : pc[t] = "parked" =>
  \/ token[t]
  \/ waiting_sync[mode[t]][t] > 0
  \/ \E u \in Actors : /\ pc[u] = "unpark" /\ batch[u] = mode[t]
                       /\ unparks[u][t] > 0

AsyncOwed == \A t \in Actors : pc[t] = "awaiting" =>
  \/ signal[t]
  \/ t \in waiting_async[mode[t]]
  \/ \E u \in Actors : /\ pc[u] = "send" /\ batch[u] = mode[t]
                       /\ t \in sends[u]

\* Held in a way that keeps mode m out, so that its release wakes m.
Blocks(m) == IF m = "read" THEN Writers # {} ELSE Readers # {} \/ Writers # {}

\* Some did_unlock will still take the sync (async) list of mode m.
WillTakeSync(m) == \E u \in Actors :
  \/ pc[u] = "take_sync" /\ batch[u] = m
  \/ pc[u] \in InUnlock /\ batch[u] = "read" /\ m = "write"
WillTakeAsync(m) == \E u \in Actors :
  \/ pc[u] \in {"take_sync", "unpark"} /\ batch[u] = m
  \/ pc[u] \in InUnlock /\ batch[u] = "read" /\ m = "write"

SyncCovered == \A m \in Modes, t \in Actors :
  (waiting_sync[m][t] > 0 \/ (pc[t] = "block_push" /\ mode[t] = m)) =>
    Blocks(m) \/ WillTakeSync(m)

AsyncCovered == \A m \in Modes, t \in Actors :
  (t \in waiting_async[m] \/ (pc[t] = "async_push" /\ mode[t] = m)) =>
    Blocks(m) \/ WillTakeAsync(m)

\* The wakeup debt of the four lists is never dropped, and the release that
\* lets a mode in is always one that wakes it.
WakeupsOwed == SyncOwed /\ AsyncOwed /\ SyncCovered /\ AsyncCovered

IndInv == TypeOK /\ LockWord /\ WakeupsOwed

\* What an abstract lock sees.
Asking == [t \in Actors |-> IF pc[t] \in InCall THEN mode[t] ELSE "no"]

Abs == INSTANCE AbstractRwLock WITH readers <- Readers, writers <- Writers,
                                    asking <- Asking

\* The lock implements the abstract readers-writer lock ...
ImplementsRwLock == Abs!SafeSpec

\* One reader too many has panicked inside a list's spinlock, and has kept it.
Stuck == \E t \in Actors : pc[t] \in {"block_panic", "async_panic"}

\* ... and lets in those that the lock word does not keep out, unless a panic
\* has left a list locked.
ImplementsLiveRwLock == Abs!SafeSpec /\ (<>Stuck \/ Abs!Served)

\* A reader waits for ever only while writers keep getting in or one keeps its
\* guard, a writer only while others, readers or writers, do.  In particular
\* readers that keep their guards for ever keep no reader out.
OnlyOvertaking == <>Stuck \/ \A t \in Actors :
  /\ <>[](pc[t] \in InCall /\ mode[t] = "read") => []<>(Writers \ {t} # {})
  /\ <>[](pc[t] \in InCall /\ mode[t] = "write") =>
       []<>((Readers \cup Writers) \ {t} # {})

\* A guard's drop returns: did_unlock is not kept from the lists for ever.
\* (Others may keep a list's spinlock busy, but not without getting in.)
DropEnds == <>Stuck \/ \A t \in Actors :
  <>[](pc[t] \in InUnlock) => []<>((Readers \cup Writers) \ {t} # {})
=============================================================================
