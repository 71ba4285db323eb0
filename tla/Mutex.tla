------------------------------- MODULE Mutex -------------------------------
(* The asynchronous mutex: try_lock, the spinning, blocking and async ways   *)
(* of locking with and without a deadline, Guard::drop and did_unlock.       *)
(*                                                                           *)
(* An actor is a thread or an async task.  The two waiting lists each live   *)
(* behind a Spinlock; a closure that only takes the list is one step, and    *)
(* the closure of the lock loops is two (the failed CAS, then the push with  *)
(* the spinlock still held), because data_lock may change in between.        *)
EXTENDS Naturals

CONSTANTS Actors,      \* threads and tasks that share the mutex
          Calls,       \* the strategies in use, of {"spin", "block", "async"}
          Limits,      \* deadlines in use: "none" untimed, "ahead" *_timeout
          MayCancel,   \* whether tasks drop futures before they are ready
          SleepTruncates, \* wasm: sleep drops the last fraction of a millisecond
          MaxEntries   \* how many handles of one thread may be about, see FewHandles

ASSUME CallsAssumption == Calls \subseteq {"spin", "block", "async"}
ASSUME LimitsAssumption == Limits \subseteq {"none", "ahead"}
ASSUME SwitchesAssumption == MayCancel \in BOOLEAN /\ SleepTruncates \in BOOLEAN
ASSUME MaxEntriesAssumption == MaxEntries \in Nat

VARIABLES
  data_lock,      \* Mutex.data_lock
  waiting_sync,   \* handles of each thread in waiting_sync_threads
  waiting_async,  \* tasks with a sender in waiting_async_threads
  pc,             \* where each actor is
  deadline,       \* its deadline: "none", "ahead" or "passed"
  unparks,        \* handles each unlocker took and has not unparked yet
  sends,          \* senders each unlocker took and has not sent to yet
  token,          \* park token of each thread
  signal          \* the receiver a task awaits has been sent to

lists == <<waiting_sync, waiting_async>>
wakes == <<unparks, sends>>
woken == <<token, signal>>
vars == <<data_lock, lists, pc, deadline, wakes, woken>>

NoHandles == [t \in Actors |-> 0]

Init == /\ data_lock = FALSE
        /\ waiting_sync = NoHandles
        /\ waiting_async = {}
        /\ pc = [t \in Actors |-> "idle"]
        /\ deadline = [t \in Actors |-> "none"]
        /\ unparks = [t \in Actors |-> NoHandles]
        /\ sends = [t \in Actors |-> {}]
        /\ token = [t \in Actors |-> FALSE]
        /\ signal = [t \in Actors |-> FALSE]

Goto(t, l) == pc' = [pc EXCEPT ![t] = l]

\* Mutant: a plain store instead of the compare_exchange.
AcquireUnchecked(t) == /\ data_lock' = TRUE
                       /\ Goto(t, "critical")
                       /\ deadline' = [deadline EXCEPT ![t] = "none"]
                       /\ UNCHANGED <<lists, wakes, woken>>

\* The compare_exchange of try_lock (or the swap of lock_spin) succeeds.
Acquire(t) == /\ ~data_lock
              /\ data_lock' = TRUE
              /\ Goto(t, "critical")
              /\ deadline' = [deadline EXCEPT ![t] = "none"]
              /\ UNCHANGED <<lists, wakes, woken>>

\* A call that returns without the lock.
GiveUp(t) == /\ Goto(t, "idle")
             /\ deadline' = [deadline EXCEPT ![t] = "none"]
             /\ UNCHANGED data_lock

\* Mutant: the handle is pushed after the closure that tried has returned.
SyncListUnguarded == TRUE

\* The closure of the other list's user has not returned: its spinlock is held.
SyncListFree == \A u \in Actors : pc[u] # "block_push"
AsyncListFree == \A u \in Actors : pc[u] # "async_push"

\* The bound: calls and stray unparks wait for old handles to be worked off.
FewHandles(t) == \A u \in Actors : waiting_sync[t] + unparks[u][t] < MaxEntries

(* ------------------------------ the calls ------------------------------ *)

\* In no call.  An actor that has dropped its future is told from one whose
\* call has returned: the first was given no answer.
Outside(t) == pc[t] \in {"idle", "cancelled"}

\* try_lock on a free mutex.  On a held one it changes nothing.
TryLock(t) == Outside(t) /\ Acquire(t)

\* lock_spin, lock_block, lock_async and their timed forms start here.
Call(t) == /\ Outside(t)
           /\ FewHandles(t)
           /\ \E how \in Calls : Goto(t, how)
           /\ \E d \in Limits : deadline' = [deadline EXCEPT ![t] = d]
           /\ UNCHANGED <<data_lock, lists, wakes, woken>>

DeadlinePasses(t) == /\ deadline[t] = "ahead"
                     /\ deadline' = [deadline EXCEPT ![t] = "passed"]
                     /\ UNCHANGED <<data_lock, lists, pc, wakes, woken>>

(* ------------------------------- spinning ------------------------------ *)

SpinSwap(t) ==
  /\ pc[t] = "spin"
  /\ \/ Acquire(t)
     \/ /\ data_lock /\ deadline[t] # "none"
        /\ Goto(t, "spin_check")
        /\ UNCHANGED <<data_lock, lists, deadline, wakes, woken>>

SpinCheck(t) ==
  /\ pc[t] = "spin_check"
  /\ \/ deadline[t] = "passed" /\ GiveUp(t)
     \/ /\ deadline[t] # "passed"
        /\ Goto(t, "spin")
        /\ UNCHANGED <<data_lock, deadline>>
  /\ UNCHANGED <<lists, wakes, woken>>

(* ---------------------- the blocking and async loops ------------------- *)

\* The head of the loops: a timed call past its deadline tries one last time.
\* It leaves any handle it queued where it is.
LoopHead(t, top, try) ==
  /\ pc[t] = top
  /\ \/ deadline[t] = "passed" /\ Acquire(t)
     \/ /\ deadline[t] = "passed" /\ data_lock /\ GiveUp(t)
        /\ UNCHANGED <<lists, wakes, woken>>
     \/ /\ deadline[t] # "passed"
        /\ Goto(t, try)
        /\ UNCHANGED <<data_lock, lists, deadline, wakes, woken>>

\* try_lock inside the closure; on failure the list's spinlock stays held.
TryOrPush(t, try, push, free) ==
  /\ pc[t] = try
  /\ free
  /\ \/ Acquire(t)
     \/ /\ data_lock
        /\ Goto(t, push)
        /\ UNCHANGED <<data_lock, lists, deadline, wakes, woken>>

BlockHead(t) == LoopHead(t, "block", "block_try")
BlockTry(t) == TryOrPush(t, "block_try", "block_push", SyncListFree)

BlockPush(t) == /\ pc[t] = "block_push"
                /\ waiting_sync' = [waiting_sync EXCEPT ![t] = @ + 1]
                /\ Goto(t, "parked")
                /\ UNCHANGED <<data_lock, waiting_async, deadline, wakes, woken>>

\* park and park_timeout return with the token, and consume it ...
ParkReturn(t) == /\ pc[t] = "parked"
                 /\ token[t]
                 /\ token' = [token EXCEPT ![t] = FALSE]
                 /\ Goto(t, "block")
                 /\ UNCHANGED <<data_lock, lists, deadline, wakes, signal>>

\* Mutant: park where park_timeout is meant.
ParkTimeoutForgotten(t) == ParkReturn(t)

\* ... or park_timeout runs out of time and leaves the token as it is.
ParkTimeout(t) == /\ pc[t] = "parked"
                  /\ deadline[t] = "passed"
                  /\ Goto(t, "block")
                  /\ UNCHANGED <<data_lock, lists, deadline, wakes, woken>>

AsyncHead(t) == LoopHead(t, "async", "async_try")
AsyncTry(t) == TryOrPush(t, "async_try", "async_push", AsyncListFree)

AsyncPush(t) == /\ pc[t] = "async_push"
                /\ waiting_async' = waiting_async \cup {t}
                /\ Goto(t, "awaiting")
                /\ UNCHANGED <<data_lock, waiting_sync, deadline, wakes, woken>>

\* The receiver is ready; Race polls it before the timeout.
AwaitReturn(t) == /\ pc[t] = "awaiting"
                  /\ signal[t]
                  /\ signal' = [signal EXCEPT ![t] = FALSE]
                  /\ Goto(t, "async")
                  /\ UNCHANGED <<data_lock, lists, deadline, wakes, token>>

\* The receiver is dropped.  Its sender stays queued, but sending to it does
\* nothing, so the model counts a sender only while its receiver lives.
DropReceiver(t) == /\ waiting_async' = waiting_async \ {t}
                   /\ sends' = [u \in Actors |-> sends[u] \ {t}]
                   /\ signal' = [signal EXCEPT ![t] = FALSE]
                   /\ deadline' = [deadline EXCEPT ![t] = "none"]
                   /\ UNCHANGED <<data_lock, waiting_sync, unparks, token>>

\* A sleep up to the deadline ends.  On wasm it is whole milliseconds long, so
\* it may end with the deadline still ahead.
SleepEnds(t) == \/ deadline[t] = "passed"
                \/ deadline[t] = "ahead" /\ SleepTruncates

\* The timeout thread has slept and sent, and the task looks at both receivers.
TimerFired(t) == pc[t] = "awaiting" /\ SleepEnds(t)

\* Race saw only the timeout: None, without another try.
AwaitTimeout(t) == /\ TimerFired(t) /\ ~signal[t]
                   /\ DropReceiver(t)
                   /\ Goto(t, "idle")

\* The task drops its future, even one already notified.
CancelAsync(t) == /\ MayCancel /\ pc[t] = "awaiting"
                  /\ DropReceiver(t)
                  /\ Goto(t, "cancelled")

(* ----------------------- Guard::drop and did_unlock --------------------- *)

\* Mutant: a guard that does not call did_unlock.
DropGuardSilently(t) == /\ pc[t] = "critical"
                        /\ data_lock' = FALSE
                        /\ Goto(t, "idle")
                        /\ UNCHANGED <<lists, deadline, wakes, woken>>

DropGuard(t) == /\ pc[t] = "critical"
                /\ data_lock' = FALSE
                /\ Goto(t, "take_sync")
                /\ UNCHANGED <<lists, deadline, wakes, woken>>

TakeSync(t) == /\ pc[t] = "take_sync"
               /\ SyncListFree
               /\ unparks' = [unparks EXCEPT ![t] = waiting_sync]
               /\ waiting_sync' = NoHandles
               /\ Goto(t, "unpark")
               /\ UNCHANGED <<data_lock, waiting_async, deadline, sends, woken>>

\* Mutant: the handles are unparked without being taken off the batch.
UnparkAgain(t) == /\ pc[t] = "unpark"
                  /\ \E s \in Actors :
                       unparks[t][s] > 0 /\ token' = [token EXCEPT ![s] = TRUE]
                  /\ UNCHANGED <<data_lock, lists, pc, deadline, wakes, signal>>

Unpark(t) == /\ pc[t] = "unpark"
             /\ \E s \in Actors :
                  /\ unparks[t][s] > 0
                  /\ unparks' = [unparks EXCEPT ![t][s] = @ - 1]
                  /\ token' = [token EXCEPT ![s] = TRUE]
             /\ UNCHANGED <<data_lock, lists, pc, deadline, sends, signal>>

\* Mutant: the senders are dropped instead of sent to.
TakeAsyncAndDrop(t) == /\ pc[t] = "unpark"
                       /\ unparks[t] = NoHandles
                       /\ AsyncListFree
                       /\ waiting_async' = {}
                       /\ Goto(t, "send")
                       /\ UNCHANGED <<data_lock, waiting_sync, deadline, wakes, woken>>

TakeAsync(t) == /\ pc[t] = "unpark"
                /\ unparks[t] = NoHandles
                /\ AsyncListFree
                /\ sends' = [sends EXCEPT ![t] = waiting_async]
                /\ waiting_async' = {}
                /\ Goto(t, "send")
                /\ UNCHANGED <<data_lock, waiting_sync, deadline, unparks, woken>>

Send(t) == /\ pc[t] = "send"
           /\ \E s \in sends[t] :
                /\ sends' = [sends EXCEPT ![t] = @ \ {s}]
                /\ signal' = [signal EXCEPT ![s] = TRUE]
           /\ UNCHANGED <<data_lock, lists, pc, deadline, unparks, token>>

Unlocked(t) == /\ pc[t] = "send"
               /\ sends[t] = {}
               /\ Goto(t, "idle")
               /\ UNCHANGED <<data_lock, lists, deadline, wakes, woken>>

(* ----------------------------- environment ----------------------------- *)

\* A thread has one park token: an unpark meant for another primitive, or the
\* return without cause that std allows, looks like this.
StrayUnpark(t) == /\ FewHandles(t)
                  /\ ~token[t]
                  /\ token' = [token EXCEPT ![t] = TRUE]
                  /\ UNCHANGED <<data_lock, lists, pc, deadline, wakes, signal>>

\* The steps an actor takes by itself once it has made a call.
Step(t) == \/ SpinSwap(t) \/ SpinCheck(t)
           \/ BlockHead(t) \/ BlockTry(t) \/ BlockPush(t)
           \/ ParkReturn(t) \/ ParkTimeout(t)
           \/ AsyncHead(t) \/ AsyncTry(t) \/ AsyncPush(t)
           \/ AwaitReturn(t) \/ AwaitTimeout(t)
           \/ TakeSync(t) \/ Unpark(t) \/ TakeAsync(t) \/ Send(t) \/ Unlocked(t)

Next == \E t \in Actors : \/ TryLock(t) \/ Call(t) \/ CancelAsync(t)
                          \/ Step(t) \/ DropGuard(t)
                          \/ DeadlinePasses(t) \/ StrayUnpark(t)

Spec == Init /\ [][Next]_vars

\* Threads and woken tasks run and time passes, but a guard may be kept for ever.
FairSpec == Spec /\ \A t \in Actors : WF_vars(Step(t)) /\ WF_vars(DeadlinePasses(t))

-----------------------------------------------------------------------------
(* Properties *)

States == {"idle", "spin", "spin_check", "block", "block_try", "block_push",
           "parked", "async", "async_try", "async_push", "awaiting",
           "critical", "take_sync", "unpark", "send", "cancelled"}

\* Every variable has its type.
TypeOK == /\ data_lock \in BOOLEAN
          /\ waiting_sync \in [Actors -> Nat]
          /\ waiting_async \subseteq Actors
          /\ pc \in [Actors -> States]
          /\ deadline \in [Actors -> {"none", "ahead", "passed"}]
          /\ unparks \in [Actors -> [Actors -> Nat]]
          /\ sends \in [Actors -> SUBSET Actors]
          /\ token \in [Actors -> BOOLEAN]
          /\ signal \in [Actors -> BOOLEAN]

\* data_lock is set exactly while some actor owns a Guard, and never two do,
\* whichever of the strategies they came through.
MutualExclusion ==
  /\ data_lock <=> \E t \in Actors : pc[t] = "critical"
  /\ \A t, u \in Actors : pc[t] = "critical" /\ pc[u] = "critical" => t = u

\* Asleep with nothing that would end the sleep.
Asleep(t) == \/ pc[t] = "parked" /\ ~token[t]
             \/ pc[t] = "awaiting" /\ ~signal[t]

\* No lost wakeup: while an actor sleeps in lock_block or lock_async, the lock
\* is held or an unlocker is still inside did_unlock, so the free lock is never
\* left beside a sleeper nobody is going to wake.
NoStranded ==
  \A t \in Actors : Asleep(t) =>
    data_lock \/ \E u \in Actors : pc[u] \in {"take_sync", "unpark", "send"}

(* The inductive invariant: what each list, and each batch of wakeups taken   *)
(* from it, owes to the actors that sleep.                                    *)

\* A parked thread has its token, its handle in the list, or an unlocker that
\* holds its handle.
SyncOwed == \A t \in Actors : pc[t] = "parked" =>
  \/ token[t]
  \/ waiting_sync[t] > 0
  \/ \E u \in Actors : pc[u] = "unpark" /\ unparks[u][t] > 0

\* The same for a task: signalled, or its sender queued, or about to be sent to.
AsyncOwed == \A t \in Actors : pc[t] = "awaiting" =>
  \/ signal[t]
  \/ t \in waiting_async
  \/ \E u \in Actors : pc[u] = "send" /\ t \in sends[u]

\* A queued handle, or one about to be queued, is seen by a later did_unlock.
SyncCovered == \A t \in Actors : (waiting_sync[t] > 0 \/ pc[t] = "block_push") =>
  data_lock \/ \E u \in Actors : pc[u] = "take_sync"

AsyncCovered == \A t \in Actors : (t \in waiting_async \/ pc[t] = "async_push") =>
  data_lock \/ \E u \in Actors : pc[u] \in {"take_sync", "unpark"}

\* The wakeup debt of the two lists is never dropped, by timeouts, cancelled
\* futures and stale handles included; with mutual exclusion it is inductive.
WakeupsOwed == SyncOwed /\ AsyncOwed /\ SyncCovered /\ AsyncCovered

IndInv == TypeOK /\ MutualExclusion /\ WakeupsOwed

InCall == {"spin", "spin_check", "block", "block_try", "block_push", "parked"}
InFuture == {"async", "async_try", "async_push", "awaiting"}

\* What an abstract lock sees: who owns a guard, who asks and how.
Holders == {t \in Actors : pc[t] = "critical"}
How(l) == CASE l \in InCall -> "call"
            [] l \in InFuture -> "future"
            [] l = "cancelled" -> "dropped"
            [] OTHER -> "no"
Asking == [t \in Actors |-> How(pc[t])]

Abs == INSTANCE AbstractLock WITH holders <- Holders, asking <- Asking,
                                  EarlyTimers <- SleepTruncates

\* The mutex implements the abstract lock: the lock goes only to one actor at a
\* time, and a call returns without it only after its deadline, as the docs of
\* the *_timeout calls say.  This last needs a sleep that lasts as long as it
\* should: where SleepTruncates (wasm) an awaited call may return None before,
\* and EarlyTimers lets the abstract lock do so by name.
ImplementsLock == Abs!SafeSpec

\* ... and a lock that stays free is taken by one of those that ask for it.
ImplementsLiveLock == Abs!Spec

Waiting(t) == pc[t] \in InCall \cup InFuture

\* A call returns without the lock only after its deadline.
GivesUpLate == [][\A t \in Actors :
  Waiting(t) /\ pc'[t] = "idle" => deadline[t] = "passed"]_vars

\* A call that never returns is overtaken for ever, or another keeps its guard.
\* Nothing else (a lost wakeup, a stale handle, a cancelled future) can keep a
\* caller waiting.
OnlyOvertaking == \A t \in Actors :
  <>[]Waiting(t) => []<>(\E u \in Actors \ {t} : pc[u] = "critical")

\* A timed call returns, even while somebody keeps the lock for ever, unless
\* others keep the spinlocks of the lists busy.
TimedCallReturns == \A t \in Actors :
  <>[](Waiting(t) /\ deadline[t] # "none") =>
    []<>(\E u \in Actors \ {t} : pc[u] \in {"block_push", "async_push"})

\* Dropping a guard ends: the unlocker leaves did_unlock, or others keep the
\* spinlocks of the lists busy.
UnlockEnds == \A t \in Actors :
  <>[](pc[t] \in {"take_sync", "unpark", "send"}) =>
    []<>(\E u \in Actors \ {t} : pc[u] \in {"block_push", "async_push"})
=============================================================================
