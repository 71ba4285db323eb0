# wasm_safe_thread: a verification development

`wasm_safe_thread` is a Rust replacement for `std::thread` and much of
`std::sync` that behaves the same on native targets and on wasm32.  Everything
in it is built from a few atomics, a spinlock, thread parking and one-shot
continuations; nothing is delegated to the operating system's locks.  This
directory holds TLA+ models of its primitives, TLC runs on small instances and
TLAPS proofs for every instance.

## 1. Inventory

| Component | Source | State it keeps | Operations |
|---|---|---|---|
| Spinlock | `src/spinlock.rs` | `locked: AtomicBool`, the data | `with_mut` |
| Mutex and Guard | `src/mutex.rs`, `src/mutex/*.rs`, `src/guard.rs` | `data_lock: AtomicBool`, `waiting_sync_threads`, `waiting_async_threads` (each behind a spinlock) | `try_lock`, `lock_spin[_timeout]`, `lock_block[_timeout]`, `lock_async[_timeout]`, `lock_sync[_timeout]`, `with_*`, `Guard::drop`, `did_unlock` |
| RwLock and its guards | `src/rwlock/*.rs`, `src/guard.rs` | `data_lock: AtomicU8` (0..127 readers, 128 a writer), four waiting lists | `try_lock_read/write`, `lock_{spin,block,async,sync}_{read,write}`, the two `Drop`s, `did_unlock_read/write` |
| Condvar | `src/condvar.rs`, `src/condvar/*.rs` | three waiting lists (parked threads, spinning flags, async waiters) | `wait_{block,spin,async,sync}[_timeout][_while]`, `notify_one`, `notify_all` |
| mpsc | `src/mpsc.rs` | queue (a Mutex), condvar, `sender_count`, `receiver_active` | `send_*`, `recv_*[_timeout]`, `try_recv`, `Sender::clone/drop`, `Receiver::drop`, `IntoIter` |
| Parking (wasm) | `src/wasm/thread_api.rs`, `src/wasm/wasm_utils.rs` | `parking_state` word per thread | `park`, `park_timeout`, `Thread::unpark` |
| Spawn and join (native) | `src/stdlib.rs` | result channel, std handle | `spawn`, `join`, `join_async`, `is_finished` |
| Spawn and join (wasm) | `src/wasm.rs`, `src/wasm/thread_api.rs` | result channel, `finished`, `exit_state = [exit_code, ref_count]`, `PANIC_SENDER`, `PENDING_TASKS`, JS contexts with a cleanup handler each | `Builder::spawn`, worker start/exit/error, relay to the parent, `join`, `join_async`, `JoinHandle::drop` |
| Spawn hooks | `src/hooks.rs` | ordered list of named hooks behind a Mutex | `register_spawn_hook`, `remove_spawn_hook`, `clear_spawn_hooks`, `run_spawn_hooks` |
| Thread facade, thread locals, console redirection | `src/lib.rs`, `src/wasm_support.rs` | none of its own | re-exports, feature detection |
| Test executor | `src/test_executor.rs` | none | `spawn` (block on a future) |

How they interact: `Mutex`, `RwLock` and `Condvar` keep their waiting lists
behind `Spinlock` and wake with `unpark` or with a one-shot `continue`
continuation.  `Condvar::wait_*` registers, drops a `Guard` and re-locks the
mutex; `mpsc` is one `Mutex`, one `Condvar` and two atomics; `JoinHandle` is an
`mpsc` receiver plus (wasm) the reference-counted exit state; hooks are a
`Mutex` around a list.  A thread has ONE park token, shared by every primitive
it blocks on, so a late `unpark` of one primitive is a spurious wakeup of
another.

## 2. What is hard, and what makes each component correct

* **Spinlock**: mutual exclusion of closures; release on every path (the doc
  promises release when the closure panics, the code has no drop guard).
* **Mutex**: mutual exclusion over seven ways of acquiring; no lost wakeup
  between "try, fail, enqueue" and "store false, take the list, wake"; entries
  left behind by timed-out or cancelled calls never swallow a wakeup; timed
  calls return; progress whenever the lock is free.
* **RwLock**: no writer with readers, the reader count matches the guards, the
  assertions in the two `Drop`s never fire, a release wakes everyone it can
  let in; the panic at 127 readers happens inside a spinlock closure.
* **Condvar**: a notification sent to a waiter is not lost; an entry of a
  thread that already left must not swallow `notify_one`; timeout racing
  notification (the `notified` checks); park tokens left over from an earlier
  wait.
* **mpsc**: FIFO per sender, no accepted message is lost before
  `Disconnected`, a blocked receiver is woken by a message and by the last
  sender's drop (the count changes and the notification is sent WITHOUT the
  queue's mutex).
* **Parking (wasm)**: `unpark` before `park` is not lost; one token per return;
  `park_timeout` keeps the token on its `not-equal` path.
* **Spawn/join**: a join tells how the closure ended, once, and not before; a
  finished thread can be joined; on wasm the exit state is freed once and only
  after both references are gone, although several contexts report, the cleanup
  handler is registered in one JS context while its `Once` is shared by all,
  and the panic hook is one for all workers.
* **Hooks**: names stay unique, registration order is kept, the copy a new
  thread runs is a list there really was at one moment, and hooks may call the
  registry themselves.

## 3. Plan

| Order | Modules | State |
|---|---|---|
| 1 | `Spinlock`, `SpinlockProofs` | done |
| 2 | `AbstractLock`, `Mutex`, `MutexProofs` | done |
| 3 | `AbstractRwLock`, `RwLock`, `RwLockProofs` | done |
| 4 | `Condvar` over the abstract lock, `Handoff` as its textbook use, `HandoffProofs` | done |
| 5 | `AbstractChannel`, `Mpsc`: the channel over the same condition variable, `MpscProofs` | done |
| 6 | `AbstractParkToken`, `Parking`, `ParkingProofs` | done |
| 7 | `AbstractHooks`, `SpawnHooks`; `AbstractThreads`, `Threads` (native), `ThreadsProofs` | done |
| 8 | `Workers` (wasm), `WorkersProofs` | done but for what section 7 leaves out |

The `MC...` modules give the constants their values for TLC.  `Mutex`, `RwLock`,
`Mpsc`, `Parking`, `Threads` and `Workers` instantiate the `Abstract...` modules
with their refinement mappings; `Threads` and `Workers` implement the same
`AbstractThreads`, which is how the two platforms are held to one promise.
`Threads` extends `SpawnHooks` with the threads that run the hooks.
`Condvar` has no behaviour of its own: `Handoff` and `Mpsc` extend it with what
is behind the mutex.  They and `SpawnHooks` use the mutex only through what
`AbstractLock` promises (a free mutex is taken in one step by one of those who ask, and is
given to somebody), which is what `Mutex` is shown to implement.

## 4. The modules and the code

### Conventions

* An actor is a thread or an async task; `pc` says where it is.  One action is
  the code between two accesses to memory that others change.
* A list behind a `Spinlock` is a variable.  A closure that does one thing to
  the list (take it, pop it, look for an entry) is one step.  The closure of
  the lock loops is two: the failed compare-exchange, then the push, with the
  spinlock kept in between (`block_push`, `async_push`), because `data_lock`
  may change there.  `SyncListFree` and `AsyncListFree` are that spinlock.
* Memory orderings are not modelled: an atomic access is one step on the one
  value of the variable.
* Time is a deadline that is `"ahead"` and may become `"passed"` at any moment.
* A thread has one park token, shared by all its primitives.  `StrayUnpark` sets
  it for any other reason and also stands for `park` returning without cause.
  This is the token of `AbstractParkToken`, which `Parking`
  implements.  Handles of one thread may be several in a list; what bounds them
  is named `MaxEntries`.
* A task's continuation is a flag (`signal`, `woken["async"]`).  Dropping the
  future (`CancelAsync`) leaves the sender in the list, as the code does.
* `lock_sync`, `with_*` and `wait_sync`, `send_sync` and `recv_sync` only
  choose one of the other calls: they add no step.  The data behind a lock is
  left out where it does not matter (`Handoff`: a count; `Mpsc`: the queue).
* Definitions that start with the comment "Mutant" are wrong versions of the one
  that follows them, each with a plausible bug.  No behaviour of a module uses
  them; each property is known to fail when one of them takes its original's
  place.

### Spinlock (`src/spinlock.rs`)

`locked` is the flag, `data` a counter, `Swap` the successful
`swap(true)`, `Read` and `Write` the closure in two halves, `Leave` the
`store(false)`.  `Panic` is a closure that unwinds: there is no drop guard, so
the flag stays, although the doc of `with_mut` says (lines 67-68) that "the lock is
guaranteed to be released even if the closure panics".  `OnlyOvertaking` names
this as its one exception, and `DropEnds` of `RwLock` depends on it.

### Mutex (`src/mutex.rs`, `src/mutex/*.rs`, `src/guard.rs`)

`Acquire` is the compare-exchange of `try_lock` (the swap of `lock_spin`);
`GiveUp` is `None`.

| Code | Actions |
|---|---|
| `try_lock` | `TryLock` |
| start of any other call, with the strategy and the deadline | `Call` |
| `lock_spin[_timeout]` | `SpinSwap`, `SpinCheck` |
| `lock_block[_timeout]`: head of the loop; the closure; the park | `BlockHead`; `BlockTry`, `BlockPush`; `ParkReturn`, `ParkTimeout` |
| `lock_async[_timeout]`: head; closure; await and race with the timer | `AsyncHead`; `AsyncTry`, `AsyncPush`; `AwaitReturn`, `AwaitTimeout` |
| dropping a future | `CancelAsync` |
| `Guard::drop`, then `did_unlock` | `DropGuard`; `TakeSync`, `Unpark`, `TakeAsync`, `Send`, `Unlocked` |

`SleepTruncates` says whether the timer thread's `sleep` may end up to a
millisecond early, as it does on wasm, where it takes whole milliseconds
(`SleepEnds`).  `lock_async_timeout` may then return `None` before its deadline,
against the docs of `sleep` (`thread_api.rs:450`) and of `lock_async_timeout`
(`mutex.rs:402-403`).  `AbstractLock` allows such a `None` only by name, with its
constant `EarlyTimers`, and tells it from the drop of a future (`"dropped"`,
allowed where `MayCancel` is): without `EarlyTimers` a refused call has its
deadline behind it.  The run `mutex` has exact sleep, so there the promise of the
docs is what is checked.

### RwLock (`src/rwlock/*.rs`, `src/guard.rs`)

`data_lock` is the `AtomicU8`, `LOCKED_WRITE` its writer bit (128 in the code, 3
in the run so that three actors reach the limit), `mode` what an actor wants or
holds.  `CanEnter` and `Enter` are the compare-exchange of the two `try_lock_*`,
`TooManyReaders` the panic, which unwinds through the closure and leaves the
list's spinlock set (`block_panic`, `async_panic`).  The calls have the shape of
Mutex's, without deadlines.  `did_unlock_write` works off the readers' lists
first, then the writers' (`batch`); `did_unlock_read` only the writers'.

### Condvar (`src/condvar.rs`, `src/condvar/*.rs`)

`waiting` holds the three lists, `woken` the flag, the park token and the
continuation of each waiter.  `Handoff` is the use it is made for: a waiter
takes an item and waits while there is none, a notifier adds one under the
mutex, drops it and notifies.

| Code | Actions |
|---|---|
| the client's lock, and the lock at the end of each wait | `Lock`, `LockParks` (`lock_sync` takes a park token while it waits) |
| the loop of `wait_*_while` (in `Handoff`) | `Wait` (condition true), `Take`, `TimedOut` |
| registration; `drop(guard)`; the wakeup | `Register`; `DropGuard`; `Wake` |
| `wait_block_timeout`: head of its loop, `park_timeout`, look at the list | `LoopHead`, `ParkTimeout`, `Check` |
| `wait_spin_timeout` after the deadline | `SpinLate` (popped: waits on for the flag, `popped`) |
| `wait_async_timeout`: the poll that sees the timer first; the removal | `RaceLate`; `AsyncLate` |
| `notify_one` | `Pop`, `Deliver`, `Delivered` |
| `notify_all` | `TakeAll`, `Deliver`, `Delivered`, list by list |

### Channel (`src/mpsc.rs`)

`queue`, `sender_count` and `receiver_active` are the fields of `Shared`; the
condvar is that of `Condvar` with the receiver as its only waiter and the
senders, the last `Sender::drop` and `Receiver::drop` as its notifiers.

| Code | Actions |
|---|---|
| `Sender::clone`, `Sender::drop` | `Clone`, `DropSender` (without the mutex; the last one notifies) |
| `send_*`: first look at `receiver_active`; lock; second look, push, unlock, `notify_one` | `Send`; `SendLock`; `Push` |
| `recv_*`: deadline and lock; `pop_front`; look at the count; the wait | `Recv`, `Lock`, `LockTimesOut`; `PopFront`, `NothingThere`; `ReadCount`; `StartWait` and the waits of `Condvar`, `WaitTimedOut` |
| `try_recv` | `TryRecv`, then `PopFront` or `NothingThere` and `ReadCount` |
| `Receiver::drop` | `DropReceiver` |

### Parking (`src/wasm/thread_api.rs`, `src/wasm/wasm_utils.rs`)

`parking_state` is the thread's word.  One thread waits on it, calls of `unpark`
overlap.  `Atomics.wait` compares and sleeps in one step; the compare-exchange
before it, the store that consumes after it, and the store and the notify of
`unpark` are steps of their own.

| Code | Actions |
|---|---|
| `park`, `park_timeout` | `Park`, with `timed` |
| `Atomics.compareExchange(i32, idx, 1, 0)` | `TryToken` |
| `Atomics.wait`: sleeps or "not-equal"; throws; "timed-out" | `Wait`; `Unsupported`; `TimeOut` |
| the store after "ok", and after `park`'s "not-equal" | `Consume` |
| `park_notify_at_addr`: the store; `Atomics.notify` | `Unpark`; `Notify` |

### Spawn hooks and native threads (`src/hooks.rs`, `src/stdlib.rs`)

`SpawnHooks` keeps the list and its mutex (`holder`); `request` is the call an
actor has made of the registry.  The calls and returns of hooks and closures,
and their panics, are actions of `Threads`.

| Code | Actions |
|---|---|
| `register_spawn_hook`, `remove_spawn_hook`, `clear_spawn_hooks` | `AskChange` (or `Reenter`, from a hook or a closure), `LockHooks`, `RegisterHook`, `RemoveHook`, `ClearHooks` |
| `run_spawn_hooks`: the copy; the loop | `LockHooks`, `CopyHooks`; `RunHook`, `HookReturns`, `HookPanics` |
| `spawn`: the caller; the thread | `Spawn`; `BeginClosure`, `ClosureEnds`, `Send`, `Exit` |
| `join`, `join_async` | `Join`, `Receive`, `Disconnected` |

`Disconnected` has no fairness: `mpsc_disconnect` shows that a receiver may miss
the drop of the last sender.

### Workers (`src/wasm.rs`, `src/wasm/thread_api.rs`)

A worker is in one `phase` of its life; its manager is the context that hears of
its end, which is its spawner on Node and the root in a browser.  `events` are
the exits and errors on their way to it, `exit_code`, `ref_count` and `frees`
the shared exit state.  Both platforms are behaviours of one specification
(`node`).

| Code | Actions |
|---|---|
| `Builder::spawn`, `spawn_with_shared_module`, `init_handlers` | `Spawn` (with `InitHandlers`, `Allocate`) |
| a browser worker's message to its parent | `Relay` |
| the worker script, `wasm_safe_thread_entry_point` | `LoadFails`, `TakeHook`, `SetHook` |
| hooks and closure; the panic hook | `Return`, `Panic`, `Trap`; `Finish`, `SendResult`, `EntryThrows` |
| `task_begin`, `task_finished`, the wait for pending tasks | `TaskBegin`, `TaskFinished`, `Uncaught`, `Exit` |
| Node's end of a worker whose parent is gone | `Killed` |
| `signalExit`, `decrementRefCountAndCleanup` in the manager | `SignalExit`, `Release` |
| `join`, `join_async`, `JoinHandle::drop` | `Join`, `JoinOnMain`, `Received`, `ExitSeen`, `Abandon`, `DropHandle` |

The two halves of the exchange of the panic hook (`take_hook`, `set_hook`) are
two steps, because the hook is the process's and not the worker's.  `busy` and
`Yield` are the root's turns between the program and its event loop: nothing
makes it yield.  A write to freed memory is not followed further: what is found
there is any value.

## 5. The runs

| Run | Instance | Question |
|---|---|---|
| `spinlock` | 3 threads, counter modulo 4, panics | do closures exclude each other, is every update kept, can a thread be starved by anything but others' progress or a panic |
| `mutex` | 3 actors, all strategies, deadlines, dropped futures, stray tokens, sleep that lasts its full time | exclusion, no stranded sleeper; refinement of `AbstractLock` with its liveness, so no `None` before the deadline; timed calls and unlocks end |
| `rwlock` | 3 actors, at most 2 readers, so that the third panics | exclusion, the count is the readers, no stranded sleeper; refinement of `AbstractRwLock` with its liveness; drops end, unless the panic has kept a spinlock |
| `condvar_all` | 2 waiters of every kind, timed and not, dropped futures, stray tokens, 1 notifier with `notify_all`, 1 item | a sleeper is registered, being woken or woken; no lost wakeup; waits end |
| `condvar_one` | 3 waiters of every kind, spinning ones timed, 1 notifier with `notify_one`, 2 items | a wakeup is under way for every item; the popped entry belongs to a waiter |
| `condvar_stale` | 2 blocking waiters, timed and not, `notify_one` | counterexample to `EnoughWakeups`: a notification spent on a stale entry |
| `mpsc` | 2 senders, every kind of receive, deadlines, dropped futures, stray tokens, clones and drops, sends while the queue is empty | refinement of `AbstractChannel`; beside a message a waiting receiver has a notification on its way to it; a receive that sleeps for ever beside one has lost its unpark to its thread; a registered receiver hears of the disconnection |
| `mpsc_disconnect` | 2 senders, blocking receives | counterexample to `DisconnectSeen`: the last drop slips in before the registration |
| `parking` | 1 thread, 2 unparkers, 4 unparks, parks with and without timeout, contexts that may wait and that may not | refinement of `AbstractParkToken` with its liveness; no sleep on a set word without a notify to come; one unpark ends at most three parks |
| `threads` | 1 spawned thread and its spawner, 2 names and 2 functions, 4 changes of the registry | refinement of `AbstractHooks` and of `AbstractThreads`; the thread gets past its hooks; a finished thread has left its result |
| `threads_hook_panic` | the same, 1 change of the registry | counterexample to `JoinNeverFails`: a hook panics, nothing is sent, the `expect` in `join` fails |
| `workers` | the root, a worker, and one that this one spawns; Node and browser; 1 pending task each, 2 reports | the exit state is freed once, by the last reference, and not leaked but in one case; refinement of `AbstractThreads`; joins return; `join_async` waits for the exit |

**Bounds.**  Two actors show a race; the third is there for what needs a
witness: a holder, a sleeper and an unlocker at once, a writer beside two
readers, a stale handle beside a waiter.  `MaxEntries` caps the handles one
thread has in a list and in the hands of unlockers.  With 1, a blocking call
starts only when its older handles are gone, but every further round of its own
loop may still add one, and other calls start beside them.  What a second stale
handle can do is what the first does, one more unpark, but for one case: with an
older handle in the list when it registers, a timed blocking receive takes that
one for its own after its notification and sleeps on to its deadline.  The run
`mpsc` does not reach it, the theorem `EveryMessageTold` does; `MessageTold`
excepts every timed blocking receive for it, this one or not, since a deadline
ends them all.  The bounds weaken
nothing the proofs of section 6 say: the theorems hold for every `MaxEntries`,
every writer bit and every number of actors.  `Modulus` only bounds the counter,
`MaxItems` the items, `MaxMessages` when a send may start (two senders that
start together still make the queue two long); with one item and two waiters
the one that loses the race waits again, with two items the second notification
meets a waiter of the first.  `MaxUnparks` of 4 lets an unparker's late notify
meet the sleeper of a later park, twice.  `MaxChanges` of 4 is enough to register
two hooks and to remove or replace one during each of two steps of the new
thread; a second spawned thread would only be one more reader of the list, and
what `Threads` says of joins is proved for any number.  `MaySpawn` of `workers` is a chain, so that
there is a worker whose manager is not the root on Node and is on a browser,
one that is killed, and a second worker for the window of the panic hook;
two workers of the root are not in it, but in the proofs.  `MaxReports` of 2 is
an error and then an exit.

**Deadlock** is checked except in `spinlock` and `rwlock`, where a panic inside a
closure really leaves the others with nothing but spinning; in the `mpsc` runs,
`threads` and `workers`, which stop when all handles are gone and all threads
have ended; and in `parking`, where a thread nobody unparks stays parked.

**What is proved and not run.**  `TypeOK` of all proved modules but `Mpsc` and
`Threads`, whose runs check it, `WakeupsOwed` and the safety parts `ImplementsLock`,
`ImplementsRwLock` and `ImplementsToken` are theorems; the runs check the stronger `ImplementsLive...`.

**Fairness.**  Weak fairness per actor of its own steps (`Step`, `WaiterStep`,
`NotifierStep`): threads are scheduled and woken tasks polled, which the
platforms do.  Weak fairness of `DeadlinePasses`: time passes.  In no run is there fairness of
starting a call, of dropping a guard, of cancelling, of stray unparks: clients
may keep a guard for ever, so the liveness properties all say *unless* somebody
does, or others overtake for ever: the locks are not fair, and the code does
not say they are.  The lists' spinlocks are not fair either, hence the
disjuncts about others that keep them busy.  `Handoff` and `Mpsc` add weak
fairness of "somebody locks the free mutex", which is the liveness of
`AbstractLock` that `mutex` shows.
`Parking` has weak fairness of the thread and of a notify that has been stored
for, and none of timeouts, parks or unparks.  `Threads` has it of the threads'
own steps (hooks and closures return or panic, in the end) and of the registry.
`Workers` assumes the least: workers that have begun go on once their closure has
ended, handles are served, and the manager of a worker has strong fairness: an
event loop that gets its turn again and again handles its messages.  Closures
and tasks may last for ever, the root may never yield, and a worker may never
be started; the liveness properties name each of these.

**What the violation runs say.**  Each is a disagreement of a doc comment with
the code, quoted in `PROJECT.json`. `mpsc_disconnect`: a receiver finds the
queue empty and a sender alive; the sender is dropped, decrements the count and
notifies nobody, because the receiver has not registered; then it does, and
sleeps for ever.  `mpsc` shows that this window is the only one
(`DisconnectWakes`).  `condvar_stale`: `wait_block_timeout` can return before
the unpark it was popped for; the token stays; the thread's next `wait_block`
takes it for a notification and leaves its entry in the list; a later
`notify_one` pops that entry, and another thread sleeps on beside its item.
`condvar_one` shows the promise kept where no token goes astray, `condvar_all`
shows that `notify_all` needs no such condition.  `threads_hook_panic`: the spawned
thread runs its hooks outside of `catch_unwind`; one that panics takes the sender
with it, nothing having been sent, and the comment in `join`, "The thread always
sends a result before exiting, so this should never fail" (`stdlib.rs:82`), does not
hold: its `expect` panics in the thread that joins.  `threads` shows that nothing
else makes a join fail (`ImplementsThreads`: `failed` only in a life that is lost).

**Disagreements without a run.**  Four more, which the properties name as exceptions:
a panic keeps the spinlock's flag (`spinlock.rs:67-68`; `OnlyOvertaking`); `None`
may come early on wasm (`mutex.rs:402-403`, `thread_api.rs:450`; `GivesUpLate`,
`EarlyTimers`); the exit state of a worker that a Node worker spawned is not freed,
although "Whoever decrements ref_count to 0 frees the memory" (`thread_api.rs:72`;
`FreedInTheEnd`); and it is freed under the handle after a browser's worker has
reported twice (`FreedByLast`).

**What the exceptions in the properties of `workers` say.**  They are true of the
code.  `FreedByLast` excepts a browser's worker with a callback that throws
while it waits for its tasks: `onerror` and the later exit take one reference
each, and the handle is left with freed memory.  `FreedInTheEnd` excepts workers
of Node workers: their spawner has no `__cleanup_handler`, so whoever lets go
last there frees nothing.  `HookWindow` excepts the time between another
worker's `take_hook` and `set_hook`.  `JoinReturns` says nothing of workers that
trap or fail to load: their sender is lost with the closure and `join` waits for
ever.  `JoinReturns` and `ExitReturns` except the rest they name.  `ImplementsThreads` lets a
join fail in two cases only: at once, with the handle, on a main thread
(`MayRefuse`), and by `join_async` that has an `Ok` result already when it hears that
the worker has ended in an error (`FailsIn`).  What it does not say is that a join
comes back: that is `JoinReturns`.

## 6. The proofs

All theorems hold for every value of the constants that satisfies the named
assumptions of the module: any set of actors (finite for `RwLock`, whose lock
word counts them, and for `Mpsc`, whose `sender_count` does), any writer bit, any
subset of strategies.  `NamesAssumption` of `Condvar` keeps the names of its two
special values (nobody, and the waiter of a dropped future) apart from the actors.

* `SpinlockProofs`: `IndInv` is the types, mutual exclusion, and that what a
  closure has read is still the data when it writes.  The last one is what
  makes `NoLostUpdate` inductive.
* `MutexProofs`: `IndInv` is `TypeOK /\ MutualExclusion /\ WakeupsOwed`.
  `NoStranded` is not inductive: it says that an actor does not sleep beside a
  free lock, not why.  `WakeupsOwed` says why, in two halves.  *Owed*: a sleeper
  has its wakeup, or its entry is in the list, or an unlocker holds the entry.
  *Covered*: while the list has an entry, or one is about to be pushed, the
  lock is held or somebody in `did_unlock` has yet to take that list.  The
  two together give `NoStranded`; each is preserved action by action, because
  the push happens under the list's spinlock after a failed compare-exchange,
  which the unlocker's take has to wait for.  `Refinement` maps each action to
  an acquisition, a `None` past its deadline (or before it, by name, where
  `SleepTruncates` makes `EarlyTimers` true), the drop of a guard or of a future, or
  nothing; it holds for both values of `SleepTruncates`.  `NoneComesLate` proves
  `GivesUpLate`, which says the same of one step, where `sleep` is exact.
* `RwLockProofs`: the same shape for two modes and four lists.  `LockWord`
  (the word is the number of readers, or the writer bit and nobody else) is
  carried through the increments and decrements with cardinalities of finite
  sets; *covered* names the release that will come: a reader's entry is covered
  by a writer, a writer's by anybody inside or by the writers' half of a
  `did_unlock`.  `Refinement` maps to `AbstractRwLock`.
* `HandoffProofs`: `Registered` is inductive together with the types.
  `NoLostWakeup` is not: it speaks of sleepers only, and a waiter is in a list
  before it sleeps and after its deadline too.  `ListsCovered` says the same of
  every entry of every list: beside an item there is a notifier that has yet to
  take that list.  It needs that all notifications are `notify_all`, which is the
  assumption of `AllAreTold`; `condvar_stale` shows that `notify_one` would not
  do.  The lemmas before it are about the lists: what removing the first entry
  of a waiter, replacing one, or taking the head leaves in them.
  `OneForEach` and `OnePops` prove `EnoughWakeups` and `OneIsWoken` of `notify_one`
  from `OneByOne`, the condition of the run `condvar_one`: every notification is a
  `notify_one`, only spinning waits have deadlines, no future is dropped and no
  other primitive sets the park tokens.  The first is what the two properties are
  about; each of the others would leave an entry in a list, or spend one, without
  a waiter: a timed blocking wait leaves a token
  behind (`condvar_stale`), a timed async one reports a timeout although it was
  popped, a dropped future keeps its entry, and a stray token ends a blocking wait
  whose entry stays.  `Owned` says what the condition buys: an entry is in one
  list once, or in one hand, or turned into a wakeup, and only while its waiter
  waits for it.  With it `OnePops` is a look at one step.  `EnoughWakeups` counts
  waiters and notifiers that may be of no use and is not inductive; `Enough`
  counts those that are, list by list: `Useful` waiters (popped, or on the way
  to the items and not timed out) and the notifiers `Ahead` of that list.  A pop
  turns a notifier into a waiter, a notifier that finds a list empty leaves only
  the count of a list without entries, and a waiter that goes to sleep has seen no item.
  Waiters and notifiers are finitely many there, because they are counted.
* `MpscProofs`: `ChannelInv` has the senders' and the receiver's places, the types
  of the queue, who has the mutex (`Exclusive`), that `sender_count` is the number
  of living handles (`Counted`), and that between a `pop_front` that finds nothing
  and the look at the count the queue stays empty (`EmptyWhenCounting`): the
  mutex is what keeps a message from slipping in before `Disconnected`.  The
  steps of the condition variable map to stutters.  `Types` adds the condition
  variable's, and `Typed` bounds the count by the number of handles.
  `EveryMessageTold` proves `MessageTold`, whose inductive invariant is `Informed`.
  `Quiet`: the queue is empty from the receiver's look at it to its registration,
  so a message that is there when it waits was pushed behind its back, by a
  sender that notifies afterwards.  `Fresh`, for the spinning and the async list:
  the receiver's entry is there only while it waits, is the youngest, and is in
  the list, or in one hand, or woken, and never two of these; so `notify_one`,
  which pops the youngest entry, meets the receiver's before those of futures
  that are gone.  `Live`: only the async list has such entries.  The list of the
  parked threads has no such order, since a thread may leave entries behind, but
  every one of them unparks the receiver's thread.  This is all there is to say:
  an async receive may lose its notification to an old entry (the thread is
  unparked instead), and a timed blocking one may take an old entry for its own
  and sleep on to its deadline; `MessageTold` excepts all of the latter, and says
  nothing of those that have no old entry.
* `ParkingProofs`: `IndInv` is the types, `SleeperNotified` and `FewReturns`.  The
  last is an amortised count: each unpark brings three endings, of which
  `Endings` are still to come.  `Refinement` maps the notify of a sleeper to an
  abstract unpark.
* `ThreadsProofs`: `IndInv` is the types and `Told`, which ties where a thread is
  to its result, the channel and the answer of its handle.  `FinishedIsJoinable`
  and the refinement of `AbstractThreads` follow, for any hooks and any number
  of threads.  `HookInv` says that the names in the list are different (`Unique`)
  and where a thread is in its copy (`Begun`); with the first, `remove_spawn_hook`,
  which filters, is the removal of one hook in `AbstractHooks`.  `CountInv` bounds
  the position in the copy and completes the types.
* `WorkersProofs`: `IndInv` has the types, how a worker's phase and its result
  go together, what messages and outcomes tell, the window of the panic hook,
  and the accounts of the exit state: its count is the references still out
  (the worker's until its report is released, the handle's until it is gone),
  and it is freed exactly when the last is given back in a context that has the
  handler, as the root does whenever anything was spawned by it.  `NoDoubleFree`,
  `NoLeak`, `HookKept` and `Refinement` follow, for any set of workers and any
  tree of spawns.  `ExitIsAwaited` needs one thing more, `Done`: an exit code that
  tells of a clean end is written only for a worker that has closed and has no
  tasks.

Only model-checked: liveness (`Implements...Live...`, `OnlyOvertaking`,
`UnlockEnds`, `TimedCallReturns`, `DropEnds`, `WaitEnds`, `TimedWaitEnds`,
`MessageReceived`, `DisconnectWakes`, `HooksEnd`, `JoinReturns`, `ExitReturns`),
which needs fairness and `ENABLED`, out of the prover's reach.  Every other property
of the passing runs is a theorem.

## 7. What is not modelled

* `src/lib.rs` (re-exports, thread locals), `src/wasm_support.rs` (feature
  detection) and `src/test_executor.rs`: no protocol of their own.  The wasm
  `spawn` of the test executor does not call `task_begin` for the future it
  queues, although its comment counts on the worker to stay alive.
* In `Workers`: a spawn that throws after its exit state was allocated, a relay
  that fails, a worker that reports more than twice, which context owns a
  handle, whether `is_finished` agrees with `join`, the console's redirection
  and the search for the module's URL.  Traps while a hook or destructor of the
  program runs after the closure has ended are left out too.
* In `SpawnHooks`: what a hook owns.  A hook that is replaced or cleared is
  dropped under the registry's mutex; one whose destructor calls the registry
  waits for itself.
* Weak memory, the data behind the locks, `Debug` output and logging.
* In `Handoff`: clients that call a `wait_*` outside of a loop, notifiers that
  notify with the mutex held (it only removes interleavings), early timers of
  wasm.  A `notify_one` that meets the sender of a dropped future, or an async
  wait that is just timing out, is lost; `condvar_one` leaves these two out and
  they stand in the list of hazards.
* In `Mpsc`: a handle shared by several threads (`Sender` is `Sync`), two async
  receives of one task at a time, and a receiver that moves to another thread
  while an entry of the old thread is in the list.
* `did_unlock_read` and `did_unlock_write` wake every waiting writer, while the
  doc of `lock_block_write` speaks of one; no property depends on it.
