------------------------------ MODULE Condvar ------------------------------
(* The condition variable with its three waiting lists: the waits by         *)
(* spinning, blocking and async, with and without a deadline; notify_one and *)
(* notify_all.  The mutex is the one AbstractLock describes.  What is behind *)
(* the mutex, and what the waiters wait for, comes from the modules that     *)
(* extend this one: Handoff and Mpsc.                                        *)
EXTENDS Naturals, SequencesExt

CONSTANTS Waiters, Notifiers,
          Kinds,      \* the waits in use, of {"spin", "block", "async"}
          Timed,      \* those of them used with a deadline as well
          MayCancel,  \* tasks drop the futures of their waits
          MayStray,   \* other primitives set the park tokens
          MaxEntries  \* how many handles of one thread may be about

AllKinds == {"spin", "block", "async"}

ASSUME ActorsAssumption == Waiters \cap Notifiers = {}
ASSUME KindsAssumption == Kinds \subseteq AllKinds /\ Timed \subseteq Kinds
ASSUME SwitchesAssumption == MayCancel \in BOOLEAN /\ MayStray \in BOOLEAN
ASSUME MaxEntriesAssumption == MaxEntries \in Nat

VARIABLES
  holder,     \* who has the mutex: an actor, or Nobody
  waiting,    \* [kind -> entries]: waiting_{spin,sync,async}_threads
  woken,      \* [kind -> [waiter -> BOOLEAN]]: flag, park token, signal
  pc,         \* where each waiter and each notifier is
  kind,       \* the wait a waiter uses
  deadline,   \* its deadline: "none", "ahead" or "passed"
  timed_out,  \* the WaitTimeoutResult of its last wait
  how, at,    \* a notifier's call, and the list it has come to
  hand        \* the entries it took from that list and has not woken yet

call == <<kind, deadline, timed_out>>
notes == <<how, at, hand>>
condvar == <<holder, waiting, woken, pc, call, notes>>

Actors == Waiters \cup Notifiers

\* The holder of the free mutex, and an entry whose receiver is gone.
Nobody == "nobody"
Dropped == "dropped"
ASSUME NamesAssumption == Nobody \notin Actors /\ Dropped \notin Actors

CondvarInit == /\ holder = Nobody
               /\ waiting = [k \in AllKinds |-> <<>>]
               /\ woken = [k \in AllKinds |-> [t \in Waiters |-> FALSE]]
               /\ kind = [t \in Waiters |-> "block"]
               /\ deadline = [t \in Waiters |-> "none"]
               /\ timed_out = [t \in Waiters |-> FALSE]
               /\ how = [n \in Notifiers |-> "all"]
               /\ at = [n \in Notifiers |-> "spin"]
               /\ hand = [n \in Notifiers |-> <<>>]

Goto(a, l) == pc' = [pc EXCEPT ![a] = l]

Handles(list, t) == Len(SelectSeq(list, LAMBDA e : e = t))

\* The bounds: a blocking call, or a stray unpark, waits for old handles to be worked
\* off, and a cancellation for old senders.
FewEntries(t) == \A n \in Notifiers :
  Handles(waiting["block"], t) + Handles(hand[n], t) < MaxEntries
FewDropped == Handles(waiting["async"], Dropped) < MaxEntries

(* ---------------------- around the wait: the mutex ---------------------- *)

\* The wait a client uses; wait_sync and wait_sync_timeout choose between two.
ChooseWait(t, k) == /\ k = "block" => FewEntries(t)
                    /\ kind' = [kind EXCEPT ![t] = k]
ChooseDeadline(t, k) == \E d \in {"none"} \cup IF k \in Timed THEN {"ahead"} ELSE {} :
                          deadline' = [deadline EXCEPT ![t] = d]

\* The client comes with the mutex still to lock; where says how it does that.
Call(t, where) ==
  /\ pc[t] = "idle"
  /\ \E k \in Kinds : ChooseWait(t, k) /\ ChooseDeadline(t, k)
  /\ Goto(t, where)
  /\ UNCHANGED <<holder, waiting, woken, timed_out, notes>>

DeadlinePasses(t) == /\ deadline[t] = "ahead"
                     /\ deadline' = [deadline EXCEPT ![t] = "passed"]
                     /\ UNCHANGED <<holder, waiting, woken, pc, kind, timed_out, notes>>

\* The first lock of the client and the lock at the end of every wait.
Lock(t) == /\ pc[t] \in {"calling", "locking"} /\ holder = Nobody
           /\ holder' = t
           /\ Goto(t, "inside")
           /\ UNCHANGED <<waiting, woken, call, notes>>

\* The park inside lock_sync takes whatever token is there.
LockParks(t) == /\ pc[t] \in {"calling", "locking"} /\ holder # Nobody
                /\ kind[t] # "async" /\ woken["block"][t]
                /\ woken' = [woken EXCEPT !["block"][t] = FALSE]
                /\ UNCHANGED <<holder, waiting, pc, call, notes>>

\* The end of the call, which forgets its locals ...
Return(t) == /\ deadline' = [deadline EXCEPT ![t] = "none"]
             /\ timed_out' = [timed_out EXCEPT ![t] = FALSE]
             /\ kind' = [kind EXCEPT ![t] = "block"]
             /\ Goto(t, "idle")

\* ... and drops the guard.
Leave(t) == /\ holder' = Nobody
            /\ Return(t)
            /\ UNCHANGED <<waiting, woken, notes>>

(* -------------------------------- waiting ------------------------------- *)

\* The entry goes into the list while the mutex is held.  The flag of a spinning
\* wait and the channel of an async one are new; the park token is not.
Register(t) == /\ waiting' = [waiting EXCEPT ![kind[t]] = Append(@, t)]
               /\ woken' = IF kind[t] = "block" THEN woken
                           ELSE [woken EXCEPT ![kind[t]][t] = FALSE]
               /\ Goto(t, "registered")
               /\ UNCHANGED <<holder, call, notes>>

DropGuard(t) == /\ pc[t] = "registered"
                /\ holder' = Nobody
                /\ Goto(t, IF kind[t] = "block" /\ deadline[t] # "none"
                           THEN "head" ELSE "asleep")
                /\ UNCHANGED <<waiting, woken, call, notes>>

\* The wait is over; the mutex is locked again.
Relock(t, result) == /\ timed_out' = [timed_out EXCEPT ![t] = result]
                     /\ Goto(t, "locking")
                     /\ UNCHANGED <<holder, kind, deadline>>

\* The flag is set, the receiver is ready, or park returns with the token.  Only
\* the timed blocking wait looks at the list before it believes it.
Wake(t) ==
  /\ pc[t] \in {"asleep", "popped"} /\ woken[kind[t]][t]
  /\ woken' = [woken EXCEPT ![kind[t]][t] = FALSE]
  /\ IF kind[t] = "block" /\ deadline[t] # "none"
     THEN Goto(t, "check") /\ UNCHANGED <<holder, call>>
     ELSE Relock(t, FALSE)
  /\ UNCHANGED <<waiting, notes>>

\* Mutant: the entry stays in the list after the deadline.
RemoveNothing(t) == UNCHANGED waiting

\* The closure that looks for the waiter's own entry after the deadline.
RemoveOwn(t) == waiting' = [waiting EXCEPT ![kind[t]] = RemoveFirst(@, t)]
Queued(t) == Contains(waiting[kind[t]], t)

\* Mutant: the clock is read once, before the loop.
LoopHeadDeaf(t) == /\ pc[t] = "head"
                   /\ Goto(t, "asleep")
                   /\ UNCHANGED <<holder, waiting, call, woken, notes>>

\* wait_block_timeout: the head of its loop ...
LoopHead(t) == /\ pc[t] = "head"
               /\ IF deadline[t] = "passed"
                  THEN RemoveOwn(t) /\ Relock(t, Queued(t))
                  ELSE Goto(t, "asleep") /\ UNCHANGED <<holder, waiting, call>>
               /\ UNCHANGED <<woken, notes>>

\* ... park_timeout running out of time ...
ParkTimeout(t) == /\ pc[t] = "asleep" /\ kind[t] = "block" /\ deadline[t] = "passed"
                  /\ Goto(t, "check")
                  /\ UNCHANGED <<holder, waiting, woken, call, notes>>

\* ... and the look at the list after each park.
Check(t) == /\ pc[t] = "check"
            /\ IF Queued(t) THEN Goto(t, "head") /\ UNCHANGED <<holder, call>>
                            ELSE Relock(t, FALSE)
            /\ UNCHANGED <<waiting, woken, notes>>

\* Mutant: a timeout is reported without the last look at the list.
SpinLateBlind(t) == /\ pc[t] = "asleep" /\ kind[t] = "spin" /\ deadline[t] = "passed"
                    /\ RemoveOwn(t)
                    /\ Relock(t, TRUE)
                    /\ UNCHANGED <<woken, notes>>

\* wait_spin_timeout: the deadline has passed.  A waiter whose flag has been
\* taken by a notifier waits on for the flag.
SpinLate(t) == /\ pc[t] = "asleep" /\ kind[t] = "spin" /\ deadline[t] = "passed"
               /\ RemoveOwn(t)
               /\ IF Queued(t) THEN Relock(t, TRUE)
                  ELSE Goto(t, "popped") /\ UNCHANGED <<holder, call>>
               /\ UNCHANGED <<woken, notes>>

\* wait_async_timeout: Race has seen the timeout and no notification ...
RaceLate(t) == /\ pc[t] = "asleep" /\ kind[t] = "async" /\ deadline[t] = "passed"
               /\ ~woken["async"][t]
               /\ Goto(t, "late")
               /\ UNCHANGED <<holder, waiting, woken, call, notes>>

\* What a notifier holds for a receiver that is gone reaches nobody.
Forget(t) == hand' = [n \in Notifiers |->
  IF at[n] = "async" THEN ReplaceAll(hand[n], t, Dropped) ELSE hand[n]]

\* ... and reports it even if the sender is no longer in the list.
AsyncLate(t) == /\ pc[t] = "late"
                /\ RemoveOwn(t)
                /\ Forget(t)
                /\ woken' = [woken EXCEPT !["async"][t] = FALSE]
                /\ Relock(t, TRUE)
                /\ UNCHANGED <<how, at>>

\* The task drops its future while it waits, or while it locks.
CancelAsync(t) ==
  /\ MayCancel /\ FewDropped
  /\ kind[t] = "async" /\ pc[t] \in {"asleep", "calling", "locking"}
  /\ waiting' = [waiting EXCEPT !["async"] = ReplaceAll(@, t, Dropped)]
  /\ Forget(t)
  /\ woken' = [woken EXCEPT !["async"][t] = FALSE]
  /\ Return(t)
  /\ UNCHANGED <<holder, how, at>>

(* ------------------------------ notifying ------------------------------- *)

\* A call of notify_one or notify_all begins with the spinning threads.
Notify(n, h) == /\ how' = [how EXCEPT ![n] = h]
                /\ at' = [at EXCEPT ![n] = "spin"]
                /\ UNCHANGED <<waiting, woken, call, hand>>

\* Mutant: the list of the parked threads is left out.
NextListSkips(n) ==
  \/ /\ at[n] # "async"
     /\ at' = [at EXCEPT ![n] = "async"]
     /\ Goto(n, "taking")
  \/ at[n] = "async" /\ UNCHANGED at /\ Goto(n, "idle")

\* On to the next list, or out of the call after the last one.
NextList(n) ==
  \/ /\ at[n] # "async"
     /\ at' = [at EXCEPT ![n] = IF at[n] = "spin" THEN "block" ELSE "async"]
     /\ Goto(n, "taking")
  \/ at[n] = "async" /\ UNCHANGED at /\ Goto(n, "idle")

\* Mutant: a queue, the oldest entry comes out first.
PopOldest(n) == /\ pc[n] = "taking" /\ how[n] = "one"
                /\ IF waiting[at[n]] = <<>>
                   THEN NextList(n) /\ UNCHANGED <<waiting, hand>>
                   ELSE /\ hand' = [hand EXCEPT ![n] = <<Head(waiting[at[n]])>>]
                        /\ waiting' = [waiting EXCEPT ![at[n]] = Tail(@)]
                        /\ Goto(n, "waking")
                        /\ UNCHANGED at
                /\ UNCHANGED <<holder, woken, call, how>>

\* notify_one pops the youngest entry of the first list that has one.
Pop(n) == /\ pc[n] = "taking" /\ how[n] = "one"
          /\ IF waiting[at[n]] = <<>>
             THEN NextList(n) /\ UNCHANGED <<waiting, hand>>
             ELSE /\ hand' = [hand EXCEPT ![n] = <<Last(waiting[at[n]])>>]
                  /\ waiting' = [waiting EXCEPT ![at[n]] = Front(@)]
                  /\ Goto(n, "waking")
                  /\ UNCHANGED at
          /\ UNCHANGED <<holder, woken, call, how>>

\* Mutant: the closure pops where it should take.
TakeAllPops(n) ==
  /\ pc[n] = "taking" /\ how[n] = "all"
  /\ IF waiting[at[n]] = <<>> THEN UNCHANGED <<waiting, hand>>
     ELSE /\ hand' = [hand EXCEPT ![n] = <<Last(waiting[at[n]])>>]
          /\ waiting' = [waiting EXCEPT ![at[n]] = Front(@)]
  /\ Goto(n, "waking")
  /\ UNCHANGED <<holder, woken, call, how, at>>

\* notify_all takes each list as it is.
TakeAll(n) == /\ pc[n] = "taking" /\ how[n] = "all"
              /\ hand' = [hand EXCEPT ![n] = waiting[at[n]]]
              /\ waiting' = [waiting EXCEPT ![at[n]] = <<>>]
              /\ Goto(n, "waking")
              /\ UNCHANGED <<holder, woken, call, how, at>>

\* Mutant: the loop ends after its first round.
DeliverOnce(n) ==
  /\ pc[n] = "waking" /\ hand[n] # <<>>
  /\ hand' = [hand EXCEPT ![n] = <<>>]
  /\ woken' = LET e == Head(hand[n]) IN
              IF e = Dropped THEN woken ELSE [woken EXCEPT ![at[n]][e] = TRUE]
  /\ UNCHANGED <<holder, waiting, pc, call, how, at>>

\* store(true), unpark or send.
Deliver(n) ==
  /\ pc[n] = "waking" /\ hand[n] # <<>>
  /\ hand' = [hand EXCEPT ![n] = Tail(@)]
  /\ woken' = LET e == Head(hand[n]) IN
              IF e = Dropped THEN woken ELSE [woken EXCEPT ![at[n]][e] = TRUE]
  /\ UNCHANGED <<holder, waiting, pc, call, how, at>>

\* notify_one is done after one entry, notify_all after the last list.
Delivered(n) == /\ pc[n] = "waking" /\ hand[n] = <<>>
                /\ IF how[n] = "one" THEN Goto(n, "idle") /\ UNCHANGED at
                                     ELSE NextList(n)
                /\ UNCHANGED <<holder, waiting, woken, call, how, hand>>

(* ----------------------------- environment ------------------------------ *)

\* The one park token of a thread is set for another primitive, the mutex
\* included, or park returns without cause.
StrayUnpark(t) == /\ MayStray /\ FewEntries(t) /\ ~woken["block"][t]
                  /\ woken' = [woken EXCEPT !["block"][t] = TRUE]
                  /\ UNCHANGED <<holder, waiting, pc, call, notes>>

\* What a waiter does by itself from its registration to the lock.
WaiterStep(t) == \/ DropGuard(t) \/ Wake(t) \/ LoopHead(t) \/ ParkTimeout(t) \/ Check(t)
                 \/ SpinLate(t) \/ RaceLate(t) \/ AsyncLate(t)
NotifierStep(n) == Pop(n) \/ TakeAll(n) \/ Deliver(n) \/ Delivered(n)

CondvarNext == \/ \E t \in Waiters : \/ Lock(t) \/ LockParks(t) \/ DeadlinePasses(t)
                                     \/ WaiterStep(t) \/ CancelAsync(t) \/ StrayUnpark(t)
               \/ \E n \in Notifiers : NotifierStep(n)

-----------------------------------------------------------------------------
(* What the properties of the extending modules are made of *)

Entries == Waiters \cup {Dropped}
Places == {"idle", "calling", "locking", "inside", "registered", "head", "asleep",
           "check", "popped", "late", "taking", "waking"}

\* The types of all variables but pc, to whose values the clients add.
CondvarTypes == /\ holder \in Actors \cup {Nobody}
                /\ waiting \in [AllKinds -> Seq(Entries)]
                /\ woken \in [AllKinds -> [Waiters -> BOOLEAN]]
                /\ kind \in [Waiters -> AllKinds \cup {"try"}]
                /\ deadline \in [Waiters -> {"none", "ahead", "passed"}]
                /\ timed_out \in [Waiters -> BOOLEAN]
                /\ how \in [Notifiers -> {"one", "all"}]
                /\ at \in [Notifiers -> AllKinds]
                /\ hand \in [Notifiers -> Seq(Entries)]

\* From the entry in the list to the end of the wait.
InWait(t) == pc[t] \in {"registered", "head", "asleep", "check", "popped", "late"}

InHand(t) == \E n \in Notifiers :
  pc[n] = "waking" /\ at[n] = kind[t] /\ Contains(hand[n], t)

\* Waiting, and nobody has done anything about it.
Forgotten(t) == InWait(t) /\ Queued(t) /\ ~InHand(t) /\ ~woken[kind[t]][t]

\* A sleeper has its wakeup, or somebody has its entry: stale handles, timeouts,
\* and dropped futures of others never take it away.
Registered == \A t \in Waiters : pc[t] \in {"registered", "head", "asleep"} =>
  Queued(t) \/ InHand(t) \/ woken[kind[t]][t]

\* A wait with a deadline ends, notified, timed out, or popped at the last moment.
TimedWaitEnds == \A t \in Waiters :
  InWait(t) /\ deadline[t] # "none" ~> ~InWait(t)
=============================================================================
