-------------------------------- MODULE Mpsc --------------------------------
(* The channel: a queue under the mutex, the condition variable its receiver *)
(* waits on, and two atomics outside of the mutex that count the senders and *)
(* tell them whether the receiver is there.  A sender handle is used by one  *)
(* thread at a time, the receiver by one receive at a time.                  *)
EXTENDS Condvar

CONSTANTS Senders, FirstSender,  \* sender handles, and the one channel() makes
          Receiver,              \* the receiver, the only one that waits
          LastDrop,              \* the thread that notifies in the last Sender::drop
          ReceiverDrop,          \* the one that notifies in Receiver::drop
          MaxMessages            \* the bound of the queue

ASSUME SendersAssumption == FirstSender \in Senders /\ IsFiniteSet(Senders)
ASSUME RolesAssumption == /\ Waiters = {Receiver}
                          /\ Notifiers = Senders \cup {LastDrop, ReceiverDrop}
                          /\ {LastDrop, ReceiverDrop} \cap Senders = {}
                          /\ LastDrop # ReceiverDrop
ASSUME MaxMessagesAssumption == MaxMessages \in Nat

VARIABLES queue,            \* Shared.queue: each message named after its sender
          sender_count,     \* Shared.sender_count
          receiver_active,  \* Shared.receiver_active
          result            \* what the receiver's last call returned

shared == <<queue, sender_count, receiver_active>>
vars == <<condvar, shared, result>>

\* channel(): every other handle comes from a clone.
Init == /\ CondvarInit
        /\ pc = [a \in Actors |-> IF a \in Senders \ {FirstSender} THEN "unborn" ELSE "idle"]
        /\ queue = <<>>
        /\ sender_count = 1
        /\ receiver_active = TRUE
        /\ result = "none"

(* -------------------------------- senders ------------------------------- *)

\* Mutant: the clone shares the channel and does not count itself.
CloneUncounted(s, u) == /\ pc[s] = "idle" /\ pc[u] = "unborn"
                        /\ Goto(u, "idle")
                        /\ UNCHANGED <<holder, waiting, woken, call, notes, shared, result>>

Clone(s, u) == /\ pc[s] = "idle" /\ pc[u] = "unborn"
               /\ sender_count' = sender_count + 1
               /\ Goto(u, "idle")
               /\ UNCHANGED <<holder, waiting, woken, call, notes, queue, receiver_active, result>>

\* Sender::drop, which does not take the mutex: the last one notifies.
DropSender(s) ==
  /\ pc[s] = "idle"
  /\ sender_count' = sender_count - 1
  /\ IF sender_count = 1
     THEN /\ pc' = [pc EXCEPT ![s] = "dropped", ![LastDrop] = "taking"]
          /\ Notify(LastDrop, "all")
     ELSE Goto(s, "dropped") /\ UNCHANGED <<waiting, woken, call, notes>>
  /\ UNCHANGED <<holder, queue, receiver_active, result>>

\* send_*: the first look at receiver_active.  Without a receiver it is an
\* error, which changes nothing.
Send(s) == /\ pc[s] = "idle" /\ receiver_active /\ Len(queue) < MaxMessages
           /\ Goto(s, "calling")
           /\ UNCHANGED <<holder, waiting, woken, call, notes, shared, result>>

\* The future of send_async is dropped before it has the mutex.
CancelSend(s) == /\ MayCancel /\ pc[s] = "calling"
                 /\ Goto(s, "idle")
                 /\ UNCHANGED <<holder, waiting, woken, call, notes, shared, result>>

\* Mutant: the push does not wait for the mutex.
SendLockUnchecked(s) == /\ pc[s] = "calling"
                        /\ holder' = s
                        /\ Goto(s, "inside")
                        /\ UNCHANGED <<waiting, woken, call, notes, shared, result>>

SendLock(s) == /\ pc[s] = "calling" /\ holder = Nobody
               /\ holder' = s
               /\ Goto(s, "inside")
               /\ UNCHANGED <<waiting, woken, call, notes, shared, result>>

\* Mutant: the queue changes and nobody is told.
PushSilent(s) == /\ pc[s] = "inside"
                 /\ holder' = Nobody
                 /\ queue' = Append(queue, s)
                 /\ Goto(s, "idle")
                 /\ UNCHANGED <<waiting, woken, call, notes, sender_count, receiver_active, result>>

\* The second look, the push, the end of the guard, and notify_one.
Push(s) == /\ pc[s] = "inside"
           /\ holder' = Nobody
           /\ IF receiver_active
              THEN queue' = Append(queue, s) /\ Notify(s, "one") /\ Goto(s, "taking")
              ELSE Goto(s, "idle") /\ UNCHANGED <<queue, waiting, woken, call, notes>>
           /\ UNCHANGED <<sender_count, receiver_active, result>>

(* ------------------------------- receiver ------------------------------- *)

\* recv_*: the deadline is one for the lock and for the waits.
Recv == /\ receiver_active
        /\ Call(Receiver, "calling")
        /\ result' = "none"
        /\ UNCHANGED shared

\* try_recv: try_lock, and Empty if somebody has the lock.
TryRecv == /\ receiver_active /\ pc[Receiver] = "idle"
           /\ IF holder = Nobody
              THEN /\ holder' = Receiver
                   /\ kind' = [kind EXCEPT ![Receiver] = "try"]
                   /\ Goto(Receiver, "inside")
                   /\ result' = "none"
              ELSE result' = "empty" /\ UNCHANGED <<holder, kind, pc>>
           /\ UNCHANGED <<waiting, woken, deadline, timed_out, notes, shared>>

\* lock_*_timeout returns None.
LockTimesOut == /\ pc[Receiver] = "calling" /\ deadline[Receiver] = "passed"
                /\ Return(Receiver)
                /\ result' = "timeout"
                /\ UNCHANGED <<holder, waiting, woken, notes, shared>>

PopFront == /\ pc[Receiver] = "inside" /\ ~timed_out[Receiver] /\ queue # <<>>
            /\ result' = Head(queue)
            /\ queue' = Tail(queue)
            /\ Leave(Receiver)
            /\ UNCHANGED <<sender_count, receiver_active>>

\* The wait has timed out: no more looks at the queue.
WaitTimedOut == /\ pc[Receiver] = "inside" /\ timed_out[Receiver]
                /\ result' = "timeout"
                /\ Leave(Receiver)
                /\ UNCHANGED shared

NothingThere == /\ pc[Receiver] = "inside" /\ ~timed_out[Receiver] /\ queue = <<>>
                /\ Goto(Receiver, "counting")
                /\ UNCHANGED <<holder, waiting, woken, call, notes, shared, result>>

\* The count is read with the mutex held, but it changes without the mutex.
ReadCount ==
  /\ pc[Receiver] = "counting"
  /\ \/ sender_count = 0 /\ result' = "disconnected" /\ Leave(Receiver)
     \/ sender_count # 0 /\ kind[Receiver] = "try" /\ result' = "empty" /\ Leave(Receiver)
     \/ /\ sender_count # 0 /\ kind[Receiver] # "try"
        /\ Goto(Receiver, "registering")
        /\ UNCHANGED <<holder, waiting, woken, call, notes, result>>
  /\ UNCHANGED shared

\* The condvar's wait_* begins.
StartWait == /\ pc[Receiver] = "registering"
             /\ Register(Receiver)
             /\ UNCHANGED <<shared, result>>

\* Receiver::drop.
DropReceiver == /\ pc[Receiver] = "idle" /\ receiver_active
                /\ receiver_active' = FALSE
                /\ pc' = [pc EXCEPT ![Receiver] = "dropped", ![ReceiverDrop] = "taking"]
                /\ Notify(ReceiverDrop, "all")
                /\ UNCHANGED <<holder, queue, sender_count, result>>

ReceiverStep == PopFront \/ WaitTimedOut \/ NothingThere \/ ReadCount \/ StartWait

Next == \/ \E s \in Senders : \/ \E u \in Senders : Clone(s, u)
                              \/ DropSender(s) \/ Send(s) \/ CancelSend(s)
                              \/ SendLock(s) \/ Push(s)
        \/ Recv \/ TryRecv \/ LockTimesOut \/ DropReceiver \/ ReceiverStep
        \/ CondvarNext /\ UNCHANGED <<shared, result>>

Spec == Init /\ [][Next]_vars

\* Threads and woken tasks run, time passes, and a free mutex is given to
\* somebody who asks for it.  Nobody has to send, receive or drop anything.
FairSpec ==
  /\ Spec
  /\ WF_vars(ReceiverStep \/ (WaiterStep(Receiver) /\ UNCHANGED <<shared, result>>))
  /\ WF_vars(DeadlinePasses(Receiver) /\ UNCHANGED <<shared, result>>)
  /\ \A s \in Senders : WF_vars(Push(s))
  /\ \A n \in Notifiers : WF_vars(NotifierStep(n) /\ UNCHANGED <<shared, result>>)
  /\ WF_vars(\/ Lock(Receiver) /\ UNCHANGED <<shared, result>>
             \/ \E s \in Senders : SendLock(s))

-----------------------------------------------------------------------------
(* Properties *)

\* The handles that have not been dropped.
Alive == {s \in Senders : pc[s] \notin {"unborn", "dropped"}}

\* Every variable has its type.
TypeOK == /\ CondvarTypes
          /\ pc \in [Actors -> Places \cup {"unborn", "dropped", "counting", "registering"}]
          /\ queue \in Seq(Senders)
          /\ sender_count \in 0 .. Cardinality(Senders)
          /\ receiver_active \in BOOLEAN
          /\ result \in Senders \cup {"none", "empty", "timeout", "disconnected"}

Abs == INSTANCE AbstractChannel WITH messages <- queue, senders <- Alive

\* The channel implements the abstract one: no message is lost or overtaken,
\* and Disconnected is said only when all have come out and no sender is left,
\* although the queue and the count are read one after the other.
ImplementsChannel == Abs!Spec

\* A notification that comes to the list of kind k, if it finds the lists before it empty.
OnItsWay(n, k) == /\ at[n] \in {"spin", k} \/ k = "async"
                  /\ \/ pc[n] = "taking"
                     \/ pc[n] = "waking" /\ how[n] = "all" /\ at[n] # k

\* The thread of the receiver is unparked.
Unparked == \/ woken["block"][Receiver]
            \/ \E n \in Notifiers :
                 pc[n] = "waking" /\ at[n] = "block" /\ Contains(hand[n], Receiver)

\* Beside a message the receiver does not wait without a notification on its way to it, in
\* whatever order senders push, receives register, time out and are dropped.  Two kinds of
\* receive are excepted: an async one whose thread is unparked instead, since an entry that an
\* earlier blocking one left behind has taken its notification, and every timed blocking one,
\* which may take such an entry for its own, and which its deadline ends.
MessageTold == Forgotten(Receiver) /\ queue # <<>> =>
  \/ \E n \in Notifiers : OnItsWay(n, kind[Receiver])
  \/ kind[Receiver] = "async" /\ Unparked
  \/ kind[Receiver] = "block" /\ deadline[Receiver] # "none"

\* A receiver never sleeps for ever beside a message.  The one exception: the
\* unpark meant for it has gone to its thread (an entry an earlier blocking
\* receive left behind), while its task waits.
MessageReceived ==
  <>[](InWait(Receiver) /\ queue # <<>>) =>
    <>[](kind[Receiver] = "async" /\ woken["block"][Receiver])

\* The receiver that has registered before the last sender is gone is woken.
DisconnectWakes ==
  pc[LastDrop] = "taking" /\ at[LastDrop] = "spin" /\ InWait(Receiver) ~> ~InWait(Receiver)

\* When the channel is disconnected, a receive comes back.
DisconnectSeen == sender_count = 0 /\ InWait(Receiver) ~> ~InWait(Receiver)
=============================================================================
