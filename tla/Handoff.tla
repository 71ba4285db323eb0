------------------------------ MODULE Handoff ------------------------------
(* The use a condition variable is made for: a count of items under the      *)
(* mutex.  A waiter takes one, and waits in a *_while loop as long as there  *)
(* is none; a notifier adds one and notifies.                                *)
EXTENDS Condvar

CONSTANTS Notifies,   \* the notifications in use, of {"one", "all"}
          MaxItems    \* the bound of the item count

ASSUME NotifiesAssumption == Notifies \subseteq {"one", "all"}
ASSUME MaxItemsAssumption == MaxItems \in Nat

VARIABLE items   \* the data under the mutex

vars == <<condvar, items>>

Init == CondvarInit /\ pc = [a \in Actors |-> "idle"] /\ items = 0

\* A *_while or *_timeout_while begins with the lock of the mutex.
Begin(t) == Call(t, "locking") /\ UNCHANGED items

\* The condition is false: the client takes an item.
Take(t) == /\ pc[t] = "inside" /\ ~timed_out[t] /\ items > 0
           /\ items' = items - 1
           /\ Leave(t)

\* The condition is true: one more wait.
Wait(t) == /\ pc[t] = "inside" /\ ~timed_out[t] /\ items = 0
           /\ Register(t)
           /\ UNCHANGED items

\* *_timeout_while returns at a timeout, without another look at the condition.
TimedOut(t) == /\ pc[t] = "inside" /\ timed_out[t]
               /\ Leave(t)
               /\ UNCHANGED items

\* A client changes the condition under the mutex, which it has dropped again
\* when it notifies.
Produce(n) == /\ pc[n] = "idle" /\ holder = Nobody /\ items < MaxItems
              /\ items' = items + 1
              /\ \E h \in Notifies : Notify(n, h)
              /\ Goto(n, "taking")
              /\ UNCHANGED holder

ClientStep(t) == Take(t) \/ Wait(t) \/ TimedOut(t)

Next == \/ \E t \in Waiters : ClientStep(t) \/ Begin(t)
        \/ \E n \in Notifiers : Produce(n)
        \/ CondvarNext /\ UNCHANGED items

Spec == Init /\ [][Next]_vars

\* Threads and woken tasks run, time passes, and a free mutex is given to
\* somebody who asks for it: the promise of AbstractLock.
FairSpec == /\ Spec
            /\ \A t \in Waiters : /\ WF_vars((WaiterStep(t) /\ UNCHANGED items) \/ ClientStep(t))
                                  /\ WF_vars(DeadlinePasses(t) /\ UNCHANGED items)
            /\ \A n \in Notifiers : WF_vars(NotifierStep(n) /\ UNCHANGED items)
            /\ WF_vars(\E t \in Waiters : Lock(t) /\ UNCHANGED items)

-----------------------------------------------------------------------------
(* Properties *)

\* Every variable has its type.
TypeOK == CondvarTypes /\ pc \in [Actors -> Places] /\ items \in 0 .. MaxItems

\* notify_all has yet to come to the list of kind k.
ComingTo(k) == \E n \in Notifiers :
  \/ pc[n] = "taking" /\ (at[n] = k \/ at[n] = "spin" \/ k = "async")
  \/ pc[n] = "waking" /\ at[n] # k /\ (at[n] = "spin" \/ k = "async")

\* No lost wakeup with notify_all: while there is an item, nobody waits whom
\* no notifier is going to wake.
NoLostWakeup == \A t \in Waiters :
  Forgotten(t) /\ items > 0 => ComingTo(kind[t])

\* A wait without a deadline lasts for ever only if the items keep running out.
WaitEnds == \A t \in Waiters : <>[]InWait(t) => []<>(items = 0)

\* Woken, or about to be, and not yet back in the loop of its *_while; or just timed
\* out, which nobody can tell from the outside before it has looked.
Coming == {t \in Waiters : \/ InWait(t) /\ ~Forgotten(t)
                           \/ pc[t] \in {"locking", "inside"}}
Notifying == {n \in Notifiers : pc[n] = "taking"}

\* With notify_one: beside a forgotten waiter there are never more items than there
\* are threads on their way to take or to pass one on.  A waiter that has just timed
\* out counts as one on its way, although it may go without an item.
EnoughWakeups == (\E t \in Waiters : Forgotten(t)) =>
  items <= Cardinality(Coming) + Cardinality(Notifying)

\* If threads are waiting, notify_one wakes one of them: the entry it pops is
\* not that of somebody who has long gone.
OneIsWoken == [][\A n \in Notifiers :
  pc[n] = "taking" /\ how[n] = "one" /\ pc'[n] = "waking" /\ (\E t \in Waiters : Forgotten(t))
    => \E t \in Waiters : hand'[n] = <<t>> /\ InWait(t) /\ kind[t] = at[n]]_vars
=============================================================================
