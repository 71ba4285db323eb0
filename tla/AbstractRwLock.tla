--------------------------- MODULE AbstractRwLock ---------------------------
(* What a readers-writer lock promises: any number of readers or one writer, *)
(* and a caller waits until it is let in.  RwLock implements it.             *)
CONSTANT Actors

VARIABLES readers,   \* the actors that own a ReadGuard
          writers,   \* the actors that own a WriteGuard
          asking     \* [Actors -> {"no", "read", "write"}]

vars == <<readers, writers, asking>>

Init == /\ readers = {}
        /\ writers = {}
        /\ asking = [t \in Actors |-> "no"]

Ask(t, m) == /\ asking[t] = "no" /\ t \notin readers \cup writers
             /\ asking' = [asking EXCEPT ![t] = m]
             /\ UNCHANGED <<readers, writers>>

EnterRead(t) == /\ writers = {}
                /\ readers' = readers \cup {t}
                /\ asking' = [asking EXCEPT ![t] = "no"]
                /\ UNCHANGED writers

EnterWrite(t) == /\ readers = {} /\ writers = {}
                 /\ writers' = {t}
                 /\ asking' = [asking EXCEPT ![t] = "no"]
                 /\ UNCHANGED readers

\* A caller goes away without the lock: its future is dropped, or the call
\* panics because there are too many readers.
Withdraw(t) == /\ asking[t] # "no"
               /\ asking' = [asking EXCEPT ![t] = "no"]
               /\ UNCHANGED <<readers, writers>>

Leave(t) == /\ t \in readers \cup writers
            /\ readers' = readers \ {t}
            /\ writers' = writers \ {t}
            /\ UNCHANGED asking

Next == \E t \in Actors : \/ \E m \in {"read", "write"} : Ask(t, m)
                          \/ EnterRead(t) \/ EnterWrite(t)
                          \/ Withdraw(t) \/ Leave(t)

SafeSpec == Init /\ [][Next]_vars

\* While no writer is inside, a reader that asks is let in; a lock that stays
\* free is given to somebody that asks.
Served == /\ WF_vars(\E t \in Actors : asking[t] = "read" /\ EnterRead(t))
          /\ WF_vars(\E t \in Actors : asking[t] = "write" /\ EnterWrite(t))

Spec == SafeSpec /\ Served
=============================================================================
