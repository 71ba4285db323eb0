---------------------------- MODULE AbstractLock ----------------------------
(* What a mutex promises its users, whatever it does inside: at most one     *)
(* actor holds it, a caller waits until it gets the lock, and without the    *)
(* lock it comes back only after its deadline.  A future that is dropped     *)
(* does not come back at all, and a None is never taken for one.  Mutex      *)
(* implements this specification.                                            *)
CONSTANTS Actors,
          MayCancel,    \* futures may be dropped
          EarlyTimers   \* an awaited call may fail before its deadline

VARIABLES holders,   \* the actors that own a guard
          asking,    \* [Actors -> {"no", "call", "future", "dropped"}]
          deadline   \* [Actors -> {"none", "ahead", "passed"}]

vars == <<holders, asking, deadline>>

Init == /\ holders = {}
        /\ asking = [t \in Actors |-> "no"]
        /\ deadline = [t \in Actors |-> "none"]

\* An actor starts to wait, in a call or by awaiting a future.
Ask(t, how, limit) == /\ asking[t] \in {"no", "dropped"} /\ t \notin holders
                      /\ asking' = [asking EXCEPT ![t] = how]
                      /\ deadline' = [deadline EXCEPT ![t] = limit]
                      /\ UNCHANGED holders

DeadlinePasses(t) == /\ deadline[t] = "ahead"
                     /\ deadline' = [deadline EXCEPT ![t] = "passed"]
                     /\ UNCHANGED <<holders, asking>>

\* Nobody holds the lock: an actor that asked, or one that just tries, gets it.
Acquire(t) == /\ holders = {}
              /\ holders' = {t}
              /\ asking' = [asking EXCEPT ![t] = "no"]
              /\ deadline' = [deadline EXCEPT ![t] = "none"]

\* Asks and has not dropped its future.
Waits(t) == asking[t] \in {"call", "future"}

\* A timed call fails, but not before its deadline, unless it is awaited and
\* its timer is early.
GiveUp(t) == /\ Waits(t)
             /\ \/ deadline[t] = "passed"
                \/ EarlyTimers /\ asking[t] = "future" /\ deadline[t] = "ahead"
             /\ asking' = [asking EXCEPT ![t] = "no"]
             /\ deadline' = [deadline EXCEPT ![t] = "none"]
             /\ UNCHANGED holders

\* A future is dropped at an await point, and gives no answer.
Cancel(t) == /\ MayCancel
             /\ asking[t] = "future"
             /\ asking' = [asking EXCEPT ![t] = "dropped"]
             /\ deadline' = [deadline EXCEPT ![t] = "none"]
             /\ UNCHANGED holders

Release(t) == /\ t \in holders
              /\ holders' = holders \ {t}
              /\ UNCHANGED <<asking, deadline>>

Next == \E t \in Actors :
          \/ \E how \in {"call", "future"}, limit \in {"none", "ahead"} :
                Ask(t, how, limit)
          \/ DeadlinePasses(t)
          \/ Acquire(t)
          \/ GiveUp(t)
          \/ Cancel(t)
          \/ Release(t)

SafeSpec == Init /\ [][Next]_vars

\* A free lock that somebody keeps asking for is taken in the end.
Served == \E t \in Actors : Waits(t) /\ Acquire(t)

Spec == SafeSpec /\ WF_vars(Served)
=============================================================================
