------------------------------ MODULE Spinlock ------------------------------
(* Spinlock::with_mut: swap until the flag was clear, run the closure on the *)
(* data, clear the flag.  The closure reads the data and writes it back in   *)
(* two steps, so that a second closure inside would lose an update.          *)
EXTENDS Naturals

CONSTANTS Threads,
          MayPanic,   \* closures may panic
          Modulus     \* the data is a counter modulo this

ASSUME ModulusAssumption == Modulus \in Nat \ {0}
ASSUME MayPanicAssumption == MayPanic \in BOOLEAN

VARIABLES locked,   \* Spinlock.locked
          data,     \* Spinlock.data
          pc,       \* where each thread is
          seen,     \* what the closure of each thread read
          updates   \* closures that have updated the data, modulo Modulus

vars == <<locked, data, pc, seen, updates>>

Init == /\ locked = FALSE
        /\ data = 0
        /\ pc = [t \in Threads |-> "idle"]
        /\ seen = [t \in Threads |-> 0]
        /\ updates = 0

Goto(t, l) == pc' = [pc EXCEPT ![t] = l]

Call(t) == /\ pc[t] = "idle"
           /\ Goto(t, "spinning")
           /\ UNCHANGED <<locked, data, seen, updates>>

\* Mutant: a load and a store for the swap.
SwapUnchecked(t) == /\ pc[t] = "spinning"
                    /\ locked' = TRUE
                    /\ Goto(t, "reading")
                    /\ UNCHANGED <<data, seen, updates>>

\* locked.swap(true) returned false.  A swap that returns true changes nothing.
Swap(t) == /\ pc[t] = "spinning"
           /\ ~locked
           /\ locked' = TRUE
           /\ Goto(t, "reading")
           /\ UNCHANGED <<data, seen, updates>>

\* Mutant: the store comes before the closure is done.
ReadReleasing(t) == /\ pc[t] = "reading"
                    /\ seen' = [seen EXCEPT ![t] = data]
                    /\ locked' = FALSE
                    /\ Goto(t, "writing")
                    /\ UNCHANGED <<data, updates>>

\* The closure f(&mut *data) ...
Read(t) == /\ pc[t] = "reading"
           /\ seen' = [seen EXCEPT ![t] = data]
           /\ Goto(t, "writing")
           /\ UNCHANGED <<locked, data, updates>>

Write(t) == /\ pc[t] = "writing"
            /\ data' = (seen[t] + 1) % Modulus
            /\ updates' = (updates + 1) % Modulus
            /\ Goto(t, "leaving")
            /\ UNCHANGED <<locked, seen>>

\* ... which may also unwind: nothing between the swap and the store has a
\* destructor, so the flag stays set.  The thread calls no more.
Panic(t) == /\ MayPanic
            /\ pc[t] \in {"reading", "writing"}
            /\ Goto(t, "unwound")
            /\ UNCHANGED <<locked, data, seen, updates>>

\* Mutant: an early return that skips the store.
LeaveLocked(t) == /\ pc[t] = "leaving"
                  /\ Goto(t, "idle")
                  /\ UNCHANGED <<locked, data, seen, updates>>

\* locked.store(false)
Leave(t) == /\ pc[t] = "leaving"
            /\ locked' = FALSE
            /\ Goto(t, "idle")
            /\ UNCHANGED <<data, seen, updates>>

Step(t) == Swap(t) \/ Read(t) \/ Write(t) \/ Leave(t)

Next == \E t \in Threads : Call(t) \/ Step(t) \/ Panic(t)

Spec == Init /\ [][Next]_vars

FairSpec == Spec /\ \A t \in Threads : WF_vars(Step(t))

-----------------------------------------------------------------------------
(* Properties *)

Inside(t) == pc[t] \in {"reading", "writing", "leaving"}

\* Every variable has its type.
TypeOK == /\ locked \in BOOLEAN
          /\ data \in 0 .. Modulus - 1
          /\ pc \in [Threads -> {"idle", "spinning", "reading", "writing", "leaving",
                                 "unwound"}]
          /\ seen \in [Threads -> 0 .. Modulus - 1]
          /\ updates \in 0 .. Modulus - 1

\* Has set the flag and not cleared it.
Owns(t) == Inside(t) \/ pc[t] = "unwound"

\* The flag is set exactly while a thread is inside or has unwound there, and
\* two never are.
MutualExclusion ==
  /\ locked <=> \E t \in Threads : Owns(t)
  /\ \A t, u \in Threads : Owns(t) /\ Owns(u) => t = u

\* No update made by a closure is overwritten by another one.
NoLostUpdate == data = updates

\* A closure works on the current data.
ReadIsCurrent == \A t \in Threads : pc[t] = "writing" => seen[t] = data

IndInv == TypeOK /\ MutualExclusion /\ ReadIsCurrent /\ NoLostUpdate

\* A thread spins for ever only while others keep taking the lock, or because a
\* closure has panicked: with_mut does not release the lock then, although its
\* doc says so.
OnlyOvertaking == \A t \in Threads :
  <>[](pc[t] = "spinning") => \/ []<>(\E u \in Threads \ {t} : Inside(u))
                              \/ <>(\E u \in Threads : pc[u] = "unwound")
=============================================================================
