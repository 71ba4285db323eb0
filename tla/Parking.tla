------------------------------ MODULE Parking ------------------------------
(* Parking on wasm: one word per thread, parking_state, that unpark stores   *)
(* to and Atomics.wait sleeps on.  A word is waited on by its thread alone;  *)
(* anybody with a Thread handle may unpark it.  Atomics.wait compares and    *)
(* goes to sleep in one step; everything around it is a step of its own.     *)
EXTENDS Naturals, FiniteSets

CONSTANTS Unparkers,   \* calls of unpark that overlap
          MaxUnparks   \* the bound of the calls of unpark

ASSUME UnparkersAssumption == IsFiniteSet(Unparkers)
ASSUME MaxUnparksAssumption == MaxUnparks \in Nat

VARIABLES parking_state, \* ThreadInner.parking_state
          may_wait,      \* Atomics.wait works in this context: not a browser's main thread
          pc,            \* where the thread is
          timed,         \* it is inside park_timeout
          notifying,     \* unparkers between their store and their notify
          unparks,       \* how many calls of unpark there were
          early          \* how many parks have ended other than by their timeout

counts == <<unparks, early>>
vars == <<parking_state, may_wait, pc, timed, notifying, counts>>

Init == /\ parking_state = 0
        /\ may_wait \in BOOLEAN
        /\ pc = "running"
        /\ timed = FALSE
        /\ notifying = {}
        /\ unparks = 0 /\ early = 0

(* ------------------------------- the thread ----------------------------- *)

\* Mutant: the word is reset at the start.
ParkResets == /\ pc = "running"
              /\ pc' = "trying"
              /\ timed' \in BOOLEAN
              /\ parking_state' = 0
              /\ UNCHANGED <<may_wait, notifying, counts>>

\* park or park_timeout is called.
Park == /\ pc = "running"
        /\ pc' = "trying"
        /\ timed' \in BOOLEAN
        /\ UNCHANGED <<parking_state, may_wait, notifying, counts>>

ReturnEarly == pc' = "running" /\ early' = early + 1

\* Mutant: a pending token is only looked at.
LookForToken == /\ pc = "trying"
                /\ \/ parking_state = 1 /\ ReturnEarly
                   \/ parking_state = 0 /\ pc' = "waiting" /\ UNCHANGED early
                /\ UNCHANGED <<parking_state, may_wait, timed, notifying, unparks>>

\* compareExchange(1, 0): a pending token is consumed without sleeping.
TryToken == /\ pc = "trying"
            /\ \/ /\ parking_state = 1
                  /\ parking_state' = 0
                  /\ ReturnEarly
               \/ /\ parking_state = 0
                  /\ pc' = "waiting"
                  /\ UNCHANGED <<parking_state, early>>
            /\ UNCHANGED <<may_wait, timed, notifying, unparks>>

\* Mutant: the wait does not compare, as if it were entered after a plain load.
WaitBlindly == /\ pc = "waiting" /\ may_wait
               /\ pc' = "asleep"
               /\ UNCHANGED <<parking_state, may_wait, timed, notifying, counts>>

\* Atomics.wait(word, 0) either sleeps or returns "not-equal".  Only park
\* consumes the token of a "not-equal"; park_timeout leaves it there.
Wait == /\ pc = "waiting" /\ may_wait
        /\ \/ parking_state = 0 /\ pc' = "asleep" /\ UNCHANGED early
           \/ parking_state = 1 /\ ~timed /\ pc' = "woken" /\ UNCHANGED early
           \/ parking_state = 1 /\ timed /\ ReturnEarly
        /\ UNCHANGED <<parking_state, may_wait, timed, notifying, unparks>>

\* Atomics.wait throws: "unsupported", and park panics.
Unsupported == /\ pc = "waiting" /\ ~may_wait
               /\ pc' = "panicked"
               /\ UNCHANGED <<parking_state, may_wait, timed, notifying, counts>>

\* "timed-out" leaves the word as it is, even if it has just been set.
TimeOut == /\ pc = "asleep" /\ timed
           /\ pc' = "running"
           /\ UNCHANGED <<parking_state, may_wait, timed, notifying, counts>>

\* Woken: the token is consumed, and with it any that came in since.
Consume == /\ pc = "woken"
           /\ parking_state' = 0
           /\ ReturnEarly
           /\ UNCHANGED <<may_wait, timed, notifying, unparks>>

(* ------------------------------ the unparkers --------------------------- *)

\* Thread::unpark: the store, ...
Unpark(u) == /\ u \notin notifying /\ unparks < MaxUnparks
             /\ parking_state' = 1
             /\ notifying' = notifying \cup {u}
             /\ unparks' = unparks + 1
             /\ UNCHANGED <<may_wait, pc, timed, early>>

\* ... then the notify, which may find nobody, or the sleeper of a later park.
Notify(u) == /\ u \in notifying
             /\ notifying' = notifying \ {u}
             /\ pc' = IF pc = "asleep" THEN "woken" ELSE pc
             /\ UNCHANGED <<parking_state, may_wait, timed, counts>>

ThreadStep == TryToken \/ Wait \/ Unsupported \/ Consume

Next == \/ Park \/ ThreadStep \/ TimeOut
        \/ \E u \in Unparkers : Unpark(u) \/ Notify(u)

Spec == Init /\ [][Next]_vars

\* Threads run.  Nobody has to park, unpark, or run out of time.
FairSpec == Spec /\ WF_vars(ThreadStep) /\ \A u \in Unparkers : WF_vars(Notify(u))

-----------------------------------------------------------------------------
(* Properties *)

\* Every variable has its type.
TypeOK == /\ parking_state \in 0 .. 1
          /\ may_wait \in BOOLEAN
          /\ pc \in {"running", "trying", "waiting", "asleep", "woken", "panicked"}
          /\ timed \in BOOLEAN
          /\ notifying \subseteq Unparkers
          /\ unparks \in Nat /\ early \in Nat

\* The token a park can still end with: set, or already handed to the sleeper.
Token == parking_state = 1 \/ pc = "woken"

Parked == CASE pc \in {"running", "panicked"} -> "no"
            [] pc \notin {"running", "panicked"} /\ timed -> "park_timeout"
            [] OTHER -> "park"

Abs == INSTANCE AbstractParkToken WITH token <- Token, parked <- Parked

\* The word implements the token: no unpark is lost but to the return of a
\* park, although the store, the wait and the two ways of consuming are
\* separate accesses.  A late notify counts as an unpark.
ImplementsToken == Abs!SafeSpec

\* ... and a thread whose token is available does not sleep on.
ImplementsLiveToken == Abs!Spec

\* A sleeper with its token set is about to be notified.
SleeperNotified == pc = "asleep" /\ parking_state = 1 => notifying # {}

\* What the parks to come can still be ended by.
Endings == Cardinality(notifying) +
  CASE pc = "woken" -> 1
    [] pc = "waiting" -> 2 * parking_state
    [] OTHER -> parking_state

\* One unpark ends at most three parks: by "not-equal" in park_timeout, then by
\* the token that leaves behind, then by its notify.  So the locks' loops around
\* park cannot spin on what one unpark left behind.
FewReturns == early + Endings <= 3 * unparks
=============================================================================
