-------------------------- MODULE AbstractThreads ---------------------------
(* What spawn and join promise: a closure ends at most once, and whoever     *)
(* asks the handle is told how it ended, once, and not before.  Threads (on  *)
(* the standard library) and Workers (on wasm) implement it.                 *)
CONSTANTS Threads,
          FailsIn,   \* what the closure may be at when a join that waits fails
          MayRefuse  \* there is a thread that may not block, and no join for it

VARIABLES life,    \* "unborn", "running", "ok", "err" or "lost": the closure
          answer   \* "none", "asked", "ok", "err", "failed" or "dropped": the handle

vars == <<life, answer>>

Init == /\ life = [t \in Threads |-> "unborn"]
        /\ answer = [t \in Threads |-> "none"]

Spawn(t) == /\ life[t] = "unborn"
            /\ life' = [life EXCEPT ![t] = "running"]
            /\ UNCHANGED answer

\* The closure returns, panics with its panic caught, or is lost with its
\* result: nothing will be sent.
End(t) == /\ life[t] = "running"
          /\ \E r \in {"ok", "err", "lost"} : life' = [life EXCEPT ![t] = r]
          /\ UNCHANGED answer

Ask(t) == /\ life[t] # "unborn" /\ answer[t] = "none"
          /\ answer' = [answer EXCEPT ![t] = "asked"]
          /\ UNCHANGED life

\* The answer is the truth.
Answer(t) == /\ answer[t] = "asked" /\ life[t] \in {"ok", "err"}
             /\ answer' = [answer EXCEPT ![t] = life[t]]
             /\ UNCHANGED life

\* The handle has no result to give, or keeps it back.
Fail(t) == /\ answer[t] = "asked" /\ life[t] \in FailsIn
           /\ answer' = [answer EXCEPT ![t] = "failed"]
           /\ UNCHANGED life

\* A join by a thread that may not block fails at once.
Refuse(t) == /\ MayRefuse /\ life[t] # "unborn" /\ answer[t] = "none"
             /\ answer' = [answer EXCEPT ![t] = "failed"]
             /\ UNCHANGED life

\* The handle, or the future that asks, is dropped.
Drop(t) == /\ life[t] # "unborn" /\ answer[t] \in {"none", "asked"}
           /\ answer' = [answer EXCEPT ![t] = "dropped"]
           /\ UNCHANGED life

Next == \E t \in Threads : \/ Spawn(t) \/ End(t) \/ Ask(t) \/ Answer(t)
                           \/ Fail(t) \/ Refuse(t) \/ Drop(t)

Spec == Init /\ [][Next]_vars
=============================================================================
