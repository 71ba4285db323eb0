------------------------- MODULE AbstractParkToken -------------------------
(* What parking promises: a thread has one token, unpark makes it available, *)
(* and only the return of a park takes it away.  This is the token the       *)
(* models of the locks use (token, ParkReturn, ParkTimeout, StrayUnpark).    *)

VARIABLES token,    \* the token is available
          parked    \* "no", "park" or "park_timeout": the call that blocks

vars == <<token, parked>>

Init == token = FALSE /\ parked = "no"

\* Anybody, at any time.  Tokens do not add up.
Unpark == token' = TRUE /\ UNCHANGED parked

Park(call) == parked = "no" /\ parked' = call /\ UNCHANGED token

\* A park that ends consumes the token.
Return == /\ parked # "no" /\ token
          /\ parked' = "no"
          /\ token' = FALSE

\* A timed park may also end with the token as it is: out of time, or woken
\* and leaving the token to the next park.
TimedReturn == /\ parked = "park_timeout"
               /\ parked' = "no"
               /\ UNCHANGED token

\* Blocking is not possible in this context: the park panics.
Refuse == /\ parked # "no"
          /\ parked' = "no"
          /\ UNCHANGED token

Next == \/ Unpark
        \/ \E call \in {"park", "park_timeout"} : Park(call)
        \/ Return \/ TimedReturn \/ Refuse

\* A thread that can take its token does not stay parked.
Spec == Init /\ [][Next]_vars /\ WF_vars(Return)
SafeSpec == Init /\ [][Next]_vars
=============================================================================
