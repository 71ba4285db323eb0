----------------------------- MODULE MCWorkers ------------------------------
(* A small instance of Workers. *)
EXTENDS Workers

CONSTANTS wx, wy   \* workers

TwoWorkers == {wx, wy}

\* The root spawns wx, and wx spawns wy.  In a browser the root manages both.
Nested == {<<Root, wx>>, <<wx, wy>>}
=============================================================================
