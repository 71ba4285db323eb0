----------------------------- MODULE MCThreads ------------------------------
(* A small instance of Threads. *)
EXTENDS Threads

CONSTANTS tx,       \* a thread
          main,     \* the thread that spawns it
          n1, n2,   \* names of hooks
          f1, f2    \* functions of hooks

OneThread == {tx}
OneClient == {main}
TwoNames == {n1, n2}
TwoFns == {f1, f2}
=============================================================================
