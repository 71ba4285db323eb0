----------------------------- MODULE MCSpinlock -----------------------------
(* Small instances of Spinlock. *)
EXTENDS Spinlock

CONSTANTS a, b, c   \* threads

Three == {a, b, c}
=============================================================================
