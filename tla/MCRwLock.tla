------------------------------ MODULE MCRwLock ------------------------------
(* Small instances of RwLock. *)
EXTENDS RwLock

CONSTANTS a, b, c   \* actors

Three == {a, b, c}

AllCalls == {"spin", "block", "async"}

=============================================================================
