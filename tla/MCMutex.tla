------------------------------ MODULE MCMutex ------------------------------
(* Small instances of Mutex. *)
EXTENDS Mutex

CONSTANTS a, b, c   \* actors

Three == {a, b, c}

AllCalls == {"spin", "block", "async"}
AnyLimit == {"none", "ahead"}

=============================================================================
