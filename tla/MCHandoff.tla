----------------------------- MODULE MCHandoff -----------------------------
(* Small instances of Handoff. *)
EXTENDS Handoff

CONSTANTS a, b, c, n   \* waiters and notifiers

TwoWaiters == {a, b}
ThreeWaiters == {a, b, c}
OneNotifier == {n}

AllOnly == {"all"}
OneOnly == {"one"}
SpinOnly == {"spin"}
BlockOnly == {"block"}
=============================================================================
