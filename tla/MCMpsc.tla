------------------------------- MODULE MCMpsc -------------------------------
(* Small instances of Mpsc. *)
EXTENDS Mpsc

CONSTANTS a, b, r, ld, rd   \* two senders, the receiver, the two drops

TwoSenders == {a, b}
OneWaiter == {r}
AllNotifiers == {a, b, ld, rd}
BlockOnly == {"block"}
NoneTimed == {}
=============================================================================
