--------------------------- MODULE AbstractChannel ---------------------------
(* What a channel promises: messages come out in the order they went in, and *)
(* a receive reports the disconnection only when every message has come out  *)
(* and nobody can send another.  Mpsc implements it.                         *)
EXTENDS Sequences

CONSTANTS Senders, FirstSender

VARIABLES messages,  \* accepted and not yet received, each named after its sender
          senders,   \* the sender handles that exist
          result     \* of the last receive, "none" while there is none

vars == <<messages, senders, result>>

Init == messages = <<>> /\ senders = {FirstSender} /\ result = "none"

Send(s) == /\ s \in senders
           /\ messages' = Append(messages, s)
           /\ UNCHANGED <<senders, result>>

\* A handle makes another one.
Clone(s) == /\ senders # {} /\ s \notin senders
            /\ senders' = senders \cup {s}
            /\ UNCHANGED <<messages, result>>

Drop(s) == /\ s \in senders
           /\ senders' = senders \ {s}
           /\ UNCHANGED <<messages, result>>

\* A receive starts, or its future is dropped.
Ask == result' = "none" /\ UNCHANGED <<messages, senders>>

Receive == /\ messages # <<>>
           /\ result' = Head(messages)
           /\ messages' = Tail(messages)
           /\ UNCHANGED senders

Disconnected == /\ messages = <<>> /\ senders = {}
                /\ result' = "disconnected"
                /\ UNCHANGED <<messages, senders>>

\* try_recv finds nothing, or finds the lock taken; a timed receive gives up.
Fail == result' \in {"empty", "timeout"} /\ UNCHANGED <<messages, senders>>

Next == \/ \E s \in Senders : Send(s) \/ Clone(s) \/ Drop(s)
        \/ Ask \/ Receive \/ Disconnected \/ Fail

Spec == Init /\ [][Next]_vars
=============================================================================
