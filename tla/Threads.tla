------------------------------ MODULE Threads -------------------------------
(* Threads on the standard library: spawn, which runs the spawn hooks and    *)
(* then the closure with its panic caught, and the handle, which is the      *)
(* receiver of the channel the result goes through.                          *)
EXTENDS SpawnHooks

VARIABLES pc,      \* where each thread is
          result,  \* how its closure ended: "none", "ok" or "err"
          sent,    \* what the channel holds: "none", "ok" or "err"
          handle,  \* "none", "held", "joining" or "gone"
          outcome  \* "none", "ok", "err", "panicked" or "dropped": what became of the handle

thread == <<pc, result, sent, handle, outcome>>
vars == <<registry, thread>>

Init == /\ HooksInit
        /\ pc = [t \in Threads |-> "unborn"]
        /\ result = [t \in Threads |-> "none"]
        /\ sent = [t \in Threads |-> "none"]
        /\ handle = [t \in Threads |-> "none"]
        /\ outcome = [t \in Threads |-> "none"]

Goto(t, l) == pc' = [pc EXCEPT ![t] = l]

(* ------------------------------ the thread ------------------------------ *)

\* spawn: the channel, the thread and the handle.  The thread starts with
\* run_spawn_hooks.
Spawn(t) == /\ pc[t] = "unborn"
            /\ Goto(t, "hooks")
            /\ request' = [request EXCEPT ![t] = Copy]
            /\ handle' = [handle EXCEPT ![t] = "held"]
            /\ UNCHANGED <<hooks, holder, copy, ran, changes, result, sent, outcome>>

RunHook(t) == /\ pc[t] = "hooks" /\ NextHook(t)
              /\ Goto(t, "in_hook")
              /\ UNCHANGED <<result, sent, handle, outcome>>

\* A hook or the closure calls the registry itself.
Reenter(t) == /\ pc[t] \in {"in_hook", "closure"}
              /\ AskChange(t)
              /\ UNCHANGED thread

HookReturns(t) == /\ pc[t] = "in_hook" /\ request[t] = Nothing
                  /\ Goto(t, "hooks")
                  /\ UNCHANGED <<registry, result, sent, handle, outcome>>

\* Nothing catches the panic of a hook: the sender goes with the closure.
HookPanics(t) == /\ pc[t] = "in_hook" /\ request[t] = Nothing
                 /\ Goto(t, "unsent")
                 /\ UNCHANGED <<registry, result, sent, handle, outcome>>

BeginClosure(t) == /\ pc[t] = "hooks" /\ request[t] = Nothing
                   /\ ran[t] = Len(copy[t])
                   /\ Goto(t, "closure")
                   /\ UNCHANGED <<registry, result, sent, handle, outcome>>

\* Mutant: the panic of a closure is not caught.
ClosureEndsUncaught(t) ==
  /\ pc[t] = "closure" /\ request[t] = Nothing
  /\ \E r \in {"ok", "err"} : /\ result' = [result EXCEPT ![t] = r]
                              /\ Goto(t, IF r = "ok" THEN "ended" ELSE "unsent")
  /\ UNCHANGED <<registry, sent, handle, outcome>>

\* catch_unwind: the closure returns or panics.
ClosureEnds(t) == /\ pc[t] = "closure" /\ request[t] = Nothing
                  /\ \E r \in {"ok", "err"} : result' = [result EXCEPT ![t] = r]
                  /\ Goto(t, "ended")
                  /\ UNCHANGED <<registry, sent, handle, outcome>>

\* Mutant: the result is always that of a closure that returned.
SendOk(t) == /\ pc[t] = "ended"
             /\ sent' = [sent EXCEPT ![t] = IF handle[t] = "gone" THEN @ ELSE "ok"]
             /\ Goto(t, "sent")
             /\ UNCHANGED <<registry, result, handle, outcome>>

\* send_sync; without a receiver it is an error that nobody looks at.
Send(t) == /\ pc[t] = "ended"
           /\ sent' = [sent EXCEPT ![t] = IF handle[t] = "gone" THEN @ ELSE result[t]]
           /\ Goto(t, "sent")
           /\ UNCHANGED <<registry, result, handle, outcome>>

\* The sender is dropped and the thread ends.
Exit(t) == /\ pc[t] \in {"sent", "unsent"}
           /\ Goto(t, "exited")
           /\ UNCHANGED <<registry, result, sent, handle, outcome>>

(* ------------------------------ the handle ------------------------------ *)

\* join or join_async: the handle is used up.
Join(t) == /\ handle[t] = "held"
           /\ handle' = [handle EXCEPT ![t] = "joining"]
           /\ UNCHANGED <<registry, pc, result, sent, outcome>>

Conclude(t, o) == /\ handle' = [handle EXCEPT ![t] = "gone"]
                  /\ outcome' = [outcome EXCEPT ![t] = o]
                  /\ UNCHANGED <<registry, pc, result, sent>>

Receive(t) == /\ handle[t] = "joining" /\ sent[t] # "none"
              /\ Conclude(t, sent[t])

\* Disconnected, and the expect panics.  Nothing makes sure that it comes to
\* that: the channel may miss the drop of its last sender (Mpsc).
Disconnected(t) == /\ handle[t] = "joining" /\ sent[t] = "none" /\ pc[t] = "exited"
                   /\ Conclude(t, "panicked")

\* The handle, or the future of join_async, is dropped.
DropHandle(t) == /\ handle[t] \in {"held", "joining"}
                 /\ Conclude(t, "dropped")

\* is_finished asks the standard library.
IsFinished(t) == pc[t] = "exited"

(* ------------------------------ composition ----------------------------- *)

\* The thread's own steps; hooks and closures end by themselves.
ThreadStep(t) ==
  \/ RunHook(t) \/ HookReturns(t) \/ HookPanics(t) \/ BeginClosure(t)
  \/ ClosureEnds(t) \/ Send(t) \/ Exit(t)
  \/ CopyHooks(t) /\ UNCHANGED thread

HandleStep(t) == Join(t) \/ Receive(t) \/ Disconnected(t) \/ DropHandle(t)

Next == \/ \E t \in Threads : Spawn(t) \/ ThreadStep(t) \/ HandleStep(t) \/ Reenter(t)
        \/ \E c \in Clients : AskChange(c) /\ UNCHANGED thread
        \/ \E a \in Actors : RegistryStep(a) /\ UNCHANGED thread

Spec == Init /\ [][Next]_vars

\* Threads run, and a free mutex is given to somebody who asks (AbstractLock).
\* Hooks and closures end, and there are finitely many changes of the registry
\* to wait for.
FairSpec == /\ Spec
            /\ \A t \in Threads : WF_vars(ThreadStep(t))
            /\ \A a \in Actors :
                 WF_vars((RegisterHook(a) \/ RemoveHook(a) \/ ClearHooks(a)) /\ UNCHANGED thread)
            /\ WF_vars(\E a \in Actors : LockHooks(a) /\ UNCHANGED thread)

-----------------------------------------------------------------------------
(* Properties *)

\* Every variable has its type.
TypeOK ==
  /\ hooks \in Seq([name : Names, fn : Fns])
  /\ holder \in Actors \cup {Nobody}
  /\ request \in [Actors -> Changes \cup {Nothing, Copy}]
  /\ copy \in [Threads -> Seq([name : Names, fn : Fns])]
  /\ ran \in [Threads -> Nat] /\ \A t \in Threads : ran[t] <= Len(copy[t])
  /\ changes \in 0 .. MaxChanges
  /\ pc \in [Threads -> {"unborn", "hooks", "in_hook", "closure", "ended", "sent",
                         "unsent", "exited"}]
  /\ result \in [Threads -> {"none", "ok", "err"}]
  /\ sent \in [Threads -> {"none", "ok", "err"}]
  /\ handle \in [Threads -> {"none", "held", "joining", "gone"}]
  /\ outcome \in [Threads -> {"none", "ok", "err", "panicked", "dropped"}]

Stage == [t \in Threads |->
  IF pc[t] = "unborn" THEN "unborn"
  ELSE IF request[t] = Copy THEN "starting"
  ELSE IF pc[t] \in {"hooks", "in_hook"} THEN "hooks" ELSE "past"]

AbsHooks == INSTANCE AbstractHooks WITH list <- hooks, plan <- copy, stage <- Stage

\* A thread runs the hooks the list held at one moment, in order, all of them
\* before its closure, whatever others, or the hooks, do to the list meanwhile.
ImplementsHooks == AbsHooks!Spec

Life == [t \in Threads |->
  IF pc[t] = "unborn" THEN "unborn"
  ELSE IF result[t] # "none" THEN result[t]
  ELSE IF pc[t] \in {"unsent", "exited"} THEN "lost" ELSE "running"]

Answers == [t \in Threads |->
  IF handle[t] \in {"none", "held"} THEN "none"
  ELSE IF handle[t] = "joining" THEN "asked"
  ELSE IF outcome[t] = "panicked" THEN "failed" ELSE outcome[t]]

Abs == INSTANCE AbstractThreads WITH life <- Life, answer <- Answers, FailsIn <- {"lost"},
                                     MayRefuse <- FALSE

\* A join gives what its closure did, once and not before.  It never fails beside
\* a closure that has run, or will: only the panic of a hook makes it fail, which
\* is the case the comment in join leaves out (JoinNeverFails).
ImplementsThreads == Abs!Spec

\* A finished thread does not keep a join waiting: the result is there, unless
\* a hook has panicked.
FinishedIsJoinable == \A t \in Threads :
  IsFinished(t) /\ handle[t] # "gone" => sent[t] = result[t]

\* A thread always sends a result before exiting, so a join never fails.
JoinNeverFails == \A t \in Threads : outcome[t] # "panicked"

\* A spawned thread gets past its hooks, even when these change the list they
\* are in.
HooksEnd == \A t \in Threads : pc[t] = "hooks" ~> pc[t] \notin {"hooks", "in_hook"}
=============================================================================
