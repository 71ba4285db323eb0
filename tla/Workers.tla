------------------------------ MODULE Workers -------------------------------
(* Threads on wasm: workers with the module's memory in common.  A worker    *)
(* reports its end to the JavaScript context that manages it, and that       *)
(* context writes it into the worker's exit state, [exit_code, ref_count],   *)
(* which the worker and its JoinHandle own together.  A browser has every    *)
(* worker managed by the root, to which the others forward their spawns; on  *)
(* Node each worker manages those it spawns.                                 *)
EXTENDS Naturals, Sequences

CONSTANTS Workers,     \* the workers that may be spawned
          Root,        \* the context of the program's first thread
          MaySpawn,    \* <<context, worker>>: who may spawn which, a bound
          MaxTasks,    \* the bound of pending tasks per worker
          MaxReports   \* the bound of reports a worker makes of its end

ASSUME RootAssumption == Root \notin Workers
ASSUME BoundsAssumption == MaxTasks \in Nat /\ MaxReports \in Nat

Contexts == Workers \cup {Root}

VARIABLES
  node,        \* the platform: Node, or a browser
  busy,        \* the root runs code of the program, and its event loop does not
  handlers,    \* the contexts whose __cleanup_handler is set
  once,        \* INIT_HANDLERS has run
  panic_hook,  \* the process's panic hook: "default", or "ours" of Builder::spawn
  phase,       \* where each worker is
  spawner,     \* [worker -> the context that spawned it]
  tasks,       \* [worker -> PENDING_TASKS]
  result,      \* how the closure ended: "none", "ok", "err" (the panic was sent) or "lost"
  finished,    \* JoinHandle.finished
  message,     \* what the result channel holds
  exit_code, ref_count,  \* the exit state
  frees,       \* how often its memory was freed
  events,      \* [worker -> the exit codes on their way to its manager]
  reports,     \* how many there were
  releasing,   \* the manager is between signalExit and decrementRefCountAndCleanup
  handle,      \* where each JoinHandle is
  outcome      \* what its join gave

exit_state == <<exit_code, ref_count, frees>>
reporting == <<events, reports, releasing>>
setup == <<node, busy, handlers, once>>
joining == <<handle, outcome>>
closure == <<tasks, result, finished, message>>
vars == <<setup, panic_hook, phase, spawner, closure, exit_state, reporting, joining>>

Init == /\ node \in BOOLEAN /\ busy = TRUE
        /\ handlers = {} /\ once = FALSE
        /\ panic_hook = "default"
        /\ phase = [w \in Workers |-> "unborn"]
        /\ spawner = [w \in Workers |-> Root]
        /\ tasks = [w \in Workers |-> 0]
        /\ result = [w \in Workers |-> "none"]
        /\ finished = [w \in Workers |-> FALSE]
        /\ message = [w \in Workers |-> "none"]
        /\ exit_code = [w \in Workers |-> 0]
        /\ ref_count = [w \in Workers |-> 0]
        /\ frees = [w \in Workers |-> 0]
        /\ events = [w \in Workers |-> <<>>]
        /\ reports = [w \in Workers |-> 0]
        /\ releasing = [w \in Workers |-> FALSE]
        /\ handle = [w \in Workers |-> "none"]
        /\ outcome = [w \in Workers |-> "none"]

Goto(w, p) == phase' = [phase EXCEPT ![w] = p]

Manager(w) == IF node THEN spawner[w] ELSE Root

\* The event loop of a worker runs once its entry point has returned, that of
\* the root while the program is in yield_to_event_loop_async, or has returned.
EventLoop(c) == IF c = Root THEN ~busy ELSE phase[c] = "draining"

\* Where a context runs the program's code.
InClosure(c) == IF c = Root THEN busy ELSE phase[c] = "running"
InTask(c) == c # Root /\ phase[c] = "draining" /\ tasks[c] > 0

\* The root's code yields, or its event loop calls it.
Yield == /\ busy' = ~busy
         /\ UNCHANGED <<node, handlers, once, panic_hook, phase, spawner, closure,
                        exit_state, reporting, joining>>

Ended == {"dead", "cut", "closed"}

(* ------------------------------- the spawn ------------------------------ *)

\* init_handlers: the Once is the process's, the handler the calling context's.
InitHandlers(c) == /\ once' = TRUE
                   /\ handlers' = IF once THEN handlers ELSE handlers \cup {c}

\* The exit state: two references, the worker's and the handle's.
Allocate(w) == /\ exit_code' = [exit_code EXCEPT ![w] = 0]
               /\ ref_count' = [ref_count EXCEPT ![w] = 2]
               /\ UNCHANGED frees

\* A browser's worker does not start the new one itself but forwards it to its
\* parent.
SpawnWithSharedModule(c, w) ==
  /\ InitHandlers(c)
  /\ Goto(w, IF c = Root \/ node THEN "loading" ELSE "relayed")

\* Builder::spawn in context c, which is in its closure, or in a task of it.
Spawn(c, w) == /\ phase[w] = "unborn" /\ c # w /\ <<c, w>> \in MaySpawn
               /\ InClosure(c) \/ InTask(c)
               /\ Allocate(w)
               /\ SpawnWithSharedModule(c, w)
               /\ spawner' = [spawner EXCEPT ![w] = c]
               /\ handle' = [handle EXCEPT ![w] = "held"]
               /\ UNCHANGED <<node, busy, panic_hook, closure, reporting, outcome>>

\* The root starts it, as soon as it has the time.
Relay(w) == /\ phase[w] = "relayed" /\ EventLoop(Root)
            /\ Goto(w, "loading")
            /\ UNCHANGED <<setup, panic_hook, spawner, closure, exit_state, reporting, joining>>

(* ------------------------------ the worker ------------------------------ *)

\* A code for the manager: 1, or 2 after an error.
Report(w, code) == /\ events' = [events EXCEPT ![w] = Append(@, code)]
                   /\ reports' = [reports EXCEPT ![w] = @ + 1]
                   /\ UNCHANGED releasing

\* Mutant: both 'error' and 'exit' are reports.
ThrowTwice(w) == /\ Goto(w, "dead")
                 /\ events' = [events EXCEPT ![w] = @ \o <<2, 2>>]
                 /\ reports' = [reports EXCEPT ![w] = @ + 1]
                 /\ UNCHANGED releasing

\* An exception leaves the worker's script: it reports it and goes no further.
Throw(w) == Goto(w, "dead") /\ Report(w, 2)

\* The import, or initSync, throws.  The closure is never run.
LoadFails(w) == /\ phase[w] = "loading"
                /\ Throw(w)
                /\ result' = [result EXCEPT ![w] = "lost"]
                /\ UNCHANGED <<setup, panic_hook, spawner, tasks, finished, message, exit_state, joining>>

\* The entry point: PANIC_SENDER is set, and the first half of the exchange of
\* the panic hook, take_hook, which leaves the default in its place.
TakeHook(w) == /\ phase[w] = "loading"
               /\ Goto(w, "hooking")
               /\ panic_hook' = "default"
               /\ UNCHANGED <<setup, spawner, closure, exit_state, reporting, joining>>

\* Mutant: the hook is put back when the closure begins.
SetHookBack(w) == /\ phase[w] = "hooking"
                  /\ Goto(w, "running")
                  /\ panic_hook' = "default"
                  /\ UNCHANGED <<setup, spawner, closure, exit_state, reporting, joining>>

SetHook(w) == /\ phase[w] = "hooking"
              /\ Goto(w, "running")
              /\ panic_hook' = "ours"
              /\ UNCHANGED <<setup, spawner, closure, exit_state, reporting, joining>>

\* The closure returns, and PANIC_SENDER is cleared.
Return(w) == /\ phase[w] = "running"
             /\ Goto(w, "returned")
             /\ result' = [result EXCEPT ![w] = "ok"]
             /\ UNCHANGED <<setup, panic_hook, spawner, tasks, finished, message,
                            exit_state, reporting, joining>>

\* A spawn hook or the closure panics.  Whatever hook the process has at this
\* moment is called, and only ours sends; then the thread is aborted.
Panic(w) == /\ phase[w] = "running"
            /\ IF panic_hook = "ours"
               THEN Goto(w, "panicking") /\ result' = [result EXCEPT ![w] = "err"]
               ELSE Goto(w, "trapped") /\ result' = [result EXCEPT ![w] = "lost"]
            /\ UNCHANGED <<setup, panic_hook, spawner, tasks, finished, message,
                           exit_state, reporting, joining>>

\* A trap, or an exception of JavaScript, that is no panic.
Trap(w) == /\ phase[w] = "running"
           /\ Goto(w, "trapped")
           /\ result' = [result EXCEPT ![w] = "lost"]
           /\ UNCHANGED <<setup, panic_hook, spawner, tasks, finished, message,
                          exit_state, reporting, joining>>

\* finished is set, by the closure's end or by the panic hook, ...
Finish(w) == /\ phase[w] \in {"returned", "panicking"} /\ ~finished[w]
             /\ finished' = [finished EXCEPT ![w] = TRUE]
             /\ UNCHANGED <<setup, panic_hook, phase, spawner, tasks, result, message,
                            exit_state, reporting, joining>>

\* Mutant: the panic hook sends nothing.
SendOkOnly(w) == /\ phase[w] \in {"returned", "panicking"} /\ finished[w]
                 /\ message' = [message EXCEPT ![w] = IF result[w] = "ok" THEN "ok" ELSE "none"]
                 /\ Goto(w, IF phase[w] = "returned" THEN "draining" ELSE "trapped")
                 /\ UNCHANGED <<setup, panic_hook, spawner, tasks, result, finished,
                                exit_state, reporting, joining>>

\* Mutant: the message is always Ok.
SendAsOk(w) == /\ phase[w] \in {"returned", "panicking"} /\ finished[w]
               /\ message' = [message EXCEPT ![w] = "ok"]
               /\ Goto(w, IF phase[w] = "returned" THEN "draining" ELSE "trapped")
               /\ UNCHANGED <<setup, panic_hook, spawner, tasks, result, finished,
                              exit_state, reporting, joining>>

\* ... before the result is sent.
SendResult(w) == /\ phase[w] \in {"returned", "panicking"} /\ finished[w]
                 /\ message' = [message EXCEPT ![w] = result[w]]
                 /\ Goto(w, IF phase[w] = "returned" THEN "draining" ELSE "trapped")
                 /\ UNCHANGED <<setup, panic_hook, spawner, tasks, result, finished,
                                exit_state, reporting, joining>>

\* The entry point throws.
EntryThrows(w) == /\ phase[w] = "trapped"
                  /\ Throw(w)
                  /\ UNCHANGED <<setup, panic_hook, spawner, closure, exit_state, joining>>

\* task_begin, in the closure or in a task.
TaskBegin(w) == /\ InClosure(w) \/ InTask(w)
                /\ tasks[w] < MaxTasks
                /\ tasks' = [tasks EXCEPT ![w] = @ + 1]
                /\ UNCHANGED <<setup, panic_hook, phase, spawner, result, finished, message,
                               exit_state, reporting, joining>>

TaskFinished(w) == /\ InTask(w)
                   /\ tasks' = [tasks EXCEPT ![w] = @ - 1]
                   /\ UNCHANGED <<setup, panic_hook, phase, spawner, result, finished, message,
                                  exit_state, reporting, joining>>

\* A callback of the worker throws while it waits for its tasks.  That ends a
\* Node worker.  In a browser it is onerror for the manager, and the worker
\* lives on.
Uncaught(w) == /\ InTask(w) /\ reports[w] < MaxReports - 1
               /\ IF node THEN Throw(w) ELSE Report(w, 2) /\ UNCHANGED phase
               /\ UNCHANGED <<setup, panic_hook, spawner, closure, exit_state, joining>>

\* Node keeps a worker while it has workers of its own to hear of.
Unwatched(w) == node => \A v \in Workers :
  spawner[v] = w => phase[v] \in Ended \cup {"unborn"} /\ events[v] = <<>> /\ ~releasing[v]

\* Mutant: the worker closes and says nothing.
ExitSilently(w) == /\ phase[w] = "draining" /\ tasks[w] = 0 /\ Unwatched(w)
                   /\ Goto(w, "closed")
                   /\ UNCHANGED <<setup, panic_hook, spawner, closure, exit_state, reporting, joining>>

\* No task is left: the worker reports that it is done, and closes.
Exit(w) == /\ phase[w] = "draining" /\ tasks[w] = 0 /\ Unwatched(w)
           /\ Goto(w, "closed") /\ Report(w, 1)
           /\ UNCHANGED <<setup, panic_hook, spawner, closure, exit_state, joining>>

\* The workers of a Node worker that is gone are killed where they stand, and
\* there is nobody to report it to.
Killed(w) == /\ node /\ spawner[w] # Root /\ phase[w] \notin Ended \cup {"unborn"}
             /\ phase[spawner[w]] \in Ended
             /\ Goto(w, IF phase[w] = "hooking" THEN "cut" ELSE "dead")
             /\ result' = [result EXCEPT ![w] = IF @ = "none" THEN "lost" ELSE @]
             /\ UNCHANGED <<setup, panic_hook, spawner, tasks, finished, message,
                            exit_state, reporting, joining>>

(* ------------------------------ the manager ----------------------------- *)

\* signalExit.  What a write to freed memory does is not seen here.
SignalExit(w) == /\ events[w] # <<>> /\ ~releasing[w] /\ EventLoop(Manager(w))
                 /\ exit_code' = [exit_code EXCEPT ![w] = IF frees[w] = 0 THEN Head(events[w]) ELSE @]
                 /\ events' = [events EXCEPT ![w] = Tail(@)]
                 /\ releasing' = [releasing EXCEPT ![w] = TRUE]
                 /\ UNCHANGED <<setup, panic_hook, phase, spawner, closure, ref_count, frees,
                                reports, joining>>

\* Mutant: the old value that Atomics.sub returns is taken for the new one.
DecrementOffByOne(w, frees_it) ==
  IF frees[w] = 0
  THEN /\ ref_count' = [ref_count EXCEPT ![w] = @ - 1]
       /\ frees' = [frees EXCEPT ![w] = IF ref_count[w] = 0 /\ frees_it THEN 1 ELSE 0]
  ELSE /\ \E n \in {frees[w], frees[w] + 1} : frees' = [frees EXCEPT ![w] = n]
       /\ UNCHANGED ref_count

\* Atomics.sub, or fetch_sub; the last reference frees the memory.  In memory
\* that is already free any count may be found.
Decrement(w, frees_it) ==
  IF frees[w] = 0
  THEN /\ ref_count' = [ref_count EXCEPT ![w] = @ - 1]
       /\ frees' = [frees EXCEPT ![w] = IF ref_count[w] = 1 /\ frees_it THEN 1 ELSE 0]
  ELSE /\ \E n \in {frees[w], frees[w] + 1} : frees' = [frees EXCEPT ![w] = n]
       /\ UNCHANGED ref_count

\* decrementRefCountAndCleanup: freed by the handler, if the context has one.
Release(w) == /\ releasing[w]
              /\ Decrement(w, Manager(w) \in handlers)
              /\ releasing' = [releasing EXCEPT ![w] = FALSE]
              /\ UNCHANGED <<setup, panic_hook, phase, spawner, closure, exit_code, events,
                             reports, joining>>

(* ------------------------------ the handle ------------------------------ *)

Handle(w, h, o) == /\ handle' = [handle EXCEPT ![w] = h]
                   /\ outcome' = [outcome EXCEPT ![w] = o]
                   /\ UNCHANGED <<setup, panic_hook, phase, spawner, closure, exit_state, reporting>>

\* join blocks for the message, join_async awaits it; a main thread may not block.
Join(w) == handle[w] = "held" /\ \E h \in {"blocked", "awaiting"} : Handle(w, h, "none")
JoinOnMain(w) == handle[w] = "held" /\ Handle(w, "dropping", "failed")

\* join returns the message; join_async returns an error, and with a result it
\* goes on to wait for the exit.
Received(w) == /\ message[w] # "none"
               /\ \/ handle[w] = "blocked" /\ Handle(w, "dropping", message[w])
                  \/ handle[w] = "awaiting" /\ message[w] = "err" /\ Handle(w, "dropping", "err")
                  \/ handle[w] = "awaiting" /\ message[w] = "ok" /\ Handle(w, "exiting", "none")

\* Mutant: any exit code is a success.
ExitSeenBlindly(w) == /\ handle[w] = "exiting"
                      /\ exit_code[w] # 0
                      /\ Handle(w, "dropping", "ok")

\* join_async has the result and turns it into an error if the worker failed.
ExitOutcome(code) == IF code = 2 THEN "failed" ELSE "ok"

\* wait_for_exit_async resolves; freed memory may hold any code.
ExitSeen(w) == /\ handle[w] = "exiting"
               /\ \E code \in (IF frees[w] = 0 THEN {exit_code[w]} ELSE 0 .. 2) :
                    /\ code # 0
                    /\ Handle(w, "dropping", ExitOutcome(code))

\* The handle, or the future of join_async, is dropped.
Abandon(w) == /\ handle[w] \in {"held", "awaiting", "exiting"}
              /\ Handle(w, "dropping", "dropped")

\* JoinHandle::drop, which ends every join.
DropHandle(w) == /\ handle[w] = "dropping"
                 /\ handle' = [handle EXCEPT ![w] = "gone"]
                 /\ Decrement(w, TRUE)
                 /\ UNCHANGED <<setup, panic_hook, phase, spawner, closure, exit_code,
                                reporting, outcome>>

(* ------------------------------ composition ----------------------------- *)

\* What a worker does once its closure has ended, and its platform for it.
WorkerStep(w) == \/ SetHook(w) \/ Finish(w) \/ SendResult(w) \/ EntryThrows(w)
                 \/ Exit(w) \/ Killed(w)
ManagerStep(w) == SignalExit(w) \/ Release(w)
HandleStep(w) == Received(w) \/ ExitSeen(w) \/ DropHandle(w)

WorkerNext(w) ==
  \/ \E c \in Contexts : Spawn(c, w)
  \/ Relay(w) \/ TakeHook(w) \/ LoadFails(w) \/ Return(w) \/ Panic(w) \/ Trap(w)
  \/ TaskBegin(w) \/ TaskFinished(w) \/ Uncaught(w)
  \/ WorkerStep(w) \/ ManagerStep(w)
  \/ Join(w) \/ JoinOnMain(w) \/ Abandon(w) \/ HandleStep(w)

Next == Yield \/ \E w \in Workers : WorkerNext(w)

Spec == Init /\ [][Next]_vars

\* Workers that have begun and the threads that join run, and an event loop that
\* gets its turn again and again handles its messages.  Nothing is assumed of
\* closures and tasks, which may go on for ever, of the root, which need not
\* yield, and of a new worker, which the platform may never start.
FairSpec == /\ Spec
            /\ \A w \in Workers : /\ WF_vars(WorkerStep(w))
                                  /\ SF_vars(ManagerStep(w))
                                  /\ WF_vars(HandleStep(w))

-----------------------------------------------------------------------------
(* Properties *)

\* Every variable has its type.
TypeOK ==
  /\ node \in BOOLEAN /\ busy \in BOOLEAN /\ once \in BOOLEAN /\ handlers \subseteq Contexts
  /\ panic_hook \in {"default", "ours"}
  /\ phase \in [Workers -> Ended \cup
       {"unborn", "relayed", "loading", "hooking", "running", "returned", "panicking",
        "trapped", "draining"}]
  /\ spawner \in [Workers -> Contexts]
  /\ tasks \in [Workers -> 0 .. MaxTasks]
  /\ result \in [Workers -> {"none", "ok", "err", "lost"}]
  /\ finished \in [Workers -> BOOLEAN]
  /\ message \in [Workers -> {"none", "ok", "err"}]
  /\ exit_code \in [Workers -> 0 .. 2]
  /\ ref_count \in [Workers -> 0 .. 2]
  /\ frees \in [Workers -> Nat]
  /\ events \in [Workers -> Seq(1 .. 2)]
  /\ reports \in [Workers -> Nat]
  /\ releasing \in [Workers -> BOOLEAN]
  /\ handle \in [Workers -> {"none", "held", "blocked", "awaiting", "exiting", "dropping", "gone"}]
  /\ outcome \in [Workers -> {"none", "ok", "err", "failed", "dropped"}]

Reported(w) == reports[w] > 0 /\ events[w] = <<>> /\ ~releasing[w]

\* The exit state is freed once, and only when the worker's report has been
\* dealt with and the handle is gone.  The exception is a browser's worker with
\* a callback that throws: it reports onerror first and its exit later, each
\* takes a reference, and the handle is left with freed memory.
FreedByLast == \A w \in Workers : node \/ reports[w] <= 1 =>
  /\ frees[w] <= 1
  /\ frees[w] = 1 => Reported(w) /\ handle[w] = "gone"

\* It is freed then, except for a worker that a Node worker has spawned: its
\* report may be the last to let go, in a context without a cleanup handler.
FreedInTheEnd == \A w \in Workers :
  Reported(w) /\ handle[w] = "gone" => frees[w] > 0 \/ (node /\ spawner[w] # Root)

\* A running closure's panic goes unsent only while another worker is between
\* the two halves of its exchange of the hook, or was killed there.
HookWindow == \A w \in Workers : phase[w] = "running" /\ panic_hook = "default" =>
  \E v \in Workers : phase[v] \in {"hooking", "cut"}

\* join_async gives a result only when the worker has closed with no task left.
ExitAwaited == [][\A w \in Workers :
  handle[w] = "exiting" /\ outcome'[w] = "ok" /\ (node \/ reports[w] <= 1) =>
    phase[w] = "closed" /\ tasks[w] = 0]_vars

Life == [w \in Workers |-> CASE phase[w] = "unborn" -> "unborn"
                             [] phase[w] # "unborn" /\ result[w] = "none" -> "running"
                             [] OTHER -> result[w]]

Answers == [w \in Workers |->
  CASE handle[w] \in {"none", "held"} -> "none"
    [] handle[w] \in {"blocked", "awaiting", "exiting"} -> "asked"
    [] OTHER -> outcome[w]]

Abs == INSTANCE AbstractThreads WITH Threads <- Workers, life <- Life, answer <- Answers,
                                     FailsIn <- {"ok"}, MayRefuse <- TRUE

\* A join gives what the closure did, once and not before.  It fails at once on
\* the main thread; otherwise only join_async does, and only with a result that
\* is Ok in its hands, when it then hears that the worker ended with an error.
ImplementsThreads == Abs!Spec

\* A join of a closure that has returned, or whose panic was caught, does not
\* wait for ever for its message, unless Node killed the worker on the way.
JoinReturns == \A w \in Workers :
  <>[](result[w] \in {"ok", "err"} /\ handle[w] \in {"blocked", "awaiting"}) =>
    <>[](node /\ spawner[w] # Root /\ phase[w] = "dead" /\ message[w] = "none")

\* join_async waits for ever for the exit only if the worker has tasks, or on
\* Node workers of its own, that do not end, or nobody is there, or has the
\* time, to hear of it.
ExitReturns == \A w \in Workers :
  <>[](handle[w] = "exiting") =>
    <>[](InTask(w) \/ ~Unwatched(w) \/ ~EventLoop(Manager(w)))
=============================================================================
