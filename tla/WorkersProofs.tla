--------------------------- MODULE WorkersProofs ---------------------------
(* Proofs about Workers for any number of workers, tasks and reports, and    *)
(* whoever spawns whom: the exit state is freed once and in the end, and the *)
(* panic hook is missing only while somebody exchanges it.                   *)
EXTENDS Workers, SequenceTheorems, TLAPS

\* The reports the manager has not dealt with, and those it has.
TakenUp(w) == IF releasing[w] THEN 1 ELSE 0
Pending(w) == Len(events[w]) + TakenUp(w)
Dealt(w) == reports[w] - Pending(w)

\* The handles that are gone.
Gone(w) == IF handle[w] = "gone" THEN 1 ELSE 0

\* The exit state has two references: one goes with each report that is dealt
\* with, one with the handle.  With one report at most they are both gone when
\* it is freed.  On Node a report is the last thing a worker does.
Account(w) ==
  /\ phase[w] = "unborn" => reports[w] = 0 /\ events[w] = <<>> /\ ~releasing[w]
                            /\ handle[w] = "none" /\ frees[w] = 0
  /\ phase[w] # "unborn" => once
  /\ phase[w] # "unborn" /\ frees[w] = 0 =>
       /\ ref_count[w] + Dealt(w) + Gone(w) = 2
       /\ ref_count[w] = 0 => node /\ spawner[w] # Root
  /\ frees[w] > 0 => Dealt(w) >= 1
  /\ Dealt(w) >= 0 /\ ref_count[w] \in 0 .. 2
  /\ node => reports[w] <= 1 /\ (phase[w] \notin Ended => reports[w] = 0)
  /\ frees[w] > 0 /\ (node \/ reports[w] <= 1) =>
       frees[w] = 1 /\ reports[w] = 1 /\ Pending(w) = 0 /\ handle[w] = "gone"

Phases == Ended \cup {"unborn", "relayed", "loading", "hooking", "running", "returned",
                      "panicking", "trapped", "draining"}

\* The parts of TypeOK that hold by themselves.
Types ==
  /\ node \in BOOLEAN /\ busy \in BOOLEAN /\ once \in BOOLEAN /\ handlers \subseteq Contexts
  /\ panic_hook \in {"default", "ours"}
  /\ phase \in [Workers -> Phases]
  /\ spawner \in [Workers -> Contexts]
  /\ tasks \in [Workers -> 0 .. MaxTasks]
  /\ result \in [Workers -> {"none", "ok", "err", "lost"}]
  /\ finished \in [Workers -> BOOLEAN]
  /\ message \in [Workers -> {"none", "ok", "err"}]
  /\ exit_code \in [Workers -> 0 .. 2]
  /\ ref_count \in [Workers -> Int]
  /\ frees \in [Workers -> Nat]
  /\ events \in [Workers -> Seq(1 .. 2)]
  /\ reports \in [Workers -> Nat]
  /\ releasing \in [Workers -> BOOLEAN]
  /\ handle \in [Workers -> {"none", "held", "blocked", "awaiting", "exiting", "dropping", "gone"}]
  /\ outcome \in [Workers -> {"none", "ok", "err", "failed", "dropped"}]

\* The first spawn is the root's: no other context is there.
Handled == once => Root \in handlers

\* A closure that has ended, with a panic sent or without one, has a result.
ResultKnown == \A w \in Workers :
  phase[w] \in {"returned", "panicking"} => result[w] \in {"ok", "err"}

\* What the channel and the handle know of the result.
Early == {"unborn", "relayed", "loading", "hooking", "running"}

Told(w) == /\ phase[w] \in Early => result[w] = "none"
           /\ message[w] # "none" => message[w] = result[w]
           /\ handle[w] = "exiting" => message[w] = "ok"

AllTold == \A w \in Workers : Told(w)

Accounts == Handled /\ \A w \in Workers : Account(w)

IndInv == Types /\ ResultKnown /\ AllTold /\ Accounts /\ HookWindow

-----------------------------------------------------------------------------
(* Initially *)

\* The program starts with the root alone: nothing is allocated.
LEMMA InitInv == Init => IndInv
<1> SUFFICES ASSUME Init PROVE IndInv
  OBVIOUS
<1> USE DEF Init, Contexts
<1>0. 0 \in 0 .. MaxTasks /\ 0 \in 0 .. 2 /\ 0 \in Nat /\ 0 \in Int
  BY BoundsAssumption
<1>1. <<>> \in Seq(1 .. 2)
  OBVIOUS
<1>2. Types
  BY <1>0, <1>1 DEF Types, Phases
<1>3. ASSUME NEW w \in Workers PROVE Account(w)
  <2>1. Len(events[w]) = 0 /\ Pending(w) = 0 /\ Dealt(w) = 0
    BY DEF Pending, Dealt, TakenUp, Gone
  <2>2. QED
    BY <2>1 DEF Account
<1>4. HookWindow /\ ResultKnown /\ AllTold
  BY DEF HookWindow, ResultKnown, AllTold, Told
<1>5. QED
  BY <1>2, <1>3, <1>4 DEF IndInv, Accounts, Handled

-----------------------------------------------------------------------------
(* The steps *)

\* The steps of workers that leave the exit states, the reports, the handles
\* and the handlers alone, and are neither a worker's first nor past its end.
Quiet(v) == \/ Relay(v) \/ TakeHook(v) \/ SetHook(v) \/ Return(v) \/ Panic(v) \/ Trap(v)
            \/ Finish(v) \/ SendResult(v) \/ TaskBegin(v) \/ TaskFinished(v) \/ Killed(v)

\* The steps that report something.
Reporting(v) == LoadFails(v) \/ EntryThrows(v) \/ Uncaught(v) \/ Exit(v)

\* The steps of the handle before it goes.
Handling(v) == Join(v) \/ JoinOnMain(v) \/ Received(v) \/ ExitSeen(v) \/ Abandon(v)

Moves == \E v \in Workers : \/ \E c \in Contexts : Spawn(c, v)
                            \/ Quiet(v) \/ Reporting(v) \/ Handling(v)
                            \/ SignalExit(v) \/ Release(v) \/ DropHandle(v)

\* A step in which at most the root begins or ends a turn of its own.
Same == /\ UNCHANGED <<node, handlers, once, panic_hook, phase, spawner, closure,
                       exit_state, reporting, joining>>
        /\ busy \in BOOLEAN => busy' \in BOOLEAN

\* Every step is one worker's, of its manager or of its handle, or the root's turn.
LEMMA Steps == [Next]_vars => Moves \/ Same
<1>1. ASSUME NEW v \in Workers PROVE
        /\ WorkerStep(v) => Quiet(v) \/ Reporting(v)
        /\ ManagerStep(v) => SignalExit(v) \/ Release(v)
        /\ HandleStep(v) => Handling(v) \/ DropHandle(v)
        /\ Relay(v) \/ TakeHook(v) => Quiet(v)
        /\ LoadFails(v) \/ Uncaught(v) => Reporting(v)
        /\ Return(v) \/ Panic(v) \/ Trap(v) \/ TaskBegin(v) \/ TaskFinished(v) => Quiet(v)
        /\ Join(v) \/ JoinOnMain(v) \/ Abandon(v) => Handling(v)
  BY DEF WorkerStep, ManagerStep, HandleStep, Quiet, Reporting, Handling
<1>2. ASSUME NEW v \in Workers, WorkerNext(v) PROVE Moves
  BY <1>1, <1>2 DEF WorkerNext, Moves
<1>3. Yield \/ UNCHANGED vars => Same
  BY DEF Yield, vars, setup, Same
<1>4. QED
  BY <1>2, <1>3 DEF Next

\* What the quiet steps have in common.
LEMMA QuietStep ==
  ASSUME phase \in [Workers -> Phases], NEW v \in Workers, Quiet(v)
  PROVE /\ UNCHANGED <<setup, spawner, exit_state, reporting, joining>>
        /\ \A w \in Workers : /\ (phase'[w] = "unborn") <=> (phase[w] = "unborn")
                              /\ phase'[w] \notin Ended => phase[w] \notin Ended
<1> USE DEF Goto, Ended
<1>1. CASE Relay(v) \/ TakeHook(v) \/ SetHook(v)
  BY <1>1 DEF Relay, TakeHook, SetHook
<1>2. CASE Return(v) \/ Panic(v) \/ Trap(v)
  BY <1>2 DEF Return, Panic, Trap
<1>3. CASE Finish(v) \/ SendResult(v)
  BY <1>3 DEF Finish, SendResult
<1>4. CASE TaskBegin(v) \/ TaskFinished(v)
  BY <1>4 DEF TaskBegin, TaskFinished
<1>5. CASE Killed(v)
  BY <1>5 DEF Killed
<1>6. QED
  BY <1>1, <1>2, <1>3, <1>4, <1>5 DEF Quiet

\* What the reports have in common: the worker lives, and is at its end on Node.
LEMMA ReportingStep ==
  ASSUME phase \in [Workers -> Phases], NEW v \in Workers, Reporting(v)
  PROVE /\ UNCHANGED <<setup, spawner, exit_state, joining>>
        /\ phase[v] \notin Ended \cup {"unborn"}
        /\ \E code \in 1 .. 2 : Report(v, code)
        /\ node => phase'[v] \in Ended
        /\ phase'[v] # "unborn"
        /\ \A w \in Workers : w # v => phase'[w] = phase[w]
<1> USE DEF Goto, Ended, Throw
<1>0. 1 \in 1 .. 2 /\ 2 \in 1 .. 2
  OBVIOUS
<1>1. CASE LoadFails(v)
  BY <1>0, <1>1 DEF LoadFails
<1>2. CASE EntryThrows(v)
  BY <1>0, <1>2 DEF EntryThrows
<1>3. CASE Uncaught(v)
  BY <1>0, <1>3, RootAssumption DEF Uncaught, InTask
<1>4. CASE Exit(v)
  BY <1>0, <1>4 DEF Exit
<1>5. QED
  BY <1>1, <1>2, <1>3, <1>4 DEF Reporting

\* What the steps of the handle have in common.
LEMMA HandlingStep ==
  ASSUME Types, NEW v \in Workers, Handling(v)
  PROVE /\ UNCHANGED <<setup, phase, spawner, exit_state, reporting>>
        /\ handle[v] \notin {"none", "gone"}
        /\ \E h \in {"blocked", "awaiting", "exiting", "dropping"} :
             handle' = [handle EXCEPT ![v] = h]
BY DEF Types, Handling, Join, JoinOnMain, Received, ExitSeen, ExitOutcome, Abandon, Handle

\* A step that leaves a worker's report, exit state and handle alone keeps its
\* account, if it does not turn the worker into one that must not report.
LEMMA OthersAccount ==
  ASSUME NEW w \in Workers, Account(w),
         UNCHANGED node, once => once', handlers \subseteq handlers',
         spawner'[w] = spawner[w], events'[w] = events[w], reports'[w] = reports[w],
         releasing'[w] = releasing[w], handle'[w] = handle[w],
         ref_count'[w] = ref_count[w], frees'[w] = frees[w],
         (phase'[w] = "unborn") <=> (phase[w] = "unborn"),
         phase'[w] \notin Ended => phase[w] \notin Ended
  PROVE Account(w)'
<1>1. Pending(w)' = Pending(w) /\ Dealt(w)' = Dealt(w) /\ Gone(w)' = Gone(w)
  BY DEF Pending, Dealt, TakenUp, Gone
<1>2. QED
  BY <1>1 DEF Account

\* A spawn opens an account.
LEMMA SpawnAccount ==
  ASSUME Types, Accounts, NEW c \in Contexts, NEW v \in Workers, Spawn(c, v)
  PROVE Accounts'
<1> USE DEF setup, closure, reporting
<1>1. once' = TRUE /\ handlers \subseteq handlers'
  BY DEF Spawn, SpawnWithSharedModule, InitHandlers
<1>2. Handled'
  <2>1. CASE c = Root
    BY <2>1 DEF Spawn, SpawnWithSharedModule, InitHandlers, Accounts, Handled
  <2>2. CASE c # Root
    <3>1. c \in Workers /\ phase[c] # "unborn"
      BY <2>2 DEF Spawn, InClosure, InTask, Contexts
    <3>2. once
      BY <3>1 DEF Accounts, Account
    <3>3. QED
      BY <1>1, <3>2 DEF Accounts, Handled
  <2>3. QED
    BY <2>1, <2>2
<1>3. ASSUME NEW w \in Workers PROVE Account(w)'
  <2>0. Account(v) /\ Account(w)
    BY DEF Accounts
  <2>1. CASE w = v
    <3>1. Dealt(w)' = 0 /\ reports'[w] = 0 /\ Pending(w)' = 0
      <4>1. reports[w] = 0 /\ events[w] = <<>> /\ ~releasing[w]
        BY <2>0, <2>1 DEF Account, Spawn
      <4>2. UNCHANGED <<reports, events, releasing>>
        BY DEF Spawn
      <4>3. Len(events[w])' = 0 /\ TakenUp(w)' = 0
        BY <4>1, <4>2 DEF TakenUp
      <4>4. QED
        BY <4>1, <4>2, <4>3 DEF Pending, Dealt
    <3>2. phase'[w] \in {"loading", "relayed"} /\ handle'[w] = "held"
      BY <2>1 DEF Spawn, SpawnWithSharedModule, Goto, Types
    <3>3. ref_count'[w] = 2 /\ frees'[w] = 0
      BY <2>0, <2>1 DEF Spawn, Allocate, Account, Types
    <3>4. phase'[w] \notin Ended \cup {"unborn"} /\ Gone(w)' = 0
      BY <3>2 DEF Ended, Gone
    <3>5. once'
      BY <1>1
    <3>6. QED
      BY <3>1, <3>3, <3>4, <3>5 DEF Account
  <2>2. CASE w # v
    <3>1. /\ phase'[w] = phase[w] /\ spawner'[w] = spawner[w] /\ handle'[w] = handle[w]
          /\ ref_count'[w] = ref_count[w]
      BY <2>2 DEF Spawn, SpawnWithSharedModule, Goto, Allocate, Types
    <3>2. UNCHANGED <<node, frees, events, reports, releasing>>
      BY DEF Spawn, Allocate
    <3>3. QED
      BY <1>1, <2>0, <3>1, <3>2, OthersAccount
  <2>3. QED
    BY <2>1, <2>2
<1>4. QED
  BY <1>2, <1>3 DEF Accounts

\* The counts of an account are numbers, ...
LEMMA CountTypes ==
  ASSUME NEW w \in Workers, events[w] \in Seq(1 .. 2), reports[w] \in Nat
  PROVE Pending(w) \in Nat /\ Dealt(w) \in Int /\ Dealt(w) <= reports[w]
<1>1. Len(events[w]) \in Nat /\ TakenUp(w) \in Nat
  BY DEF TakenUp
<1>2. QED
  BY <1>1 DEF Pending, Dealt

\* ... and a reference that is let go balances them.  The last one frees, if
\* its owner can.
LetGo(v) ==
  /\ frees[v] = 0 =>
       /\ ref_count'[v] = ref_count[v] - 1
       /\ frees'[v] = 0 \/ (frees'[v] = 1 /\ ref_count[v] = 1)
       /\ ref_count[v] = 1 => frees'[v] = 1 \/ (node /\ spawner[v] # Root)
  /\ frees[v] # 0 =>
       ref_count'[v] = ref_count[v] /\ frees'[v] \in {frees[v], frees[v] + 1}

\* A reference given back once is taken off the account, and the last one frees.
LEMMA DecrementAccount ==
  ASSUME Types, NEW v \in Workers, Account(v), phase[v] # "unborn",
         LetGo(v),
         UNCHANGED <<node, once, phase, spawner, reports>>,
         Pending(v)' \in Nat, Dealt(v)' = reports[v] - Pending(v)', Dealt(v)' >= Dealt(v),
         handle[v] = "gone" => handle'[v] = "gone",
         Dealt(v)' + Gone(v)' = Dealt(v) + Gone(v) + 1
  PROVE Account(v)'
<1> DEFINE gone == Gone(v)
           gone2 == Gone(v)'
<1>1. /\ reports[v] \in Nat /\ frees[v] \in Nat /\ ref_count[v] \in Int
      /\ ref_count \in [Workers -> Int] /\ frees \in [Workers -> Nat]
      /\ Dealt(v) \in Int /\ Dealt(v) <= reports[v] /\ Pending(v) \in Nat
      /\ Dealt(v) = reports[v] - Pending(v)
  BY CountTypes DEF Types, Dealt
<1>2. /\ gone \in 0 .. 1 /\ gone2 \in 0 .. 1
      /\ (gone2 = 1) <=> (handle'[v] = "gone")
  BY DEF Gone
<1>3. CASE frees[v] = 0
  <2>1. ref_count[v] + Dealt(v) + gone = 2
    BY <1>3 DEF Account
  <2>2. ref_count'[v] = ref_count[v] - 1
    BY <1>3 DEF LetGo
  <2>3. ref_count'[v] + Dealt(v)' + gone2 = 2
    BY <1>1, <1>2, <2>1, <2>2
  <2>4. ref_count[v] # 0
    <3>1. SUFFICES ASSUME ref_count[v] = 0 PROVE FALSE
      OBVIOUS
    <3>2. node /\ reports[v] <= 1
      BY <1>3, <3>1 DEF Account
    <3>3. QED
      BY <1>1, <1>2, <2>2, <2>3, <3>1, <3>2
  <2>5. /\ frees'[v] = 0 \/ (frees'[v] = 1 /\ ref_count[v] = 1)
        /\ ref_count[v] = 1 => frees'[v] = 1 \/ (node /\ spawner[v] # Root)
    BY <1>3 DEF LetGo
  <2>6. ref_count'[v] \in 0 .. 2 /\ (ref_count'[v] = 0 <=> ref_count[v] = 1)
    BY <1>1, <2>2, <2>4 DEF Account
  <2>7. CASE frees'[v] = 0
    <3>1. ref_count'[v] = 0 => node /\ spawner[v] # Root
      BY <2>5, <2>6, <2>7
    <3>2. ~(frees'[v] > 0)
      BY <2>7
    <3>3. Dealt(v)' >= 0
      BY <1>1 DEF Account
    <3>4. node => reports[v] <= 1 /\ (phase[v] \notin Ended => reports[v] = 0)
      BY DEF Account
    <3>5. QED
      BY <2>3, <2>6, <3>1, <3>2, <3>3, <3>4 DEF Account
  <2>8. CASE frees'[v] # 0
    <3>1. frees'[v] = 1 /\ ref_count'[v] = 0 /\ Dealt(v)' + gone2 = 2
      BY <1>1, <1>2, <2>3, <2>5, <2>6, <2>8
    <3>2. Dealt(v)' >= 1
      BY <1>1, <1>2, <3>1
    <3>3. reports[v] <= 1 => reports[v] = 1 /\ Pending(v)' = 0 /\ handle'[v] = "gone"
      BY <1>1, <1>2, <3>1
    <3>4. QED
      BY <1>1, <2>6, <3>1, <3>2, <3>3 DEF Account
  <2>9. QED
    BY <2>7, <2>8
<1>4. CASE frees[v] # 0
  <2>1. ref_count'[v] = ref_count[v] /\ frees'[v] \in {frees[v], frees[v] + 1}
    BY <1>4 DEF LetGo
  <2>2. ~(node \/ reports[v] <= 1)
    <3>1. SUFFICES ASSUME node \/ reports[v] <= 1 PROVE FALSE
      OBVIOUS
    <3>2. reports[v] = 1 /\ Pending(v) = 0 /\ handle[v] = "gone"
      BY <1>1, <1>4, <3>1 DEF Account
    <3>3. QED
      BY <1>1, <1>2, <3>2 DEF Gone
  <2>3. Dealt(v)' >= 1
    BY <1>1, <1>4 DEF Account
  <2>4. QED
    BY <1>1, <1>4, <2>1, <2>2, <2>3 DEF Account
<1>5. QED
  BY <1>3, <1>4

\* A report is on its way to the manager: none of it is dealt with yet.
LEMMA ReportAccount ==
  ASSUME Types, Accounts, NEW v \in Workers, Reporting(v) PROVE Accounts'
<1> USE DEF setup, exit_state, joining
<1>1. PICK code \in 1 .. 2 : Report(v, code)
  BY ReportingStep DEF Types
<1>2. UNCHANGED <<node, handlers, once, spawner, ref_count, frees, handle>>
  BY ReportingStep DEF Types
<1>3. /\ phase[v] \notin Ended \cup {"unborn"}
      /\ node => phase'[v] \in Ended
      /\ phase'[v] # "unborn"
      /\ \A w \in Workers : w # v => phase'[w] = phase[w]
  BY ReportingStep DEF Types
<1>4. Account(v)'
  <2>0. Account(v) /\ reports[v] \in Nat /\ Pending(v) \in Nat
    BY CountTypes DEF Accounts, Types
  <2>1. reports'[v] = reports[v] + 1 /\ releasing' = releasing
    BY <1>1 DEF Report, Types
  <2>2. events'[v] = Append(events[v], code) /\ events[v] \in Seq(1 .. 2)
    BY <1>1 DEF Report, Types
  <2>3. Len(events'[v]) = Len(events[v]) + 1 /\ Len(events[v]) \in Nat
    BY <2>2
  <2>4. TakenUp(v) \in Nat /\ TakenUp(v)' = TakenUp(v)
    BY <2>1 DEF TakenUp
  <2>5. Pending(v)' = Pending(v) + 1
    BY <2>3, <2>4 DEF Pending
  <2>6. Dealt(v)' = Dealt(v) /\ Gone(v)' = Gone(v)
    BY <1>2, <2>0, <2>1, <2>5 DEF Dealt, Gone
  <2>7. node => reports[v] = 0
    BY <1>3, <2>0 DEF Account
  <2>8. QED
    BY <1>2, <1>3, <2>0, <2>1, <2>5, <2>6, <2>7 DEF Account
<1>5. ASSUME NEW w \in Workers, w # v PROVE Account(w)'
  <2>1. /\ events'[w] = events[w] /\ reports'[w] = reports[w]
        /\ releasing'[w] = releasing[w]
    BY <1>1, <1>5 DEF Report, Types
  <2>2. QED
    BY <1>2, <1>3, <1>5, <2>1, OthersAccount DEF Accounts
<1>6. QED
  BY <1>2, <1>4, <1>5 DEF Accounts, Handled

\* The manager takes a report up: it is still its to deal with.
LEMMA SignalAccount ==
  ASSUME Types, Accounts, NEW v \in Workers, SignalExit(v) PROVE Accounts'
<1> USE DEF setup, joining
<1>1. UNCHANGED <<node, handlers, once, spawner, phase, ref_count, frees, reports, handle>>
  BY DEF SignalExit
<1>2. /\ events[v] # <<>> /\ ~releasing[v] /\ releasing'[v] = TRUE
      /\ events'[v] = Tail(events[v]) /\ events[v] \in Seq(1 .. 2)
  BY DEF SignalExit, Types
<1>3. Account(v)'
  <2>1. Len(events[v]) \in Nat /\ Len(events'[v]) = Len(events[v]) - 1
    BY <1>2
  <2>2. Pending(v)' = Pending(v)
    <3>1. TakenUp(v) = 0 /\ TakenUp(v)' = 1
      BY <1>2 DEF TakenUp
    <3>2. QED
      BY <1>2, <2>1, <3>1 DEF Pending
  <2>3. Dealt(v)' = Dealt(v) /\ Gone(v)' = Gone(v)
    BY <1>1, <2>2 DEF Dealt, Gone
  <2>4. Account(v) /\ phase[v] # "unborn"
    BY <1>2 DEF Accounts, Account
  <2>5. QED
    BY <1>1, <2>2, <2>3, <2>4 DEF Account
<1>4. ASSUME NEW w \in Workers, w # v PROVE Account(w)'
  <2>1. events'[w] = events[w] /\ releasing'[w] = releasing[w]
    BY <1>4 DEF SignalExit, Types
  <2>2. QED
    BY <1>1, <2>1, OthersAccount DEF Accounts
<1>5. QED
  BY <1>1, <1>3, <1>4 DEF Accounts, Handled

\* The manager lets go of the worker's reference.
LEMMA ReleaseAccount ==
  ASSUME Types, Accounts, NEW v \in Workers, Release(v) PROVE Accounts'
<1> USE DEF setup, joining
<1>1. UNCHANGED <<node, handlers, once, spawner, phase, events, reports, handle>>
  BY DEF Release
<1>2. Account(v)'
  <2>1. releasing[v] /\ releasing'[v] = FALSE
    BY DEF Release, Types
  <2>2. Account(v) /\ phase[v] # "unborn" /\ once
    BY <2>1 DEF Accounts, Account
  <2>3. Root \in handlers
    BY <2>2 DEF Accounts, Handled
  <2>4. Manager(v) \in handlers \/ (node /\ spawner[v] # Root)
    BY <2>3 DEF Manager
  <2>5. Len(events[v]) \in Nat /\ reports[v] \in Nat
    BY DEF Types
  <2>6. Pending(v) = Len(events[v]) + 1 /\ Pending(v)' = Len(events[v])
    <3>1. TakenUp(v) = 1 /\ TakenUp(v)' = 0
      BY <2>1 DEF TakenUp
    <3>2. QED
      BY <1>1, <2>5, <3>1 DEF Pending
  <2>7. Dealt(v)' = Dealt(v) + 1 /\ Dealt(v)' = reports[v] - Pending(v)'
    BY <1>1, <2>5, <2>6 DEF Dealt
  <2>8. Gone(v) \in Nat /\ Gone(v)' = Gone(v) /\ handle'[v] = handle[v] /\ Dealt(v) \in Int
    BY <1>1, <2>5, CountTypes DEF Gone, Types
  <2>9. LetGo(v)
    BY <2>4 DEF Release, Decrement, LetGo, Types
  <2>10. Pending(v)' \in Nat
    BY <2>5, <2>6
  <2>11. Dealt(v)' >= Dealt(v)
    BY <2>7, <2>8
  <2>12. Dealt(v)' + Gone(v)' = Dealt(v) + Gone(v) + 1
    BY <2>7, <2>8
  <2>13. QED
    BY <1>1, <2>2, <2>4, <2>7, <2>8, <2>9, <2>10, <2>11, <2>12, DecrementAccount
<1>3. ASSUME NEW w \in Workers, w # v PROVE Account(w)'
  <2>1. /\ releasing'[w] = releasing[w]
        /\ ref_count'[w] = ref_count[w] /\ frees'[w] = frees[w]
    BY <1>3 DEF Release, Decrement, Types
  <2>2. QED
    BY <1>1, <2>1, OthersAccount DEF Accounts
<1>4. QED
  BY <1>1, <1>2, <1>3 DEF Accounts, Handled

\* The handle lets go of its own.
LEMMA DropAccount ==
  ASSUME Types, Accounts, NEW v \in Workers, DropHandle(v) PROVE Accounts'
<1> USE DEF setup, reporting
<1>1. UNCHANGED <<node, handlers, once, spawner, phase, events, reports, releasing>>
  BY DEF DropHandle
<1>2. Account(v)'
  <2>1. handle[v] = "dropping" /\ handle'[v] = "gone"
    BY DEF DropHandle, Types
  <2>2. Account(v) /\ phase[v] # "unborn"
    BY <2>1 DEF Accounts, Account
  <2>3. Pending(v)' = Pending(v) /\ Dealt(v)' = Dealt(v)
    BY <1>1 DEF Pending, Dealt, TakenUp
  <2>4. Pending(v) \in Nat /\ Dealt(v) \in Int /\ Dealt(v) = reports[v] - Pending(v)
    BY CountTypes DEF Types, Dealt
  <2>5. Gone(v) = 0 /\ Gone(v)' = 1
    BY <2>1 DEF Gone
  <2>6. LetGo(v)
    BY DEF DropHandle, Decrement, LetGo, Types
  <2>7. Dealt(v)' + Gone(v)' = Dealt(v) + Gone(v) + 1
    BY <2>3, <2>4, <2>5
  <2>8. Dealt(v)' >= Dealt(v) /\ Pending(v)' \in Nat /\ Dealt(v)' = reports[v] - Pending(v)'
    BY <2>3, <2>4
  <2>9. QED
    BY <1>1, <2>1, <2>2, <2>6, <2>7, <2>8, DecrementAccount
<1>3. ASSUME NEW w \in Workers, w # v PROVE Account(w)'
  <2>1. /\ handle'[w] = handle[w]
        /\ ref_count'[w] = ref_count[w] /\ frees'[w] = frees[w]
    BY <1>3 DEF DropHandle, Decrement, Types
  <2>2. QED
    BY <1>1, <2>1, OthersAccount DEF Accounts
<1>4. QED
  BY <1>1, <1>2, <1>3 DEF Accounts, Handled

\* No step loses or forges a reference.
LEMMA StepAccounts == Types /\ Accounts /\ [Next]_vars => Accounts'
<1> SUFFICES ASSUME Types, Accounts, [Next]_vars PROVE Accounts'
  OBVIOUS
<1>1. CASE Moves
  <2>1. PICK v \in Workers : \/ \E c \in Contexts : Spawn(c, v)
                             \/ Quiet(v) \/ Reporting(v) \/ Handling(v)
                             \/ SignalExit(v) \/ Release(v) \/ DropHandle(v)
    BY <1>1 DEF Moves
  <2>2. CASE Quiet(v)
    <3>1. UNCHANGED <<setup, spawner, exit_state, reporting, joining>>
      BY <2>2, QuietStep DEF Types
    <3>2. ASSUME NEW w \in Workers PROVE
            /\ (phase'[w] = "unborn") <=> (phase[w] = "unborn")
            /\ phase'[w] \notin Ended => phase[w] \notin Ended
      BY <2>2, QuietStep DEF Types
    <3>3. ASSUME NEW w \in Workers PROVE Account(w)'
      BY <3>1, <3>2, OthersAccount DEF Accounts, setup, exit_state, reporting, joining
    <3>4. QED
      BY <3>1, <3>3 DEF Accounts, Handled, setup
  <2>3. CASE Handling(v)
    <3>1. UNCHANGED <<setup, phase, spawner, exit_state, reporting>>
      BY <2>3, HandlingStep
    <3>2. PICK h \in {"blocked", "awaiting", "exiting", "dropping"} :
            handle' = [handle EXCEPT ![v] = h]
      BY <2>3, HandlingStep
    <3>3. handle[v] \notin {"none", "gone"}
      BY <2>3, HandlingStep
    <3>4. ASSUME NEW w \in Workers PROVE Account(w)'
      <4> USE DEF setup, exit_state, reporting
      <4>1. CASE w = v
        <5>1. handle'[w] \notin {"none", "gone"} /\ handle[w] \notin {"none", "gone"}
          BY <3>2, <3>3, <4>1 DEF Types
        <5>2. Gone(w)' = Gone(w)
          BY <5>1 DEF Gone
        <5>3. Pending(w)' = Pending(w) /\ Dealt(w)' = Dealt(w)
          BY <3>1 DEF Pending, Dealt, TakenUp
        <5>4. Account(w)
          BY DEF Accounts
        <5>5. QED
          BY <3>1, <5>1, <5>2, <5>3, <5>4 DEF Account
      <4>2. CASE w # v
        <5>1. handle'[w] = handle[w]
          BY <3>2, <4>2 DEF Types
        <5>2. QED
          BY <3>1, <5>1, OthersAccount DEF Accounts
      <4>3. QED
        BY <4>1, <4>2
    <3>5. QED
      BY <3>1, <3>4 DEF Accounts, Handled, setup
  <2>4. QED
    BY <2>1, <2>2, <2>3, SpawnAccount, ReportAccount, SignalAccount, ReleaseAccount, DropAccount
<1>2. CASE Same
  <2> USE DEF Same, exit_state, reporting, joining
  <2>1. ASSUME NEW w \in Workers PROVE Account(w)'
    BY <1>2, OthersAccount DEF Accounts
  <2>2. QED
    BY <1>2, <2>1 DEF Accounts, Handled
<1>3. QED
  BY <1>1, <1>2, Steps

\* A step that leaves the hook, lets nobody begin and keeps who is between the
\* halves of an exchange does not open the window.
LEMMA WindowKept ==
  ASSUME HookWindow, panic_hook' = panic_hook,
         \A w \in Workers : phase'[w] = "running" => phase[w] = "running",
         \A w \in Workers : phase[w] \in {"hooking", "cut"} => phase'[w] \in {"hooking", "cut"}
  PROVE HookWindow'
<1> SUFFICES ASSUME NEW w \in Workers, phase'[w] = "running", panic_hook' = "default"
             PROVE \E v \in Workers : phase'[v] \in {"hooking", "cut"}
  BY DEF HookWindow
<1>1. PICK v \in Workers : phase[v] \in {"hooking", "cut"}
  BY DEF HookWindow
<1>2. QED
  BY <1>1

\* Whoever takes the hook is in the window until it is back.
LEMMA StepWindow == Types /\ HookWindow /\ [Next]_vars => HookWindow'
<1> SUFFICES ASSUME Types, HookWindow, [Next]_vars PROVE HookWindow'
  OBVIOUS
<1>1. CASE Moves
  <2>1. PICK v \in Workers : \/ \E c \in Contexts : Spawn(c, v)
                             \/ Quiet(v) \/ Reporting(v) \/ Handling(v)
                             \/ SignalExit(v) \/ Release(v) \/ DropHandle(v)
    BY <1>1 DEF Moves
  <2>2. phase \in [Workers -> Phases]
    BY DEF Types
  <2>3. CASE TakeHook(v)
    <3>1. phase'[v] = "hooking"
      BY <2>2, <2>3 DEF TakeHook, Goto
    <3>2. QED
      BY <3>1 DEF HookWindow
  <2>4. CASE SetHook(v)
    BY <2>4 DEF SetHook, HookWindow
  <2>5. CASE \E c \in Contexts : Spawn(c, v)
    BY <2>2, <2>5, WindowKept DEF Spawn, SpawnWithSharedModule, Goto
  <2>6. CASE Relay(v) \/ Return(v) \/ Panic(v) \/ Trap(v)
    BY <2>2, <2>6, WindowKept DEF Relay, Return, Panic, Trap, Goto
  <2>7. CASE Finish(v) \/ SendResult(v)
    BY <2>2, <2>7, WindowKept DEF Finish, SendResult, Goto
  <2>8. CASE TaskBegin(v) \/ TaskFinished(v) \/ Killed(v)
    BY <2>2, <2>8, WindowKept DEF TaskBegin, TaskFinished, Killed, Goto, Ended
  <2>9. CASE LoadFails(v) \/ EntryThrows(v) \/ Uncaught(v) \/ Exit(v)
    BY <2>2, <2>9, WindowKept, RootAssumption
       DEF LoadFails, EntryThrows, Uncaught, Exit, Throw, Goto, InTask, Ended
  <2>10. CASE Handling(v)
    BY <2>10, HandlingStep, WindowKept
       DEF Handling, Join, JoinOnMain, Received, ExitSeen, ExitOutcome, Abandon, Handle
  <2>11. CASE SignalExit(v) \/ Release(v) \/ DropHandle(v)
    BY <2>11, WindowKept DEF SignalExit, Release, DropHandle
  <2>12. QED
    BY <2>1, <2>3, <2>4, <2>5, <2>6, <2>7, <2>8, <2>9, <2>10, <2>11 DEF Quiet, Reporting
<1>2. CASE Same
  BY <1>2, WindowKept DEF Same
<1>3. QED
  BY <1>1, <1>2, Steps

\* The result is written by the step that ends the closure.
LEMMA StepResults == Types /\ ResultKnown /\ [Next]_vars => ResultKnown'
<1> SUFFICES ASSUME Types, ResultKnown, [Next]_vars PROVE ResultKnown'
  OBVIOUS
<1> USE DEF ResultKnown
<1>1. CASE Moves
  <2>1. PICK v \in Workers : \/ \E c \in Contexts : Spawn(c, v)
                             \/ Quiet(v) \/ Reporting(v) \/ Handling(v)
                             \/ SignalExit(v) \/ Release(v) \/ DropHandle(v)
    BY <1>1 DEF Moves
  <2>2. /\ phase \in [Workers -> Phases]
        /\ result \in [Workers -> {"none", "ok", "err", "lost"}]
    BY DEF Types
  <2> USE DEF Goto, closure
  <2>3. CASE \E c \in Contexts : Spawn(c, v)
    BY <2>2, <2>3 DEF Spawn, SpawnWithSharedModule
  <2>4. CASE Relay(v) \/ TakeHook(v) \/ SetHook(v)
    BY <2>2, <2>4 DEF Relay, TakeHook, SetHook
  <2>5. CASE Return(v) \/ Panic(v) \/ Trap(v)
    BY <2>2, <2>5 DEF Return, Panic, Trap
  <2>6. CASE Finish(v) \/ SendResult(v)
    BY <2>2, <2>6 DEF Finish, SendResult
  <2>7. CASE TaskBegin(v) \/ TaskFinished(v) \/ Killed(v)
    BY <2>2, <2>7 DEF TaskBegin, TaskFinished, Killed
  <2>8. CASE LoadFails(v) \/ EntryThrows(v) \/ Uncaught(v) \/ Exit(v)
    BY <2>2, <2>8 DEF LoadFails, EntryThrows, Uncaught, Exit, Throw
  <2>9. CASE Handling(v)
    BY <2>9 DEF Handling, Join, JoinOnMain, Received, ExitSeen, ExitOutcome, Abandon, Handle
  <2>10. CASE SignalExit(v) \/ Release(v) \/ DropHandle(v)
    BY <2>10 DEF SignalExit, Release, DropHandle
  <2>11. QED
    BY <2>1, <2>3, <2>4, <2>5, <2>6, <2>7, <2>8, <2>9, <2>10 DEF Quiet, Reporting
<1>2. CASE Same
  BY <1>2 DEF Same, closure
<1>3. QED
  BY <1>1, <1>2, Steps

\* A worker's result, the message and the handle fit together.
LEMMA StepTold == Types /\ AllTold /\ [Next]_vars => AllTold'
<1> SUFFICES ASSUME Types, AllTold, [Next]_vars PROVE AllTold'
  OBVIOUS
<1> USE DEF AllTold, Told, Early, closure, joining
<1>1. CASE Moves
  <2>1. PICK v \in Workers : \/ \E c \in Contexts : Spawn(c, v)
                             \/ Quiet(v) \/ Reporting(v) \/ Handling(v)
                             \/ SignalExit(v) \/ Release(v) \/ DropHandle(v)
    BY <1>1 DEF Moves
  <2>2. /\ phase \in [Workers -> Phases]
        /\ result \in [Workers -> {"none", "ok", "err", "lost"}]
        /\ message \in [Workers -> {"none", "ok", "err"}]
        /\ handle \in [Workers -> {"none", "held", "blocked", "awaiting", "exiting",
                                   "dropping", "gone"}]
    BY DEF Types
  <2> USE DEF Goto
  <2>3. CASE \E c \in Contexts : Spawn(c, v)
    BY <2>2, <2>3 DEF Spawn, SpawnWithSharedModule
  <2>4. CASE Relay(v) \/ TakeHook(v) \/ SetHook(v)
    BY <2>2, <2>4 DEF Relay, TakeHook, SetHook
  <2>5. CASE Return(v) \/ Panic(v) \/ Trap(v)
    BY <2>2, <2>5 DEF Return, Panic, Trap
  <2>6. CASE Finish(v) \/ SendResult(v)
    BY <2>2, <2>6 DEF Finish, SendResult
  <2>7. CASE TaskBegin(v) \/ TaskFinished(v) \/ Killed(v)
    BY <2>2, <2>7 DEF TaskBegin, TaskFinished, Killed
  <2>8. CASE LoadFails(v) \/ EntryThrows(v) \/ Uncaught(v) \/ Exit(v)
    BY <2>2, <2>8 DEF LoadFails, EntryThrows, Uncaught, Exit, Throw
  <2>9. CASE Handling(v)
    BY <2>2, <2>9 DEF Handling, Join, JoinOnMain, Received, ExitSeen, ExitOutcome, Abandon, Handle
  <2>10. CASE SignalExit(v) \/ Release(v) \/ DropHandle(v)
    BY <2>2, <2>10 DEF SignalExit, Release, DropHandle
  <2>11. QED
    BY <2>1, <2>3, <2>4, <2>5, <2>6, <2>7, <2>8, <2>9, <2>10 DEF Quiet, Reporting
<1>2. CASE Same
  BY <1>2 DEF Same
<1>3. QED
  BY <1>1, <1>2, Steps

\* Every step keeps the types.
LEMMA StepTypes == Types /\ ResultKnown /\ [Next]_vars => Types'
<1> SUFFICES ASSUME Types, ResultKnown, [Next]_vars PROVE Types'
  OBVIOUS
<1> USE DEF Types, setup, closure, exit_state, reporting, joining
<1>0. 0 \in Nat /\ 1 \in Nat /\ 0 \in 0 .. 2 /\ 1 \in 1 .. 2 /\ 2 \in 1 .. 2
  OBVIOUS
<1>3. {"dead", "cut", "closed", "returned", "panicking", "trapped", "draining"} \subseteq Phases
  BY DEF Phases, Ended
<1>1. CASE Moves
  <2>1. PICK v \in Workers : \/ \E c \in Contexts : Spawn(c, v)
                             \/ Quiet(v) \/ Reporting(v) \/ Handling(v)
                             \/ SignalExit(v) \/ Release(v) \/ DropHandle(v)
    BY <1>1 DEF Moves
  <2>2. ASSUME NEW c \in Contexts, Spawn(c, v) PROVE Types'
    BY <2>2 DEF Spawn, SpawnWithSharedModule, InitHandlers, Allocate, Goto, Phases
  <2>3. CASE Relay(v) \/ TakeHook(v) \/ SetHook(v) \/ Return(v)
    BY <2>3 DEF Relay, TakeHook, SetHook, Return, Goto, Phases
  <2>4. CASE Panic(v) \/ Trap(v) \/ Killed(v)
    <3>1. phase' \in [Workers -> Phases]
      <4>1. \E p \in {"dead", "cut", "panicking", "trapped"} : phase' = [phase EXCEPT ![v] = p]
        BY <2>4 DEF Panic, Trap, Killed, Goto
      <4>2. QED
        BY <1>3, <4>1
    <3>2. result' \in [Workers -> {"none", "ok", "err", "lost"}]
      BY <2>4 DEF Panic, Trap, Killed
    <3>3. QED
      BY <2>4, <3>1, <3>2 DEF Panic, Trap, Killed
  <2>5. CASE Finish(v) \/ SendResult(v)
    <3>1. phase' \in [Workers -> Phases]
      <4>1. CASE Finish(v)
        BY <4>1 DEF Finish
      <4>2. CASE SendResult(v)
        <5>1. \E p \in {"draining", "trapped"} : phase' = [phase EXCEPT ![v] = p]
          BY <4>2 DEF SendResult, Goto
        <5>2. QED
          BY <1>3, <5>1
      <4>3. QED
        BY <2>5, <4>1, <4>2
    <3>2. message' \in [Workers -> {"none", "ok", "err"}]
      BY <2>5 DEF Finish, SendResult, ResultKnown
    <3>3. finished' \in [Workers -> BOOLEAN]
      BY <2>5 DEF Finish, SendResult
    <3>4. QED
      BY <2>5, <3>1, <3>2, <3>3 DEF Finish, SendResult
  <2>6. CASE TaskBegin(v) \/ TaskFinished(v)
    <3>1. tasks[v] \in 0 .. MaxTasks /\ MaxTasks \in Nat
      BY BoundsAssumption
    <3>2. tasks'[v] \in 0 .. MaxTasks /\ tasks' = [tasks EXCEPT ![v] = tasks'[v]]
      BY <2>6, <3>1, RootAssumption DEF TaskBegin, TaskFinished, InTask
    <3>3. tasks' \in [Workers -> 0 .. MaxTasks]
      BY <3>2
    <3>4. QED
      BY <2>6, <3>3 DEF TaskBegin, TaskFinished
  <2>7. CASE Reporting(v)
    <3>1. PICK code \in 1 .. 2 : Report(v, code)
      BY <2>7, ReportingStep
    <3>2. events' \in [Workers -> Seq(1 .. 2)] /\ reports' \in [Workers -> Nat]
      BY <3>1 DEF Report
    <3>3. releasing' \in [Workers -> BOOLEAN]
      BY <3>1 DEF Report
    <3>4. CASE LoadFails(v) \/ EntryThrows(v)
      BY <3>2, <3>3, <3>4 DEF LoadFails, EntryThrows, Throw, Goto, Phases, Ended
    <3>5. CASE Uncaught(v) \/ Exit(v)
      <4>1. \/ phase' = phase
            \/ \E p \in {"dead", "closed"} : phase' = [phase EXCEPT ![v] = p]
        BY <3>5 DEF Uncaught, Exit, Throw, Goto
      <4>2. phase' \in [Workers -> Phases]
        <5>1. ASSUME NEW p \in {"dead", "closed"}, phase' = [phase EXCEPT ![v] = p]
              PROVE phase' \in [Workers -> Phases]
          BY <1>3, <5>1
        <5>2. QED
          BY <4>1, <5>1
      <4>3. QED
        BY <3>2, <3>3, <3>5, <4>2 DEF Uncaught, Exit
    <3>6. QED
      BY <2>7, <3>4, <3>5 DEF Reporting
  <2>8. CASE Handling(v)
    <3>1. outcome' \in [Workers -> {"none", "ok", "err", "failed", "dropped"}]
      <4>1. CASE Received(v)
        <5>1. message[v] \in {"none", "ok", "err"}
          OBVIOUS
        <5>2. PICK o \in {"none", "ok", "err"} : outcome' = [outcome EXCEPT ![v] = o]
          BY <4>1, <5>1 DEF Received, Handle
        <5>3. QED
          BY <5>2
      <4>2. CASE Join(v) \/ JoinOnMain(v) \/ ExitSeen(v) \/ Abandon(v)
        <5>1. PICK o \in {"none", "failed", "ok", "dropped"} : outcome' = [outcome EXCEPT ![v] = o]
          BY <4>2 DEF Join, JoinOnMain, ExitSeen, ExitOutcome, Abandon, Handle
        <5>2. QED
          BY <5>1
      <4>3. QED
        BY <2>8, <4>1, <4>2 DEF Handling
    <3>2. PICK h \in {"blocked", "awaiting", "exiting", "dropping"} :
            handle' = [handle EXCEPT ![v] = h]
      BY <2>8, HandlingStep
    <3>3. UNCHANGED <<setup, panic_hook, phase, spawner, closure, exit_state, reporting>>
      BY <2>8 DEF Handling, Join, JoinOnMain, Received, ExitSeen, ExitOutcome, Abandon, Handle
    <3>4. QED
      BY <3>1, <3>2, <3>3
  <2>9. CASE SignalExit(v)
    <3>1. Head(events[v]) \in 0 .. 2 /\ Tail(events[v]) \in Seq(1 .. 2)
      BY <2>9 DEF SignalExit
    <3>2. QED
      BY <2>9, <3>1 DEF SignalExit
  <2>10. ASSUME Decrement(v, TRUE) \/ Decrement(v, FALSE)
         PROVE ref_count' \in [Workers -> Int] /\ frees' \in [Workers -> Nat]
    <3>1. CASE frees[v] = 0
      <4>1. /\ ref_count' = [ref_count EXCEPT ![v] = @ - 1]
            /\ \E n \in {0, 1} : frees' = [frees EXCEPT ![v] = n]
        BY <2>10, <3>1 DEF Decrement
      <4>2. QED
        BY <1>0, <4>1
    <3>2. CASE frees[v] # 0
      <4>1. PICK n \in {frees[v], frees[v] + 1} : frees' = [frees EXCEPT ![v] = n]
        BY <2>10, <3>2 DEF Decrement
      <4>2. n \in Nat
        OBVIOUS
      <4>3. QED
        BY <2>10, <3>2, <4>1, <4>2 DEF Decrement
    <3>3. QED
      BY <3>1, <3>2
  <2>11. CASE Release(v)
    <3>1. Decrement(v, TRUE) \/ Decrement(v, FALSE)
      BY <2>11 DEF Release, Decrement
    <3>2. ref_count' \in [Workers -> Int] /\ frees' \in [Workers -> Nat]
      BY <2>10, <3>1
    <3>3. QED
      BY <2>11, <3>2 DEF Release
  <2>12. CASE DropHandle(v)
    <3>1. Decrement(v, TRUE) /\ handle' = [handle EXCEPT ![v] = "gone"]
      BY <2>12 DEF DropHandle
    <3>2. ref_count' \in [Workers -> Int] /\ frees' \in [Workers -> Nat]
      BY <2>10, <3>1
    <3>3. QED
      BY <2>12, <3>1, <3>2 DEF DropHandle
  <2>13. QED
    BY <2>1, <2>2, <2>3, <2>4, <2>5, <2>6, <2>7, <2>8, <2>9, <2>11, <2>12 DEF Quiet
<1>2. CASE Same
  BY <1>2 DEF Same
<1>4. QED
  BY <1>1, <1>2, Steps

-----------------------------------------------------------------------------
(* The theorems *)

\* Results, messages, accounts and the hook agree at every moment of every run.
THEOREM Invariance == Spec => []IndInv
<1>1. IndInv /\ [Next]_vars => IndInv'
  BY StepTypes, StepResults, StepTold, StepAccounts, StepWindow DEF IndInv
<1>2. QED
  BY InitInv, <1>1, PTL DEF Spec

\* Builder::spawn, signalExit, decrementRefCountAndCleanup and JoinHandle::drop:
\* the memory of the exit state is freed once, by the last of its two owners.
THEOREM NoDoubleFree == Spec => []FreedByLast
<1>1. IndInv => FreedByLast
  <2> SUFFICES ASSUME IndInv, NEW w \in Workers, node \/ reports[w] <= 1
               PROVE frees[w] <= 1 /\ (frees[w] = 1 => Reported(w) /\ handle[w] = "gone")
    BY DEF FreedByLast
  <2>1. Account(w) /\ frees[w] \in Nat /\ Len(events[w]) \in Nat /\ events[w] \in Seq(1 .. 2)
    BY DEF IndInv, Accounts, Types
  <2>2. CASE frees[w] > 0
    <3>1. frees[w] = 1 /\ reports[w] = 1 /\ Pending(w) = 0 /\ handle[w] = "gone"
      BY <2>1, <2>2 DEF Account
    <3>2. TakenUp(w) \in Nat /\ (TakenUp(w) = 0 => ~releasing[w])
      BY DEF TakenUp
    <3>3. events[w] = <<>> /\ ~releasing[w]
      BY <2>1, <3>1, <3>2 DEF Pending
    <3>4. QED
      BY <3>1, <3>3 DEF Reported
  <2>3. CASE ~(frees[w] > 0)
    BY <2>1, <2>3
  <2>4. QED
    BY <2>2, <2>3
<1>2. QED
  BY Invariance, <1>1, PTL

\* INIT_HANDLERS: the root's context has the cleanup handler, so that the
\* memory of every worker the root manages is freed in the end.
THEOREM NoLeak == Spec => []FreedInTheEnd
<1>1. IndInv => FreedInTheEnd
  <2> SUFFICES ASSUME IndInv, NEW w \in Workers, Reported(w), handle[w] = "gone", frees[w] = 0
               PROVE node /\ spawner[w] # Root
    BY DEF FreedInTheEnd, IndInv, Types
  <2>1. Account(w) /\ reports[w] \in Nat /\ phase[w] # "unborn"
    BY DEF IndInv, Accounts, Types, Account, Reported
  <2>2. Dealt(w) = reports[w] /\ reports[w] >= 1
    BY <2>1 DEF Reported, Dealt, Pending, TakenUp
  <2>3. Gone(w) = 1 /\ ref_count[w] \in 0 .. 2
    BY <2>1 DEF Gone, Account
  <2>4. ref_count[w] + Dealt(w) + Gone(w) = 2
    BY <2>1 DEF Account
  <2>5. ref_count[w] = 0
    BY <2>1, <2>2, <2>3, <2>4
  <2>6. QED
    BY <2>1, <2>5 DEF Account
<1>2. QED
  BY Invariance, <1>1, PTL

\* take_hook and set_hook of Builder::spawn: when nobody is between the two, a
\* panic of any running closure is sent to its join.
THEOREM HookKept == Spec => []HookWindow
BY Invariance, PTL DEF IndInv

\* Every variable has its type; the count of references stays from 0 to 2.
THEOREM Typed == Spec => []TypeOK
<1>1. IndInv => TypeOK
  <2> SUFFICES ASSUME IndInv PROVE TypeOK
    OBVIOUS
  <2>1. ref_count \in [Workers -> 0 .. 2]
    BY DEF IndInv, Types, Accounts, Account
  <2>2. QED
    BY <2>1 DEF IndInv, Types, TypeOK, Phases
<1>2. QED
  BY Invariance, <1>1, PTL

-----------------------------------------------------------------------------
(* The refinement *)

\* Spawns and the ends of closures are seen; the handles are not touched.
LEMMA SpawnMaps ==
  ASSUME IndInv, NEW c \in Contexts, NEW v \in Workers, Spawn(c, v)
  PROVE [Abs!Next]_(Abs!vars)
<1>1. /\ phase \in [Workers -> Phases]
      /\ handle \in [Workers -> {"none", "held", "blocked", "awaiting", "exiting",
                                 "dropping", "gone"}]
  BY DEF IndInv, Types
<1>2. phase[v] = "unborn" /\ handle[v] = "none" /\ result[v] = "none"
  BY DEF Spawn, IndInv, Accounts, Account, AllTold, Told, Early
<1>3. phase' = [phase EXCEPT ![v] = phase'[v]] /\ phase'[v] # "unborn"
  BY <1>1 DEF Spawn, SpawnWithSharedModule, Goto
<1>4. UNCHANGED <<result, outcome>>
  BY DEF Spawn, closure
<1>5. Life' = [Life EXCEPT ![v] = "running"] /\ Life[v] = "unborn"
  BY <1>1, <1>2, <1>3, <1>4 DEF Life
<1>6. handle' = [handle EXCEPT ![v] = "held"]
  BY DEF Spawn
<1>7. Answers' = Answers
  BY <1>1, <1>2, <1>4, <1>6 DEF Answers
<1>8. Abs!Spawn(v)
  BY <1>5, <1>7 DEF Abs!Spawn
<1>9. QED
  BY <1>8 DEF Abs!Next

\* A step that only ends a closure, or does not.
LEMMA EndMaps ==
  ASSUME IndInv, NEW v \in Workers, UNCHANGED joining,
         phase[v] # "unborn", phase'[v] # "unborn",
         \A w \in Workers : w # v => phase'[w] = phase[w],
         \/ result' = result
         \/ /\ result[v] = "none"
            /\ \E r \in {"ok", "err", "lost"} : result' = [result EXCEPT ![v] = r]
  PROVE [Abs!Next]_(Abs!vars)
<1>1. result \in [Workers -> {"none", "ok", "err", "lost"}]
  BY DEF IndInv, Types
<1>2. Answers' = Answers
  BY DEF Answers, joining
<1>3. CASE result' = result
  <2>1. Life' = Life
    BY <1>3 DEF Life
  <2>2. QED
    BY <1>2, <2>1 DEF Abs!vars
<1>4. ASSUME NEW r \in {"ok", "err", "lost"}, result[v] = "none",
             result' = [result EXCEPT ![v] = r]
      PROVE [Abs!Next]_(Abs!vars)
  <2>1. Life[v] = "running" /\ Life' = [Life EXCEPT ![v] = r]
    BY <1>1, <1>4 DEF Life
  <2>2. Abs!End(v)
    BY <1>2, <2>1 DEF Abs!End
  <2>3. QED
    BY <2>2 DEF Abs!Next
<1>5. QED
  BY <1>3, <1>4

\* The handle asks, is answered with the result, fails or is dropped.
LEMMA HandleMaps ==
  ASSUME IndInv, NEW v \in Workers, Handling(v)
  PROVE [Abs!Next]_(Abs!vars)
<1>1. /\ handle \in [Workers -> {"none", "held", "blocked", "awaiting", "exiting",
                                 "dropping", "gone"}]
      /\ outcome \in [Workers -> {"none", "ok", "err", "failed", "dropped"}]
      /\ result[v] \in {"none", "ok", "err", "lost"}
  BY DEF IndInv, Types
<1>2. UNCHANGED <<phase, result>> /\ Life' = Life
  BY DEF Handling, Join, JoinOnMain, Received, ExitSeen, ExitOutcome, Abandon, Handle, closure, Life
<1>3. Life[v] \in {"running", "ok", "err", "lost"}
  <2>1. phase[v] # "unborn"
    BY HandlingStep DEF IndInv, Accounts, Account
  <2>2. QED
    BY <1>1, <2>1 DEF Life
<1>4. message[v] # "none" => Life[v] = message[v] /\ message[v] \in {"ok", "err"}
  BY DEF IndInv, Types, AllTold, Told, Early, Life
<1>5. handle[v] = "exiting" => message[v] = "ok"
  BY DEF IndInv, AllTold, Told
<1>6. CASE Join(v)
  <2>1. handle[v] = "held" /\ outcome' = [outcome EXCEPT ![v] = "none"]
    BY <1>6 DEF Join, Handle
  <2>2. PICK h \in {"blocked", "awaiting"} : handle' = [handle EXCEPT ![v] = h]
    BY <1>6 DEF Join, Handle
  <2>3. Answers[v] = "none" /\ Answers' = [Answers EXCEPT ![v] = "asked"]
    BY <1>1, <2>1, <2>2 DEF Answers
  <2>4. Abs!Ask(v)
    BY <1>2, <1>3, <2>3 DEF Abs!Ask
  <2>5. QED
    BY <2>4 DEF Abs!Next
<1>7. ASSUME NEW o \in {"ok", "err", "failed", "dropped"},
             handle[v] \notin {"none", "dropping", "gone"}, Handle(v, "dropping", o)
      PROVE /\ Answers' = [Answers EXCEPT ![v] = o]
            /\ Answers[v] = IF handle[v] = "held" THEN "none" ELSE "asked"
  BY <1>1, <1>7 DEF Handle, Answers
<1>8. CASE JoinOnMain(v)
  <2>1. Answers' = [Answers EXCEPT ![v] = "failed"] /\ Answers[v] = "none"
    BY <1>7, <1>8 DEF JoinOnMain
  <2>2. Abs!Refuse(v)
    BY <1>2, <1>3, <2>1 DEF Abs!Refuse
  <2>3. QED
    BY <2>2 DEF Abs!Next
<1>9. CASE Received(v)
  <2>1. CASE Handle(v, "dropping", message[v]) /\ handle[v] \in {"blocked", "awaiting"}
    <3>1. message[v] \in {"ok", "err"} /\ Life[v] = message[v]
      BY <1>4, <1>9 DEF Received
    <3>2. Answers' = [Answers EXCEPT ![v] = Life[v]] /\ Answers[v] = "asked"
      BY <1>7, <2>1, <3>1
    <3>3. Abs!Answer(v)
      BY <1>2, <3>1, <3>2 DEF Abs!Answer
    <3>4. QED
      BY <3>3 DEF Abs!Next
  <2>2. CASE handle[v] = "awaiting" /\ Handle(v, "exiting", "none")
    <3>1. Answers' = Answers
      BY <1>1, <2>2 DEF Handle, Answers
    <3>2. QED
      BY <1>2, <3>1 DEF Abs!vars
  <2>3. QED
    BY <1>9, <2>1, <2>2 DEF Received
<1>10. CASE ExitSeen(v)
  <2>1. handle[v] = "exiting" /\ Life[v] = "ok"
    BY <1>4, <1>5, <1>10 DEF ExitSeen, ExitOutcome
  <2>2. PICK o \in {"failed", "ok"} : Handle(v, "dropping", o)
    BY <1>10 DEF ExitSeen, ExitOutcome
  <2>3. Answers' = [Answers EXCEPT ![v] = o] /\ Answers[v] = "asked"
    BY <1>7, <2>1, <2>2
  <2>4. Abs!Answer(v) \/ Abs!Fail(v)
    BY <1>2, <2>1, <2>3 DEF Abs!Answer, Abs!Fail
  <2>5. QED
    BY <2>4 DEF Abs!Next
<1>11. CASE Abandon(v)
  <2>1. Answers' = [Answers EXCEPT ![v] = "dropped"] /\ Answers[v] \in {"none", "asked"}
    BY <1>7, <1>11 DEF Abandon
  <2>2. Abs!Drop(v)
    BY <1>2, <1>3, <2>1 DEF Abs!Drop
  <2>3. QED
    BY <2>2 DEF Abs!Next
<1>12. QED
  BY <1>6, <1>8, <1>9, <1>10, <1>11 DEF Handling

\* Every step is a step of the abstract threads, or none.
LEMMA StepMaps == IndInv /\ [Next]_vars => [Abs!Next]_(Abs!vars)
<1> SUFFICES ASSUME IndInv, [Next]_vars PROVE [Abs!Next]_(Abs!vars)
  OBVIOUS
<1>1. CASE Moves
  <2>1. PICK v \in Workers : \/ \E c \in Contexts : Spawn(c, v)
                             \/ Quiet(v) \/ Reporting(v) \/ Handling(v)
                             \/ SignalExit(v) \/ Release(v) \/ DropHandle(v)
    BY <1>1 DEF Moves
  <2>2. /\ phase \in [Workers -> Phases]
        /\ result \in [Workers -> {"none", "ok", "err", "lost"}]
    BY DEF IndInv, Types
  <2>3. phase[v] \in Early => result[v] = "none"
    BY DEF IndInv, AllTold, Told
  <2> USE DEF Goto, closure
  <2>4. CASE Relay(v) \/ TakeHook(v) \/ SetHook(v)
    BY <2>2, <2>4, EndMaps DEF Relay, TakeHook, SetHook
  <2>5. CASE Return(v) \/ Panic(v) \/ Trap(v)
    <3>1. result[v] = "none" /\ phase[v] = "running"
      BY <2>3, <2>5 DEF Return, Panic, Trap, Early
    <3>2. \E r \in {"ok", "err", "lost"} : result' = [result EXCEPT ![v] = r]
      BY <2>5 DEF Return, Panic, Trap
    <3>3. /\ \A w \in Workers : w # v => phase'[w] = phase[w]
          /\ phase'[v] # "unborn"
      BY <2>2, <2>5 DEF Return, Panic, Trap
    <3>4. UNCHANGED joining
      BY <2>5 DEF Return, Panic, Trap
    <3>5. QED
      BY <3>1, <3>2, <3>3, <3>4, EndMaps
  <2>6. CASE Finish(v) \/ SendResult(v) \/ TaskBegin(v) \/ TaskFinished(v)
    <3>1. UNCHANGED <<result, joining>>
      BY <2>6 DEF Finish, SendResult, TaskBegin, TaskFinished
    <3>2. Life' = Life
      <4>1. \A w \in Workers : (phase'[w] = "unborn") <=> (phase[w] = "unborn")
        BY <2>2, <2>6, QuietStep DEF Quiet
      <4>2. QED
        BY <3>1, <4>1 DEF Life
    <3>3. Answers' = Answers
      BY <3>1 DEF Answers, joining
    <3>4. QED
      BY <3>2, <3>3 DEF Abs!vars
  <2>7. CASE Killed(v)
    <3>1. CASE result[v] = "none"
      <4>1. result' = [result EXCEPT ![v] = "lost"]
        BY <2>2, <2>7, <3>1 DEF Killed
      <4>2. QED
        BY <2>2, <2>7, <3>1, <4>1, EndMaps DEF Killed, Ended
    <3>2. CASE result[v] # "none"
      <4>1. result' = result
        BY <2>2, <2>7, <3>2 DEF Killed
      <4>2. QED
        BY <2>2, <2>7, <4>1, EndMaps DEF Killed, Ended
    <3>3. QED
      BY <3>1, <3>2
  <2>8. CASE Reporting(v)
    <3>1. /\ UNCHANGED joining /\ phase[v] # "unborn" /\ phase'[v] # "unborn"
          /\ \A w \in Workers : w # v => phase'[w] = phase[w]
      BY <2>2, <2>8, ReportingStep
    <3>2. \/ result' = result
          \/ /\ result[v] = "none"
             /\ result' = [result EXCEPT ![v] = "lost"]
      BY <2>3, <2>8 DEF Reporting, LoadFails, EntryThrows, Uncaught, Exit, Early
    <3>3. QED
      BY <3>1, <3>2, EndMaps
  <2>9. CASE SignalExit(v) \/ Release(v)
    <3>1. UNCHANGED <<phase, result, joining>>
      BY <2>9 DEF SignalExit, Release
    <3>2. QED
      BY <3>1 DEF Life, Answers, joining, Abs!vars
  <2>10. CASE DropHandle(v)
    <3>1. UNCHANGED <<phase, result, outcome>>
      BY <2>10 DEF DropHandle
    <3>2. handle' = [handle EXCEPT ![v] = "gone"] /\ handle[v] = "dropping"
      BY <2>10 DEF DropHandle
    <3>3. Answers' = Answers
      BY <3>1, <3>2 DEF Answers, IndInv, Types
    <3>4. QED
      BY <3>1, <3>3 DEF Life, Abs!vars
  <2>11. QED
    BY <2>1, <2>4, <2>5, <2>6, <2>7, <2>8, <2>9, <2>10, SpawnMaps, HandleMaps DEF Quiet
<1>2. CASE Same
  BY <1>2 DEF Same, closure, joining, Life, Answers, Abs!vars
<1>3. QED
  BY <1>1, <1>2, Steps

\* join and join_async tell what the closure did, whatever becomes of the worker
\* afterwards: Workers implements AbstractThreads.
THEOREM Refinement == Spec => ImplementsThreads
<1>1. Init => Abs!Init
  BY DEF Init, Abs!Init, Life, Answers
<1>2. QED
  BY <1>1, StepMaps, Invariance, PTL DEF Spec, ImplementsThreads, Abs!Spec
-----------------------------------------------------------------------------
(* What the exit code says *)

\* A list of codes with the one of a worker that is done.
HasDone(codes) == \E i \in 1 .. Len(codes) : codes[i] = 1

\* The code of a worker that is done comes from one that has closed with no task left,
\* and its join_async has not answered while it still asks.
Done(w) == /\ exit_code[w] = 1 \/ HasDone(events[w]) => phase[w] = "closed" /\ tasks[w] = 0
           /\ handle[w] = "exiting" => outcome[w] = "none"

AllDone == \A w \in Workers : Done(w)

\* What a report and the manager's taking of it do to the codes.
LEMMA Codes == ASSUME NEW s \in Seq(1 .. 2)
  PROVE /\ ~HasDone(<<>>)
        /\ \A c \in 1 .. 2 : HasDone(Append(s, c)) => HasDone(s) \/ c = 1
        /\ s # <<>> => /\ Head(s) = 1 => HasDone(s)
                       /\ HasDone(Tail(s)) => HasDone(s)
<1>1. Len(s) \in Nat
  OBVIOUS
<1>2. ~HasDone(<<>>)
  BY DEF HasDone
<1>3. ASSUME NEW c \in 1 .. 2, HasDone(Append(s, c)), c # 1 PROVE HasDone(s)
  <2>1. /\ Len(Append(s, c)) = Len(s) + 1 /\ Append(s, c)[Len(s) + 1] = c
        /\ \A i \in 1 .. Len(s) : Append(s, c)[i] = s[i]
    BY AppendProperties
  <2>2. PICK i \in 1 .. Len(s) + 1 : Append(s, c)[i] = 1
    BY <1>3, <2>1 DEF HasDone
  <2>3. i \in 1 .. Len(s)
    BY <1>1, <1>3, <2>1, <2>2
  <2>4. QED
    BY <2>1, <2>2, <2>3 DEF HasDone
<1>4. ASSUME s # <<>> PROVE /\ Head(s) = 1 => HasDone(s)
                            /\ HasDone(Tail(s)) => HasDone(s)
  <2>1. /\ Len(Tail(s)) = Len(s) - 1 /\ \A i \in 1 .. Len(Tail(s)) : Tail(s)[i] = s[i + 1]
        /\ Len(s) \in Nat \ {0} /\ Head(s) = s[1]
    BY <1>4, HeadTailProperties, EmptySeq
  <2>2. Head(s) = 1 => HasDone(s)
    BY <2>1 DEF HasDone
  <2>3. ASSUME HasDone(Tail(s)) PROVE HasDone(s)
    <3>1. PICK i \in 1 .. Len(Tail(s)) : Tail(s)[i] = 1
      BY <2>3 DEF HasDone
    <3>2. i + 1 \in 1 .. Len(s) /\ s[i + 1] = 1
      BY <2>1, <3>1
    <3>3. QED
      BY <3>2 DEF HasDone
  <2>4. QED
    BY <2>2, <2>3
<1>5. QED
  BY <1>2, <1>3, <1>4

\* The first report of Exit is the only source of that code, and nothing of the worker
\* comes after it.
LEMMA StepDone == Types /\ Accounts /\ AllDone /\ [Next]_vars => AllDone'
<1> SUFFICES ASSUME Types, Accounts, AllDone, [Next]_vars PROVE AllDone'
  OBVIOUS
<1> USE DEF AllDone, closure, joining, exit_state, reporting
<1>1. CASE Moves
  <2>1. PICK v \in Workers : \/ \E c \in Contexts : Spawn(c, v)
                             \/ Quiet(v) \/ Reporting(v) \/ Handling(v)
                             \/ SignalExit(v) \/ Release(v) \/ DropHandle(v)
    BY <1>1 DEF Moves
  <2>2. /\ phase \in [Workers -> Phases] /\ tasks \in [Workers -> 0 .. MaxTasks]
        /\ exit_code \in [Workers -> 0 .. 2] /\ events \in [Workers -> Seq(1 .. 2)]
        /\ outcome \in [Workers -> {"none", "ok", "err", "failed", "dropped"}]
        /\ handle \in [Workers -> {"none", "held", "blocked", "awaiting", "exiting",
                                   "dropping", "gone"}]
    BY DEF Types
  <2> USE DEF Goto
  <2>3. CASE \E c \in Contexts : Spawn(c, v)
    <3>1. /\ phase[v] = "unborn" /\ events' = events /\ tasks' = tasks /\ outcome' = outcome
          /\ exit_code' = [exit_code EXCEPT ![v] = 0] /\ handle' = [handle EXCEPT ![v] = "held"]
          /\ \E p \in {"loading", "relayed"} : phase' = [phase EXCEPT ![v] = p]
      BY <2>3 DEF Spawn, SpawnWithSharedModule, Allocate
    <3>2. QED
      BY <2>2, <3>1 DEF Done
  <2>4. CASE Quiet(v)
    <3>1. UNCHANGED <<exit_state, reporting, joining>>
      BY <2>2, <2>4, QuietStep
    <3>2. \A w \in Workers : phase[w] = "closed" => phase'[w] = "closed" /\ tasks'[w] = tasks[w]
      <4>1. CASE TaskBegin(v) \/ TaskFinished(v)
        BY <2>2, <4>1, RootAssumption DEF TaskBegin, TaskFinished, InClosure, InTask
      <4>2. CASE Relay(v) \/ TakeHook(v) \/ SetHook(v) \/ Return(v) \/ Panic(v) \/ Trap(v)
        BY <2>2, <4>2 DEF Relay, TakeHook, SetHook, Return, Panic, Trap
      <4>3. CASE Finish(v) \/ SendResult(v) \/ Killed(v)
        BY <2>2, <4>3 DEF Finish, SendResult, Killed, Ended
      <4>4. QED
        BY <2>4, <4>1, <4>2, <4>3 DEF Quiet
    <3>3. QED
      BY <3>1, <3>2 DEF Done
  <2>5. CASE Reporting(v)
    <3>1. /\ UNCHANGED <<exit_state, joining>> /\ phase[v] \notin Ended
          /\ \A w \in Workers : w # v => phase'[w] = phase[w]
      BY <2>2, <2>5, ReportingStep
    <3>2. \E c \in 1 .. 2 : /\ events' = [events EXCEPT ![v] = Append(@, c)]
                            /\ c = 1 => phase'[v] = "closed" /\ tasks'[v] = 0
      BY <2>2, <2>5 DEF Reporting, LoadFails, EntryThrows, Uncaught, Exit, Throw, Report
    <3>3. tasks' = tasks
      BY <2>5 DEF Reporting, LoadFails, EntryThrows, Uncaught, Exit
    <3>4. exit_code[v] # 1 /\ ~HasDone(events[v])
      BY <3>1 DEF Done, Ended
    <3>5. Done(v)'
      BY <2>2, <3>1, <3>2, <3>4, Codes DEF Done
    <3>6. ASSUME NEW w \in Workers, w # v PROVE Done(w)'
      BY <2>2, <3>1, <3>2, <3>3, <3>6 DEF Done
    <3>7. QED
      BY <3>5, <3>6
  <2>6. CASE Handling(v)
    <3>1. UNCHANGED <<exit_state, reporting, phase, tasks>>
      BY <2>6 DEF Handling, Join, JoinOnMain, Received, ExitSeen, Abandon, Handle
    <3>2. \E h \in {"blocked", "awaiting", "exiting", "dropping"},
             o \in {"none", "ok", "err", "failed", "dropped"} :
            /\ handle' = [handle EXCEPT ![v] = h] /\ outcome' = [outcome EXCEPT ![v] = o]
            /\ h = "exiting" => o = "none"
      <4>1. message[v] \in {"none", "ok", "err"}
        BY DEF Types
      <4>2. QED
        BY <2>6, <4>1
        DEF Handling, Join, JoinOnMain, Received, ExitSeen, ExitOutcome, Abandon, Handle
    <3>3. QED
      BY <2>2, <3>1, <3>2 DEF Done
  <2>7. CASE SignalExit(v)
    <3>1. /\ UNCHANGED <<phase, tasks, joining>> /\ events[v] # <<>>
          /\ events' = [events EXCEPT ![v] = Tail(@)]
          /\ \E c \in {Head(events[v]), exit_code[v]} : exit_code' = [exit_code EXCEPT ![v] = c]
      BY <2>7 DEF SignalExit
    <3>2. Done(v)'
      BY <2>2, <3>1, Codes DEF Done
    <3>3. ASSUME NEW w \in Workers, w # v PROVE Done(w)'
      BY <2>2, <3>1, <3>3 DEF Done
    <3>4. QED
      BY <3>2, <3>3
  <2>8. CASE Release(v)
    BY <2>8 DEF Release, Done
  <2>9. CASE DropHandle(v)
    BY <2>2, <2>9 DEF DropHandle, Done
  <2>10. QED
    BY <2>1, <2>3, <2>4, <2>5, <2>6, <2>7, <2>8, <2>9
<1>2. CASE Same
  BY <1>2 DEF Same, Done
<1>3. QED
  BY <1>1, <1>2, Steps

\* Only wait_for_exit_async answers a join_async that waits for the exit, and it has read
\* a code that has not been freed.
LEMMA StepAwaits ==
  ASSUME IndInv, AllDone, [Next]_vars, NEW w \in Workers,
         handle[w] = "exiting", outcome'[w] = "ok", node \/ reports[w] <= 1
  PROVE phase[w] = "closed" /\ tasks[w] = 0
<1>1. /\ outcome \in [Workers -> {"none", "ok", "err", "failed", "dropped"}]
      /\ frees[w] \in Nat /\ Account(w) /\ Done(w) /\ message[w] \in {"none", "ok", "err"}
      /\ exit_code[w] \in 0 .. 2
  BY DEF IndInv, Types, Accounts, AllDone
<1>2. frees[w] = 0 /\ outcome[w] = "none"
  BY <1>1 DEF Account, Done
<1>3. ExitSeen(w)
  <2>1. PICK v \in Workers : \/ \E c \in Contexts : Spawn(c, v)
                             \/ Quiet(v) \/ Reporting(v) \/ Handling(v)
                             \/ SignalExit(v) \/ Release(v) \/ DropHandle(v)
    <3>1. ~Same
      BY <1>2 DEF Same, joining
    <3>2. QED
      BY <3>1, Steps DEF Moves
  <2>2. outcome' # outcome
    BY <1>2
  <2>3. Handling(v)
    <3>1. phase \in [Workers -> Phases]
      BY DEF IndInv, Types
    <3>2. Quiet(v) => outcome' = outcome
      BY <3>1, QuietStep DEF joining
    <3>3. Reporting(v) => outcome' = outcome
      BY <3>1, ReportingStep DEF joining
    <3>4. QED
      BY <2>1, <2>2, <3>2, <3>3 DEF Spawn, SignalExit, Release, DropHandle, joining
  <2>4. v = w
    BY <1>1, <1>2, <2>3
    DEF Handling, Join, JoinOnMain, Received, ExitSeen, ExitOutcome, Abandon, Handle
  <2>5. QED
    BY <1>1, <2>3, <2>4 DEF Handling, Join, JoinOnMain, Received, Abandon, Handle
<1>4. exit_code[w] = 1
  <2>1. exit_code[w] # 0 /\ outcome' = [outcome EXCEPT ![w] = ExitOutcome(exit_code[w])]
    BY <1>2, <1>3 DEF ExitSeen, Handle
  <2>2. exit_code[w] # 2
    BY <1>1, <2>1 DEF ExitOutcome
  <2>3. QED
    BY <1>1, <2>1, <2>2
<1>5. QED
  BY <1>1, <1>4 DEF Done

\* join_async: the result is given out only after the worker has closed, with no task
\* left, for any workers, unless one reports its end twice in a browser.
THEOREM ExitIsAwaited == Spec => ExitAwaited
<1>1. Init => AllDone
  <2>1. ~HasDone(<<>>)
    BY EmptySeq DEF HasDone
  <2>2. ASSUME Init, NEW w \in Workers PROVE Done(w)
    <3>1. exit_code[w] = 0 /\ events[w] = <<>> /\ handle[w] = "none"
      BY <2>2 DEF Init
    <3>2. QED
      BY <2>1, <3>1 DEF Done
  <2>3. QED
    BY <2>2 DEF AllDone
<1>2. IndInv /\ AllDone /\ [Next]_vars => AllDone'
  BY StepDone DEF IndInv
<1>3. IndInv /\ AllDone /\ [Next]_vars =>
        [\A w \in Workers : handle[w] = "exiting" /\ outcome'[w] = "ok"
                            /\ (node \/ reports[w] <= 1) =>
           phase[w] = "closed" /\ tasks[w] = 0]_vars
  BY StepAwaits
<1>4. QED
  BY <1>1, <1>2, <1>3, Invariance, PTL DEF Spec, ExitAwaited
=============================================================================
