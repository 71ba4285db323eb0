--------------------------- MODULE ThreadsProofs ---------------------------
(* Proofs about Threads for any number of threads and clients, any names and *)
(* functions and any number of changes: whoever joins a thread is told how   *)
(* its closure ended, and a finished thread has its result ready.            *)
EXTENDS Threads, SequenceTheorems, WellFoundedInduction, TLAPS

Places == {"unborn", "hooks", "in_hook", "closure", "ended", "sent", "unsent", "exited"}

\* The types of what the result passes through.
Types == /\ pc \in [Threads -> Places]
         /\ result \in [Threads -> {"none", "ok", "err"}]
         /\ sent \in [Threads -> {"none", "ok", "err"}]
         /\ handle \in [Threads -> {"none", "held", "joining", "gone"}]
         /\ outcome \in [Threads -> {"none", "ok", "err", "panicked", "dropped"}]

\* Where a closure has not ended.
Early == {"unborn", "hooks", "in_hook", "closure", "unsent"}

\* How a thread's place, its result, the channel and the handle fit together.
\* A thread that is through with a result has sent it, if anybody is there.
Told(t) == /\ pc[t] \in Early => result[t] = "none"
           /\ pc[t] \in {"ended", "sent"} => result[t] # "none"
           /\ pc[t] = "unborn" => handle[t] = "none"
           /\ sent[t] # "none" => sent[t] = result[t]
           /\ handle[t] # "gone" /\ pc[t] \in {"sent", "exited"} => sent[t] = result[t]

IndInv == Types /\ \A t \in Threads : Told(t)

\* Before the first spawn no thread has told anything.
LEMMA InitInv == Init => IndInv
BY DEF Init, IndInv, Types, Told, Places, Early

\* The steps, with what they have of the registry left out.
LEMMA Steps ==
  ASSUME [Next]_vars
  PROVE \/ UNCHANGED thread
        \/ \E t \in Threads :
             \/ Spawn(t) \/ RunHook(t) \/ HookReturns(t) \/ HookPanics(t) \/ BeginClosure(t)
             \/ ClosureEnds(t) \/ Send(t) \/ Exit(t)
             \/ Join(t) \/ Receive(t) \/ Disconnected(t) \/ DropHandle(t)
BY DEF Next, vars, ThreadStep, HandleStep, Reenter

\* Every step keeps the types ...
LEMMA StepTypes == Types /\ [Next]_vars => Types'
<1> SUFFICES ASSUME Types, [Next]_vars PROVE Types'
  OBVIOUS
<1> USE DEF Types, Places, Goto, Conclude
<1>1. CASE UNCHANGED thread
  BY <1>1 DEF thread
<1>2. ASSUME NEW t \in Threads, Spawn(t) PROVE Types'
  BY <1>2 DEF Spawn
<1>3. ASSUME NEW t \in Threads, RunHook(t) \/ HookReturns(t) \/ HookPanics(t) PROVE Types'
  BY <1>3 DEF RunHook, HookReturns, HookPanics
<1>4. ASSUME NEW t \in Threads, BeginClosure(t) \/ Exit(t) PROVE Types'
  BY <1>4 DEF BeginClosure, Exit
<1>5. ASSUME NEW t \in Threads, ClosureEnds(t) PROVE Types'
  BY <1>5 DEF ClosureEnds
<1>6. ASSUME NEW t \in Threads, Send(t) PROVE Types'
  BY <1>6 DEF Send
<1>7. ASSUME NEW t \in Threads, Join(t) \/ Disconnected(t) \/ DropHandle(t) PROVE Types'
  BY <1>7 DEF Join, Disconnected, DropHandle
<1>8. ASSUME NEW t \in Threads, Receive(t) PROVE Types'
  <2>1. sent[t] \in {"none", "ok", "err"}
    OBVIOUS
  <2>2. QED
    BY <1>8, <2>1 DEF Receive
<1>9. QED
  BY Steps, <1>1, <1>2, <1>3, <1>4, <1>5, <1>6, <1>7, <1>8

\* ... and what is told of the result.
LEMMA StepTold == IndInv /\ [Next]_vars => \A t \in Threads : Told(t)'
<1> SUFFICES ASSUME IndInv, [Next]_vars PROVE \A t \in Threads : Told(t)'
  OBVIOUS
<1> USE DEF IndInv, Types, Told, Early, Goto, Conclude
<1> DEFINE New == \A t \in Threads : Told(t)'
<1>1. CASE UNCHANGED thread
  BY <1>1 DEF thread
<1>2. ASSUME NEW t \in Threads, Spawn(t) PROVE New
  BY <1>2 DEF Spawn
<1>3. ASSUME NEW t \in Threads, RunHook(t) \/ HookReturns(t) \/ HookPanics(t) PROVE New
  BY <1>3 DEF RunHook, HookReturns, HookPanics
<1>4. ASSUME NEW t \in Threads, BeginClosure(t) \/ ClosureEnds(t) PROVE New
  BY <1>4 DEF BeginClosure, ClosureEnds
<1>5. ASSUME NEW t \in Threads, Send(t) PROVE New
  BY <1>5 DEF Send
<1>6. ASSUME NEW t \in Threads, Exit(t) PROVE New
  BY <1>6 DEF Exit
<1>7. ASSUME NEW t \in Threads, Join(t) PROVE New
  BY <1>7 DEF Join
<1>8. ASSUME NEW t \in Threads, Receive(t) \/ Disconnected(t) \/ DropHandle(t) PROVE New
  BY <1>8 DEF Receive, Disconnected, DropHandle
<1>9. QED
  BY Steps, <1>1, <1>2, <1>3, <1>4, <1>5, <1>6, <1>7, <1>8

\* What a thread has told, at every moment of every run, is its own result.
THEOREM Invariance == Spec => []IndInv
<1>1. IndInv /\ [Next]_vars => IndInv'
  BY StepTypes, StepTold DEF IndInv
<1>2. QED
  BY InitInv, <1>1, PTL DEF Spec

\* Builder::spawn sends before the thread ends: is_finished means that a join
\* has its result, or that a spawn hook has panicked and there is none.
THEOREM FinishedHasResult == Spec => []FinishedIsJoinable
<1>1. IndInv => FinishedIsJoinable
  BY DEF IndInv, Told, FinishedIsJoinable, IsFinished
<1>2. QED
  BY Invariance, <1>1, PTL

-----------------------------------------------------------------------------
(* The refinement *)

\* A thread's step either leaves its closure's life alone, begins it or ends it.
LEMMA LifeMaps ==
  ASSUME IndInv, NEW t \in Threads, Answers' = Answers,
         \/ Life' = Life
         \/ Life[t] = "unborn" /\ Life' = [Life EXCEPT ![t] = "running"]
         \/ /\ Life[t] = "running"
            /\ \E r \in {"ok", "err", "lost"} : Life' = [Life EXCEPT ![t] = r]
  PROVE [Abs!Next]_(Abs!vars)
<1>1. CASE Life' = Life
  BY <1>1 DEF Abs!vars
<1>2. CASE Life[t] = "unborn" /\ Life' = [Life EXCEPT ![t] = "running"]
  BY <1>2 DEF Abs!Next, Abs!Spawn
<1>3. CASE /\ Life[t] = "running"
           /\ \E r \in {"ok", "err", "lost"} : Life' = [Life EXCEPT ![t] = r]
  BY <1>3 DEF Abs!Next, Abs!End
<1>4. QED
  BY <1>1, <1>2, <1>3

\* The handle asks, and is answered, fails or is dropped.
LEMMA HandleMaps ==
  ASSUME IndInv, NEW t \in Threads, Join(t) \/ Receive(t) \/ Disconnected(t) \/ DropHandle(t)
  PROVE [Abs!Next]_(Abs!vars)
<1>1. /\ handle \in [Threads -> {"none", "held", "joining", "gone"}]
      /\ outcome \in [Threads -> {"none", "ok", "err", "panicked", "dropped"}]
      /\ sent[t] \in {"none", "ok", "err"}
  BY DEF IndInv, Types
<1>2. Life' = Life
  BY DEF Join, Receive, Disconnected, DropHandle, Conclude, Life
<1>3. Life[t] # "unborn"
  BY DEF Join, Receive, Disconnected, DropHandle, IndInv, Types, Told, Life
<1>4. Told(t)
  BY DEF IndInv
<1>5. CASE Join(t)
  <2>1. Answers[t] = "none" /\ Answers' = [Answers EXCEPT ![t] = "asked"]
    BY <1>1, <1>5 DEF Join, Answers
  <2>2. QED
    BY <1>2, <1>3, <2>1 DEF Abs!Next, Abs!Ask
<1>6. CASE Receive(t)
  <2>1. Life[t] = sent[t] /\ sent[t] \in {"ok", "err"}
    BY <1>1, <1>4, <1>6 DEF Receive, Life, Told, Early
  <2>2. Answers[t] = "asked" /\ Answers' = [Answers EXCEPT ![t] = sent[t]]
    BY <1>1, <1>6, <2>1 DEF Receive, Conclude, Answers
  <2>3. QED
    BY <1>2, <2>1, <2>2 DEF Abs!Next, Abs!Answer
<1>7. CASE Disconnected(t)
  <2>1. Life[t] = "lost"
    BY <1>4, <1>7 DEF Disconnected, Life, Told
  <2>2. Answers[t] = "asked" /\ Answers' = [Answers EXCEPT ![t] = "failed"]
    BY <1>1, <1>7 DEF Disconnected, Conclude, Answers
  <2>3. QED
    BY <1>2, <2>1, <2>2 DEF Abs!Next, Abs!Fail
<1>8. CASE DropHandle(t)
  <2>1. Answers[t] \in {"none", "asked"} /\ Answers' = [Answers EXCEPT ![t] = "dropped"]
    BY <1>1, <1>8 DEF DropHandle, Conclude, Answers
  <2>2. QED
    BY <1>2, <1>3, <2>1 DEF Abs!Next, Abs!Drop
<1>9. QED
  BY <1>5, <1>6, <1>7, <1>8

\* Every step is a step of the abstract threads, or none.
LEMMA StepMaps == IndInv /\ [Next]_vars => [Abs!Next]_(Abs!vars)
<1> SUFFICES ASSUME IndInv, [Next]_vars PROVE [Abs!Next]_(Abs!vars)
  OBVIOUS
<1>0. /\ pc \in [Threads -> Places] /\ result \in [Threads -> {"none", "ok", "err"}]
      /\ handle \in [Threads -> {"none", "held", "joining", "gone"}]
      /\ \A t \in Threads : Told(t)
  BY DEF IndInv, Types
<1> USE DEF Goto
<1>1. CASE UNCHANGED thread
  BY <1>1 DEF thread, Life, Answers, Abs!vars
<1>2. ASSUME NEW t \in Threads, Spawn(t) PROVE [Abs!Next]_(Abs!vars)
  <2>1. Answers' = Answers
    BY <1>0, <1>2 DEF Spawn, Told, Answers
  <2>2. Life[t] = "unborn" /\ Life' = [Life EXCEPT ![t] = "running"]
    BY <1>0, <1>2 DEF Spawn, Told, Early, Life
  <2>3. QED
    BY <2>1, <2>2, LifeMaps
<1>3. ASSUME NEW t \in Threads, RunHook(t) \/ HookReturns(t) \/ BeginClosure(t)
      PROVE [Abs!Next]_(Abs!vars)
  <2>1. /\ UNCHANGED <<result, handle, outcome>>
        /\ \E l \in {"hooks", "in_hook", "closure"} : pc' = [pc EXCEPT ![t] = l]
    BY <1>3 DEF RunHook, HookReturns, BeginClosure
  <2>2. pc[t] \in {"hooks", "in_hook"}
    BY <1>3 DEF RunHook, HookReturns, BeginClosure
  <2>3. Life' = Life
    BY <1>0, <2>1, <2>2 DEF Life
  <2>4. QED
    BY <2>1, <2>3, LifeMaps DEF Answers
<1>4. ASSUME NEW t \in Threads, HookPanics(t) PROVE [Abs!Next]_(Abs!vars)
  <2>1. Life[t] = "running" /\ Life' = [Life EXCEPT ![t] = "lost"]
    BY <1>0, <1>4 DEF HookPanics, Told, Early, Life
  <2>2. Answers' = Answers
    BY <1>4 DEF HookPanics, Answers
  <2>3. QED
    BY <2>1, <2>2, LifeMaps
<1>5. ASSUME NEW t \in Threads, ClosureEnds(t) PROVE [Abs!Next]_(Abs!vars)
  <2>1. PICK r \in {"ok", "err"} : result' = [result EXCEPT ![t] = r]
    BY <1>5 DEF ClosureEnds
  <2>2. pc' = [pc EXCEPT ![t] = "ended"] /\ pc[t] = "closure"
    BY <1>5 DEF ClosureEnds
  <2>3. Life[t] = "running" /\ Life' = [Life EXCEPT ![t] = r]
    BY <1>0, <2>1, <2>2 DEF Told, Early, Life
  <2>4. Answers' = Answers
    BY <1>5 DEF ClosureEnds, Answers
  <2>5. QED
    BY <2>3, <2>4, LifeMaps
<1>6. ASSUME NEW t \in Threads, Send(t) \/ Exit(t) PROVE [Abs!Next]_(Abs!vars)
  <2>1. UNCHANGED <<result, handle, outcome>>
    BY <1>6 DEF Send, Exit
  <2>2. Life' = Life
    BY <1>0, <1>6, <2>1 DEF Send, Exit, Told, Early, Life
  <2>3. QED
    BY <2>1, <2>2, LifeMaps DEF Answers
<1>7. QED
  BY Steps, HandleMaps, <1>1, <1>2, <1>3, <1>4, <1>5, <1>6

\* join and join_async tell how the closure ended, and only a panic of a spawn
\* hook leaves them nothing to tell: Threads implements AbstractThreads.
THEOREM Refinement == Spec => ImplementsThreads
<1>1. Init => Abs!Init
  BY DEF Init, Abs!Init, Life, Answers
<1>2. QED
  BY <1>1, StepMaps, Invariance, PTL DEF Spec, ImplementsThreads, Abs!Spec

(* ------------------------------- the hooks ------------------------------- *)

Hook == [name : Names, fn : Fns]

\* No name is twice in the list.
Unique == \A i, j \in 1 .. Len(hooks) : hooks[i].name = hooks[j].name => i = j

\* A thread that is to copy the list has not begun its hooks, and one that is in a hook
\* has begun one.
Begun(t) == /\ request[t] = Copy => pc[t] = "hooks"
            /\ pc[t] = "in_hook" => ran[t] > 0

HookTypes == /\ hooks \in Seq(Hook)
             /\ request \in [Actors -> Changes \cup {Nothing, Copy}]
             /\ pc \in [Threads -> Places]
             /\ ran \in [Threads -> Nat]
             /\ copy \in [Threads -> Seq(Hook)]

HookInv == HookTypes /\ Unique /\ \A t \in Threads : Begun(t)

NatLess == {p \in Nat \X Nat : p[1] < p[2]}

\* A set of numbers has a least one.
LEMMA MinExists == ASSUME NEW I, I \subseteq Nat, I # {}
  PROVE Min(I) \in I
<1>1. IsWellFoundedOn(NatLess, Nat)
  BY NatLessThanWellFounded DEF OpToRel, NatLess
<1>2. PICK x \in I : \A y \in I : ~(<<y, x>> \in NatLess)
  BY <1>1, WFMin
<1>3. \A y \in I : x <= y
  <2> TAKE y \in I
  <2>1. x \in Nat /\ y \in Nat /\ <<y, x>>[1] = y /\ <<y, x>>[2] = x
    OBVIOUS
  <2>2. y < x => <<y, x>> \in NatLess
    BY <2>1 DEF NatLess
  <2>3. QED
    BY <1>2, <2>1, <2>2
<1>4. QED
  BY <1>3 DEF Min

\* Position is the place of a hook of that name, or 0 if there is none.
LEMMA PositionFinds == ASSUME hooks \in Seq(Hook), NEW n
  PROVE \/ Position(n) = 0 /\ ~ \E i \in 1 .. Len(hooks) : hooks[i].name = n
        \/ Position(n) \in 1 .. Len(hooks) /\ hooks[Position(n)].name = n
<1> DEFINE I == {i \in 1 .. Len(hooks) : hooks[i].name = n}
<1>1. Position(n) = IF I # {} THEN Min(I) ELSE 0
  BY DEF Position, SelectInSeq
<1>2. CASE I = {}
  BY <1>1, <1>2
<1>3. CASE I # {}
  <2>1. I \subseteq Nat
    OBVIOUS
  <2>2. Min(I) \in I
    <3> HIDE DEF I
    <3>1. QED
      BY <1>3, <2>1, MinExists
  <2>3. QED
    BY <1>1, <1>3, <2>2
<1>4. QED
  BY <1>2, <1>3

\* A hook is replaced where it is, or goes to the end of the list.
LEMMA RegisterMaps ==
  ASSUME hooks \in Seq(Hook), Unique, NEW n \in Names, NEW f \in Fns,
         hooks' = IF Position(n) = 0 THEN Append(hooks, [name |-> n, fn |-> f])
                  ELSE ReplaceAt(hooks, Position(n), [name |-> n, fn |-> f])
  PROVE /\ hooks' \in Seq(Hook) /\ Unique'
        /\ hooks' = IF \E i \in DOMAIN hooks : hooks[i].name = n
                    THEN [i \in DOMAIN hooks |->
                           IF hooks[i].name = n THEN [name |-> n, fn |-> f] ELSE hooks[i]]
                    ELSE Append(hooks, [name |-> n, fn |-> f])
<1> DEFINE h == [name |-> n, fn |-> f]
           k == Position(n)
<1>1. h \in Hook /\ h.name = n
  BY DEF Hook
<1>2. /\ Len(hooks) \in Nat /\ hooks \in [1 .. Len(hooks) -> Hook]
      /\ DOMAIN hooks = 1 .. Len(hooks)
  BY LenProperties
<1>3. CASE k = 0
  <2>1. ~ \E i \in 1 .. Len(hooks) : hooks[i].name = n
    BY <1>3, PositionFinds
  <2> HIDE DEF h, k
  <2>2. hooks' = Append(hooks, h)
    BY <1>3 DEF h, k
  <2>3. /\ hooks' \in Seq(Hook) /\ Len(hooks') = Len(hooks) + 1
        /\ \A i \in 1 .. Len(hooks) : hooks'[i] = hooks[i]
        /\ hooks'[Len(hooks) + 1] = h
    BY <1>1, <2>2, AppendProperties
  <2>4. Unique'
    <3> SUFFICES ASSUME NEW i \in 1 .. Len(hooks) + 1, NEW j \in 1 .. Len(hooks) + 1,
                        hooks'[i].name = hooks'[j].name
                 PROVE i = j
      BY <2>3 DEF Unique
    <3>1. \A x \in 1 .. Len(hooks) + 1 : x \in 1 .. Len(hooks) \/ x = Len(hooks) + 1
      BY <1>2
    <3>2. \A x \in 1 .. Len(hooks) + 1 : hooks'[x].name = n <=> x = Len(hooks) + 1
      BY <1>1, <1>2, <2>1, <2>3, <3>1
    <3>3. CASE i \in 1 .. Len(hooks) /\ j \in 1 .. Len(hooks)
      BY <2>3, <3>3 DEF Unique
    <3>4. QED
      BY <1>1, <2>3, <3>1, <3>2, <3>3
  <2>5. QED
    BY <1>2, <2>1, <2>2, <2>3, <2>4 DEF h
<1>4. CASE k # 0
  <2>1. k \in 1 .. Len(hooks) /\ hooks[k].name = n
    BY <1>4, PositionFinds
  <2> HIDE DEF h, k
  <2>2. hooks' = [hooks EXCEPT ![k] = h]
    BY <1>4 DEF h, k, ReplaceAt
  <2>3. /\ hooks' \in Seq(Hook) /\ Len(hooks') = Len(hooks)
        /\ \A i \in 1 .. Len(hooks) : hooks'[i] = IF i = k THEN h ELSE hooks[i]
    BY <1>1, <2>1, <2>2, ExceptSeq
  <2>4. \A i \in 1 .. Len(hooks) : hooks'[i].name = hooks[i].name
    BY <1>1, <2>1, <2>3
  <2>5. Unique'
    BY <2>3, <2>4 DEF Unique
  <2>6. \A i \in 1 .. Len(hooks) : hooks[i].name = n <=> i = k
    BY <2>1 DEF Unique
  <2>7. hooks' = [i \in DOMAIN hooks |-> IF hooks[i].name = n THEN h ELSE hooks[i]]
    BY <1>2, <2>2, <2>6
  <2>8. QED
    BY <1>2, <2>1, <2>3, <2>5, <2>7 DEF h
<1>5. QED
  BY <1>3, <1>4

\* A list without the entry at one place.
LEMMA CutAt == ASSUME NEW S, NEW s \in Seq(S), NEW k \in 1 .. Len(s)
  PROVE /\ SubSeq(s, 1, k - 1) \o SubSeq(s, k + 1, Len(s)) \in Seq(S)
        /\ Len(SubSeq(s, 1, k - 1) \o SubSeq(s, k + 1, Len(s))) = Len(s) - 1
        /\ \A i \in 1 .. Len(s) - 1 :
             (SubSeq(s, 1, k - 1) \o SubSeq(s, k + 1, Len(s)))[i] =
               s[IF i < k THEN i ELSE i + 1]
<1> DEFINE a == SubSeq(s, 1, k - 1)
           b == SubSeq(s, k + 1, Len(s))
           n == Len(s)
<1>1. n \in Nat /\ k \in 1 .. n /\ k \in Int /\ \A i \in 1 .. n : s[i] \in S
  BY LenProperties, ElementOfSeq
<1> HIDE DEF n
<1>2. a \in Seq(S) /\ Len(a) = k - 1 /\ \A i \in 1 .. k - 1 : a[i] = s[i]
  <2>1. 1 \in Int /\ k - 1 \in Int /\ \A i \in 1 .. k - 1 : s[i] \in S
    BY <1>1
  <2>2. /\ a \in Seq(S)
        /\ Len(a) = IF 1 <= k - 1 THEN (k - 1) - 1 + 1 ELSE 0
        /\ \A i \in 1 .. (k - 1) - 1 + 1 : a[i] = s[1 + i - 1]
    BY <2>1, SubSeqProperties
  <2>3. (k - 1) - 1 + 1 = k - 1 /\ (IF 1 <= k - 1 THEN k - 1 ELSE 0) = k - 1
    BY <1>1
  <2>4. \A i \in 1 .. k - 1 : 1 + i - 1 = i
    OBVIOUS
  <2> HIDE DEF a
  <2>5. QED
    BY <2>2, <2>3, <2>4
<1>3. b \in Seq(S) /\ Len(b) = n - k /\ \A i \in 1 .. n - k : b[i] = s[k + i]
  <2>1. k + 1 \in Int /\ n \in Int /\ \A i \in k + 1 .. n : s[i] \in S
    BY <1>1
  <2>2. /\ b \in Seq(S)
        /\ Len(b) = IF k + 1 <= n THEN n - (k + 1) + 1 ELSE 0
        /\ \A i \in 1 .. n - (k + 1) + 1 : b[i] = s[(k + 1) + i - 1]
    BY <2>1, SubSeqProperties DEF n
  <2>3. n - (k + 1) + 1 = n - k /\ (IF k + 1 <= n THEN n - k ELSE 0) = n - k
    BY <1>1
  <2>4. \A i \in 1 .. n - k : (k + 1) + i - 1 = k + i
    BY <1>1
  <2> HIDE DEF b
  <2>5. QED
    BY <2>2, <2>3, <2>4
<1> HIDE DEF a, b
<1>4. /\ a \o b \in Seq(S) /\ Len(a \o b) = n - 1
      /\ \A i \in 1 .. n - 1 : (a \o b)[i] = IF i <= k - 1 THEN a[i] ELSE b[i - (k - 1)]
  <2>1. Len(a) + Len(b) = n - 1
    BY <1>1, <1>2, <1>3
  <2>2. QED
    BY <1>2, <1>3, <2>1, ConcatProperties
<1>5. ASSUME NEW i \in 1 .. n - 1 PROVE (a \o b)[i] = s[IF i < k THEN i ELSE i + 1]
  <2>1. CASE i < k
    <3>1. i <= k - 1 /\ i \in 1 .. k - 1
      BY <1>1, <2>1
    <3>2. QED
      BY <1>2, <1>4, <2>1, <3>1
  <2>2. CASE ~(i < k)
    <3>1. ~(i <= k - 1) /\ i - (k - 1) \in 1 .. n - k /\ k + (i - (k - 1)) = i + 1
      BY <1>1, <2>2
    <3>2. QED
      BY <1>3, <1>4, <2>2, <3>1
  <2>3. QED
    BY <2>1, <2>2
<1>6. QED
  BY <1>4, <1>5 DEF a, b, n

\* Without one hook, the others keep their order and their names are still different.
LEMMA RemoveMaps ==
  ASSUME hooks \in Seq(Hook), Unique, NEW n,
         hooks' = IF Position(n) = 0 THEN hooks ELSE RemoveAt(hooks, Position(n))
  PROVE /\ hooks' \in Seq(Hook) /\ Unique'
        /\ IF \E i \in DOMAIN hooks : hooks[i].name = n
           THEN \E i \in DOMAIN hooks :
                  /\ hooks[i].name = n
                  /\ hooks' = SubSeq(hooks, 1, i - 1) \o SubSeq(hooks, i + 1, Len(hooks))
           ELSE hooks' = hooks
<1> DEFINE k == Position(n)
<1>1. Len(hooks) \in Nat /\ DOMAIN hooks = 1 .. Len(hooks)
  BY LenProperties
<1>2. CASE k = 0
  <2>1. ~ \E i \in 1 .. Len(hooks) : hooks[i].name = n
    BY <1>2, PositionFinds
  <2>2. QED
    BY <1>1, <1>2, <2>1 DEF Unique
<1>3. CASE k # 0
  <2>1. k \in 1 .. Len(hooks) /\ hooks[k].name = n
    BY <1>3, PositionFinds
  <2>2. hooks' = SubSeq(hooks, 1, k - 1) \o SubSeq(hooks, k + 1, Len(hooks))
    BY <1>3 DEF RemoveAt
  <2> HIDE DEF k
  <2>3. /\ hooks' \in Seq(Hook) /\ Len(hooks') = Len(hooks) - 1
        /\ \A i \in 1 .. Len(hooks) - 1 : hooks'[i] = hooks[IF i < k THEN i ELSE i + 1]
    BY <2>1, <2>2, CutAt
  <2>4. Unique'
    <3> SUFFICES ASSUME NEW i \in 1 .. Len(hooks) - 1, NEW j \in 1 .. Len(hooks) - 1,
                        hooks'[i].name = hooks'[j].name
                 PROVE i = j
      BY <2>3 DEF Unique
    <3> DEFINE p == IF i < k THEN i ELSE i + 1
               q == IF j < k THEN j ELSE j + 1
    <3>1. p \in 1 .. Len(hooks) /\ q \in 1 .. Len(hooks)
      BY <1>1
    <3>2. hooks[p].name = hooks[q].name
      BY <2>3
    <3>3. p = q
      <4> HIDE DEF p, q
      <4>1. QED
        BY <3>1, <3>2 DEF Unique
    <3>4. QED
      BY <2>1, <3>3
  <2>5. QED
    BY <1>1, <2>1, <2>2, <2>3, <2>4
<1>4. QED
  BY <1>2, <1>3

\* No call of the registry is the copying of it, nor nothing.
LEMMA ChangesDiffer == /\ Copy # Nothing
                       /\ \A c \in Changes : c # Copy /\ c # Nothing
                       /\ Copy.call = "copy" /\ Nothing.call = "none"
  BY DEF Copy, Nothing, Changes

\* The stage of a thread is the same if nothing of it has changed but a call of the
\* registry that is not the copying.
LEMMA StageKept ==
  ASSUME \A t \in Threads :
           /\ pc'[t] = pc[t] \/ {pc[t], pc'[t]} \subseteq {"hooks", "in_hook"}
                             \/ {pc[t], pc'[t]} \subseteq {"closure", "ended", "sent", "unsent", "exited"}
           /\ request'[t] = Copy <=> request[t] = Copy
  PROVE Stage' = Stage
<1>1. \A t \in Threads : Stage'[t] = Stage[t]
  BY DEF Stage
<1>2. QED
  BY <1>1 DEF Stage

\* One thread comes to another stage.
LEMMA StageMoves ==
  ASSUME NEW t \in Threads, NEW l, Stage'[t] = l,
         \A x \in Threads \ {t} : pc'[x] = pc[x] /\ request'[x] = request[x]
  PROVE Stage' = [Stage EXCEPT ![t] = l]
<1>1. \A x \in Threads \ {t} : Stage'[x] = Stage[x]
  BY DEF Stage
<1>2. Stage = [x \in Threads |-> Stage[x]] /\ Stage' = [x \in Threads |-> Stage'[x]]
  BY DEF Stage
<1>3. QED
  BY <1>1, <1>2

\* The hooks start with the list empty and no thread.
LEMMA HookInit == Init => HookInv /\ AbsHooks!Init
<1> SUFFICES ASSUME Init PROVE HookInv /\ AbsHooks!Init
  OBVIOUS
<1>1. HookTypes /\ Unique
  BY EmptySeq DEF Init, HooksInit, HookTypes, Unique, Places
<1>2. \A t \in Threads : Begun(t)
  BY ChangesDiffer DEF Init, HooksInit, Begun, Actors
<1>3. AbsHooks!Init
  <2>1. \A t \in Threads : Stage[t] = "unborn"
    BY DEF Init, Stage
  <2>2. Stage = [t \in Threads |-> Stage[t]]
    BY DEF Stage
  <2>3. Stage = [t \in Threads |-> "unborn"]
    BY <2>1, <2>2
  <2>4. QED
    BY <2>3 DEF Init, HooksInit, AbsHooks!Init
<1>4. QED
  BY <1>1, <1>2, <1>3 DEF HookInv

\* What a thread does with its copy of the list.
LEMMA HookThreadStep ==
  ASSUME HookInv, NEW t \in Threads, Spawn(t) \/ ThreadStep(t)
  PROVE HookInv' /\ [AbsHooks!Next]_(AbsHooks!vars)
<1> USE DEF Goto
<1>1. /\ hooks \in Seq(Hook) /\ request \in [Actors -> Changes \cup {Nothing, Copy}]
      /\ pc \in [Threads -> Places] /\ ran \in [Threads -> Nat]
      /\ copy \in [Threads -> Seq(Hook)] /\ t \in Actors /\ Threads \subseteq Actors /\ Unique
      /\ \A x \in Threads : Begun(x)
  BY DEF HookInv, HookTypes, Actors
<1>2. hooks' = hooks
  BY DEF Spawn, ThreadStep, RunHook, NextHook, HookReturns, HookPanics, BeginClosure,
         ClosureEnds, Send, Exit, CopyHooks, registry
<1>3. ASSUME HookTypes', Begun(t)', \A x \in Threads \ {t} : Begun(x)' PROVE HookInv'
  BY <1>1, <1>2, <1>3 DEF HookInv, Unique
<1>4. CASE Spawn(t)
  <2>1. /\ pc[t] = "unborn" /\ pc' = [pc EXCEPT ![t] = "hooks"]
        /\ request' = [request EXCEPT ![t] = Copy] /\ UNCHANGED <<ran, copy>>
    BY <1>4 DEF Spawn
  <2>2. HookInv'
    BY <1>1, <1>2, <1>3, <2>1 DEF HookTypes, Begun, Places
  <2>3. Stage[t] = "unborn" /\ Stage' = [Stage EXCEPT ![t] = "starting"]
    <3>1. Stage[t] = "unborn" /\ Stage'[t] = "starting"
      BY <1>1, <2>1 DEF Stage
    <3>2. QED
      BY <1>1, <2>1, <3>1, StageMoves
  <2>4. AbsHooks!Start(t)
    BY <1>2, <2>1, <2>3 DEF AbsHooks!Start
  <2>5. QED
    BY <2>2, <2>4 DEF AbsHooks!Next
<1>5. CASE RunHook(t)
  <2>1. /\ pc[t] = "hooks" /\ pc' = [pc EXCEPT ![t] = "in_hook"] /\ request[t] = Nothing
        /\ ran[t] < Len(copy[t]) /\ ran' = [ran EXCEPT ![t] = @ + 1]
        /\ UNCHANGED <<request, copy>>
    BY <1>5 DEF RunHook, NextHook
  <2>2. HookInv'
    BY <1>1, <1>2, <1>3, <2>1, ChangesDiffer DEF HookTypes, Begun, Places
  <2>3. Stage[t] = "hooks" /\ Stage' = Stage
    BY <1>1, <2>1, StageKept, ChangesDiffer DEF Stage
  <2>4. AbsHooks!Run(t)
    BY <1>2, <2>1, <2>3 DEF AbsHooks!Run
  <2>5. QED
    BY <2>2, <2>4 DEF AbsHooks!Next
<1>6. CASE HookReturns(t)
  <2>1. /\ pc[t] = "in_hook" /\ pc' = [pc EXCEPT ![t] = "hooks"]
        /\ UNCHANGED <<request, copy, ran>>
    BY <1>6 DEF HookReturns, registry
  <2>2. HookInv'
    BY <1>1, <1>2, <1>3, <2>1 DEF HookTypes, Begun, Places
  <2>3. Stage' = Stage
    BY <1>1, <2>1, StageKept
  <2>4. QED
    BY <1>2, <2>1, <2>2, <2>3 DEF AbsHooks!vars
<1>7. CASE HookPanics(t) \/ BeginClosure(t)
  <2>1. /\ request[t] = Nothing /\ pc[t] \in {"hooks", "in_hook"}
        /\ \E l \in {"unsent", "closure"} : pc' = [pc EXCEPT ![t] = l]
        /\ UNCHANGED <<request, copy, ran>>
    BY <1>7 DEF HookPanics, BeginClosure, registry
  <2>2. HookInv'
    BY <1>1, <1>2, <1>3, <2>1, ChangesDiffer DEF HookTypes, Begun, Places
  <2>3. Stage[t] = "hooks" /\ Stage' = [Stage EXCEPT ![t] = "past"]
    <3>1. Stage[t] = "hooks" /\ Stage'[t] = "past"
      BY <1>1, <2>1, ChangesDiffer DEF Stage
    <3>2. QED
      BY <1>1, <2>1, <3>1, StageMoves
  <2>4. AbsHooks!Panic(t) \/ AbsHooks!Begin(t)
    BY <1>1, <1>2, <1>7, <2>1, <2>3
    DEF HookPanics, BeginClosure, Begun, AbsHooks!Panic, AbsHooks!Begin
  <2>5. QED
    BY <2>2, <2>4 DEF AbsHooks!Next
<1>8. CASE ClosureEnds(t) \/ Send(t) \/ Exit(t)
  <2>1. /\ pc[t] \in {"closure", "ended", "sent", "unsent"}
        /\ \E l \in {"ended", "sent", "exited"} : pc' = [pc EXCEPT ![t] = l]
        /\ UNCHANGED <<request, copy, ran>>
    BY <1>8 DEF ClosureEnds, Send, Exit, registry
  <2>2. HookInv'
    BY <1>1, <1>2, <1>3, <2>1 DEF HookTypes, Begun, Places
  <2>3. Stage' = Stage
    BY <1>1, <2>1, StageKept
  <2>4. QED
    BY <1>2, <2>1, <2>2, <2>3 DEF AbsHooks!vars
<1>9. CASE CopyHooks(t) /\ UNCHANGED thread
  <2>1. /\ request[t] = Copy /\ pc' = pc /\ ran' = ran
        /\ request' = [request EXCEPT ![t] = Nothing] /\ copy' = [copy EXCEPT ![t] = hooks]
    BY <1>9 DEF CopyHooks, Unlock, thread
  <2>2. HookInv'
    BY <1>1, <1>2, <1>3, <2>1, ChangesDiffer DEF HookTypes, Begun
  <2>3. Stage[t] = "starting" /\ Stage' = [Stage EXCEPT ![t] = "hooks"]
    <3>1. Stage[t] = "starting" /\ Stage'[t] = "hooks"
      BY <1>1, <2>1, ChangesDiffer DEF Begun, Stage
    <3>2. QED
      BY <1>1, <2>1, <3>1, StageMoves
  <2>4. AbsHooks!Decide(t)
    BY <1>2, <2>1, <2>3 DEF AbsHooks!Decide
  <2>5. QED
    BY <2>2, <2>4 DEF AbsHooks!Next
<1>10. QED
  BY <1>4, <1>5, <1>6, <1>7, <1>8, <1>9 DEF ThreadStep

\* What an actor does with the registry.
LEMMA HookRegistryStep ==
  ASSUME HookInv, NEW a \in Actors, AskChange(a) \/ RegistryStep(a), UNCHANGED thread
  PROVE HookInv' /\ [AbsHooks!Next]_(AbsHooks!vars)
<1>1. /\ hooks \in Seq(Hook) /\ request \in [Actors -> Changes \cup {Nothing, Copy}]
      /\ pc \in [Threads -> Places] /\ ran \in [Threads -> Nat]
      /\ copy \in [Threads -> Seq(Hook)] /\ Threads \subseteq Actors /\ Unique
      /\ \A x \in Threads : Begun(x)
  BY DEF HookInv, HookTypes, Actors
<1>2. UNCHANGED <<pc, ran, copy>>
  BY DEF thread, AskChange, RegistryStep, LockHooks, RegisterHook, RemoveHook, ClearHooks
<1>3. /\ request' \in [Actors -> Changes \cup {Nothing, Copy}]
      /\ \A x \in Threads : request'[x] = Copy <=> request[x] = Copy
  <2>1. CASE LockHooks(a)
    BY <1>1, <2>1 DEF LockHooks
  <2>2. CASE AskChange(a)
    BY <1>1, <2>2, ChangesDiffer DEF AskChange
  <2>3. CASE RegisterHook(a) \/ RemoveHook(a) \/ ClearHooks(a)
    <3>1. request[a] # Copy /\ request' = [request EXCEPT ![a] = Nothing]
      BY <2>3, ChangesDiffer DEF RegisterHook, RemoveHook, ClearHooks, Unlock
    <3>2. QED
      BY <1>1, <3>1, ChangesDiffer
  <2>4. QED
    BY <2>1, <2>2, <2>3 DEF RegistryStep
<1>4. Stage' = Stage
  BY <1>2, <1>3, StageKept
<1>5. ASSUME hooks' \in Seq(Hook), Unique' PROVE HookInv'
  BY <1>1, <1>2, <1>3, <1>5 DEF HookInv, HookTypes, Begun
<1>6. CASE AskChange(a) \/ LockHooks(a)
  <2>1. hooks' = hooks
    BY <1>6 DEF AskChange, LockHooks
  <2>2. QED
    BY <1>1, <1>2, <1>4, <1>5, <2>1 DEF Unique, AbsHooks!vars
<1>7. CASE RegisterHook(a)
  <2> DEFINE n == request[a].name
             f == request[a].fn
  <2>1. n \in Names /\ f \in Fns
    BY <1>1, <1>7 DEF RegisterHook, Changes, Nothing, Copy
  <2>2. hooks' = IF Position(n) = 0 THEN Append(hooks, [name |-> n, fn |-> f])
                 ELSE ReplaceAt(hooks, Position(n), [name |-> n, fn |-> f])
    BY <1>7 DEF RegisterHook
  <2> HIDE DEF n, f
  <2>3. hooks' \in Seq(Hook) /\ Unique' /\ AbsHooks!Register(n, f)
    BY <1>1, <1>2, <1>4, <2>1, <2>2, RegisterMaps DEF AbsHooks!Register
  <2>4. QED
    BY <1>5, <2>1, <2>3 DEF AbsHooks!Next
<1>8. CASE RemoveHook(a)
  <2> DEFINE n == request[a].name
  <2>1. n \in Names
    BY <1>1, <1>8 DEF RemoveHook, Changes, Nothing, Copy
  <2>2. hooks' = IF Position(n) = 0 THEN hooks ELSE RemoveAt(hooks, Position(n))
    BY <1>8 DEF RemoveHook
  <2> HIDE DEF n
  <2>3. hooks' \in Seq(Hook) /\ Unique' /\ AbsHooks!Remove(n)
    BY <1>1, <1>2, <1>4, <2>2, RemoveMaps DEF AbsHooks!Remove
  <2>4. QED
    BY <1>5, <2>1, <2>3 DEF AbsHooks!Next
<1>9. CASE ClearHooks(a)
  <2>1. hooks' = <<>>
    BY <1>9 DEF ClearHooks
  <2>2. HookInv'
    BY <1>5, <2>1, EmptySeq DEF Unique
  <2>3. AbsHooks!Clear
    BY <1>2, <1>4, <2>1 DEF AbsHooks!Clear
  <2>4. QED
    BY <2>2, <2>3 DEF AbsHooks!Next
<1>10. QED
  BY <1>6, <1>7, <1>8, <1>9 DEF RegistryStep

\* Every step of the program is one of the abstract hooks, or none.
LEMMA HookStep == HookInv /\ [Next]_vars => HookInv' /\ [AbsHooks!Next]_(AbsHooks!vars)
<1> SUFFICES ASSUME HookInv, [Next]_vars PROVE HookInv' /\ [AbsHooks!Next]_(AbsHooks!vars)
  OBVIOUS
<1>1. ASSUME UNCHANGED <<hooks, request, copy, ran, pc>>
      PROVE HookInv' /\ [AbsHooks!Next]_(AbsHooks!vars)
  BY <1>1 DEF HookInv, HookTypes, Unique, Begun, Stage, AbsHooks!vars
<1>2. CASE UNCHANGED vars
  BY <1>1, <1>2 DEF vars, registry, thread
<1>3. ASSUME NEW t \in Threads, HandleStep(t) PROVE HookInv' /\ [AbsHooks!Next]_(AbsHooks!vars)
  BY <1>1, <1>3 DEF HandleStep, Join, Receive, Disconnected, DropHandle, Conclude, registry
<1>4. ASSUME NEW a \in Actors, AskChange(a) \/ RegistryStep(a), UNCHANGED thread
      PROVE HookInv' /\ [AbsHooks!Next]_(AbsHooks!vars)
  BY <1>4, HookRegistryStep
<1>5. ASSUME NEW t \in Threads, Spawn(t) \/ ThreadStep(t)
      PROVE HookInv' /\ [AbsHooks!Next]_(AbsHooks!vars)
  BY <1>5, HookThreadStep
<1>6. QED
  BY <1>2, <1>3, <1>4, <1>5 DEF Next, Reenter, Actors

\* Every thread runs, before its closure, the hooks one list held, in order, whatever the
\* registry's callers, its own hooks among them, do meanwhile: run_spawn_hooks.
THEOREM HooksOfOneMoment == Spec => ImplementsHooks
<1>1. Spec => AbsHooks!Init /\ [][AbsHooks!Next]_(AbsHooks!vars)
  BY HookInit, HookStep, PTL DEF Spec
<1>2. QED
  BY <1>1 DEF ImplementsHooks, AbsHooks!Spec

(* ---------------------------- the other types ---------------------------- *)

\* A thread has called no hook before it has copied the list, and none past its end.
InCopy(t) == /\ ran[t] <= Len(copy[t])
             /\ pc[t] = "unborn" \/ request[t] = Copy => ran[t] = 0

CountInv == /\ holder \in Actors \cup {Nobody}
            /\ changes \in 0 .. MaxChanges
            /\ \A t \in Threads : InCopy(t)

\* Every step keeps the holder, the bound and the place in the copy.
LEMMA CountStep == HookInv /\ CountInv /\ [Next]_vars => CountInv'
<1> SUFFICES ASSUME HookInv, CountInv, [Next]_vars PROVE CountInv'
  OBVIOUS
<1> USE DEF Goto
<1>1. /\ request \in [Actors -> Changes \cup {Nothing, Copy}] /\ pc \in [Threads -> Places]
      /\ ran \in [Threads -> Nat] /\ copy \in [Threads -> Seq(Hook)] /\ hooks \in Seq(Hook)
      /\ Threads \subseteq Actors /\ \A t \in Threads : Begun(t)
      /\ \A s \in Seq(Hook) : Len(s) \in Nat
      /\ holder \in Actors \cup {Nobody} /\ changes \in 0 .. MaxChanges
      /\ \A t \in Threads : InCopy(t)
  BY LenProperties DEF HookInv, HookTypes, CountInv, Actors
<1>2. ASSUME UNCHANGED <<ran, copy>>, holder' \in Actors \cup {Nobody},
             changes' \in 0 .. MaxChanges,
             \A t \in Threads : pc'[t] = "unborn" \/ request'[t] = Copy =>
                                pc[t] = "unborn" \/ request[t] = Copy
      PROVE CountInv'
  BY <1>1, <1>2 DEF CountInv, InCopy
<1>3. CASE UNCHANGED vars
  BY <1>1, <1>2, <1>3 DEF vars, registry, thread
<1>4. ASSUME NEW t \in Threads, HandleStep(t) PROVE CountInv'
  BY <1>1, <1>2, <1>4
  DEF HandleStep, Join, Receive, Disconnected, DropHandle, Conclude, registry
<1>5. ASSUME NEW a \in Actors, AskChange(a) \/ RegistryStep(a), UNCHANGED thread PROVE CountInv'
  <2>1. UNCHANGED <<ran, copy, pc>>
    BY <1>5 DEF thread, AskChange, RegistryStep, LockHooks, RegisterHook, RemoveHook, ClearHooks
  <2>2. holder' \in Actors \cup {Nobody}
    BY <1>1, <1>5
    DEF AskChange, RegistryStep, LockHooks, RegisterHook, RemoveHook, ClearHooks, Unlock
  <2>3. changes' \in 0 .. MaxChanges
    BY <1>1, <1>5, MaxChangesAssumption
    DEF AskChange, RegistryStep, LockHooks, RegisterHook, RemoveHook, ClearHooks
  <2>4. \A t \in Threads : request'[t] = Copy => request[t] = Copy
    <3>1. CASE LockHooks(a)
      BY <3>1 DEF LockHooks
    <3>2. CASE AskChange(a)
      BY <1>1, <3>2, ChangesDiffer DEF AskChange
    <3>3. CASE RegisterHook(a) \/ RemoveHook(a) \/ ClearHooks(a)
      BY <1>1, <3>3, ChangesDiffer DEF RegisterHook, RemoveHook, ClearHooks, Unlock
    <3>4. QED
      BY <1>5, <3>1, <3>2, <3>3 DEF RegistryStep
  <2>5. QED
    BY <1>2, <2>1, <2>2, <2>3, <2>4
<1>6. ASSUME NEW t \in Threads, Spawn(t) \/ HookReturns(t) \/ HookPanics(t)
                                \/ BeginClosure(t) \/ ClosureEnds(t) \/ Send(t) \/ Exit(t)
      PROVE CountInv'
  BY <1>1, <1>2, <1>6
  DEF Spawn, HookReturns, HookPanics, BeginClosure, ClosureEnds, Send, Exit, registry
<1>7. ASSUME NEW t \in Threads, RunHook(t) PROVE CountInv'
  <2>1. /\ pc[t] = "hooks" /\ pc' = [pc EXCEPT ![t] = "in_hook"] /\ request[t] = Nothing
        /\ ran[t] < Len(copy[t]) /\ ran' = [ran EXCEPT ![t] = @ + 1]
        /\ UNCHANGED <<request, copy, holder, changes>>
    BY <1>7 DEF RunHook, NextHook
  <2>2. InCopy(t)'
    BY <1>1, <2>1, ChangesDiffer DEF InCopy
  <2>3. \A x \in Threads \ {t} : InCopy(x)'
    BY <1>1, <2>1 DEF InCopy
  <2>4. QED
    BY <1>1, <2>1, <2>2, <2>3 DEF CountInv
<1>8. ASSUME NEW t \in Threads, CopyHooks(t), UNCHANGED thread PROVE CountInv'
  <2>1. /\ request[t] = Copy /\ pc' = pc /\ ran' = ran /\ changes' = changes
        /\ holder' = Nobody
        /\ request' = [request EXCEPT ![t] = Nothing] /\ copy' = [copy EXCEPT ![t] = hooks]
    BY <1>8 DEF CopyHooks, Unlock, thread
  <2>2. InCopy(t)'
    BY <1>1, <2>1 DEF InCopy
  <2>3. \A x \in Threads \ {t} : InCopy(x)'
    BY <1>1, <2>1 DEF InCopy
  <2>4. QED
    BY <1>1, <2>1, <2>2, <2>3 DEF CountInv
<1>9. QED
  BY <1>3, <1>4, <1>5, <1>6, <1>7, <1>8 DEF Next, Reenter, ThreadStep, Actors

\* Every variable has its type, and no thread calls a hook past the end of its copy.
THEOREM Typed == Spec => []TypeOK
<1>1. Init => CountInv
  BY EmptySeq, MaxChangesAssumption DEF Init, HooksInit, CountInv, InCopy
<1>2. Types /\ HookTypes /\ CountInv => TypeOK
  BY DEF Types, HookTypes, CountInv, InCopy, Hook, Places, TypeOK
<1>3. IndInv => Types
  BY DEF IndInv
<1>4. HookInv => HookTypes
  BY DEF HookInv
<1>5. Spec => [](HookInv /\ CountInv)
  BY HookInit, HookStep, <1>1, CountStep, PTL DEF Spec
<1>6. QED
  BY <1>2, <1>3, <1>4, <1>5, Invariance, PTL
=============================================================================
