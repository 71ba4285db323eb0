----------------------------- MODULE MpscProofs -----------------------------
(* Proofs about Mpsc for any sender handles, any bounds and any waits: the   *)
(* mutex is held by one, the count is the number of handles, and with them   *)
(* the channel implements AbstractChannel; every variable has its type; and  *)
(* a receiver beside a message has a notification on its way to it.          *)
EXTENDS Mpsc, FiniteSetTheorems, SequenceTheorems, WellFoundedInduction, TLAPS

\* Between the lock of the mutex and its release.
Holding == {"inside", "counting", "registering", "registered"}
Gone == {"unborn", "dropped"}

PlacesKnown == pc \in [Actors -> Places \cup Gone \cup Holding]
QueueTyped == queue \in Seq(Senders)

\* Who is inside holds the mutex.
Exclusive == \A a \in Actors : pc[a] \in Holding => holder = a

\* The receiver that is about to read the count has seen an empty queue, and it
\* stays empty: a push needs the mutex.
EmptyWhenCounting == pc[Receiver] = "counting" => queue = <<>>

\* sender_count is the number of handles that have not been dropped.
Counted == sender_count = Cardinality(Alive)

ChannelInv == PlacesKnown /\ QueueTyped /\ Exclusive /\ EmptyWhenCounting /\ Counted

\* The receiver waits, the senders and the two drops notify.
LEMMA Roles == /\ Receiver \in Actors /\ Receiver \notin Senders /\ Waiters = {Receiver}
               /\ Senders \subseteq Actors /\ LastDrop \in Actors \ Senders
               /\ ReceiverDrop \in Actors \ Senders /\ Receiver # LastDrop
               /\ Receiver # ReceiverDrop /\ Nobody \notin Actors
               /\ \A n \in Notifiers : n \in Actors /\ n # Receiver
  BY RolesAssumption, ActorsAssumption, NamesAssumption DEF Actors

\* The handles that are there are finitely many.
LEMMA AliveFinite == IsFiniteSet(Alive) /\ Alive \subseteq Senders
  BY SendersAssumption, FS_Subset DEF Alive

\* They are the same while no sender is born or dropped.
LEMMA AliveKept == ASSUME \A s \in Senders : pc[s] \in Gone <=> pc'[s] \in Gone
  PROVE Alive' = Alive
  BY DEF Alive, Gone

\* channel() makes one handle and an empty queue.
LEMMA ChannelInit == Init => ChannelInv /\ Abs!Init
<1> SUFFICES ASSUME Init PROVE ChannelInv /\ Abs!Init
  OBVIOUS
<1>1. Alive = {FirstSender}
  BY SendersAssumption, Roles DEF Init, Alive
<1>2. Cardinality(Alive) = 1
  BY <1>1, FS_Singleton
<1>3. PlacesKnown /\ Exclusive /\ EmptyWhenCounting
  BY Roles DEF Init, PlacesKnown, Places, Gone, Holding, Exclusive, EmptyWhenCounting
<1>4. QED
  BY <1>1, <1>2, <1>3 DEF Init, ChannelInv, QueueTyped, Counted, Abs!Init

\* Nothing the condvar does by itself is a step of the channel.
LEMMA CondvarKeeps == ASSUME ChannelInv, CondvarNext, UNCHANGED <<shared, result>>
  PROVE ChannelInv' /\ UNCHANGED Abs!vars
<1> USE DEF Goto, call, notes, shared
<1>1. /\ pc \in [Actors -> Places \cup Gone \cup Holding]
      /\ queue \in Seq(Senders) /\ UNCHANGED <<queue, sender_count, result>>
      /\ \A a \in Actors : pc[a] \in Holding => holder = a
      /\ EmptyWhenCounting /\ Counted
  BY DEF ChannelInv, PlacesKnown, QueueTyped, Exclusive
<1>2. ASSUME PlacesKnown', Exclusive', \A s \in Senders : pc[s] \in Gone <=> pc'[s] \in Gone,
             pc'[Receiver] = "counting" => pc[Receiver] = "counting"
      PROVE ChannelInv' /\ UNCHANGED Abs!vars
  BY <1>1, <1>2, AliveKept
  DEF ChannelInv, QueueTyped, EmptyWhenCounting, Counted, Abs!vars
<1>3. ASSUME UNCHANGED <<pc, holder>> PROVE ChannelInv' /\ UNCHANGED Abs!vars
  BY <1>1, <1>2, <1>3 DEF PlacesKnown, Exclusive
<1>4. ASSUME NEW a \in Actors, NEW l \in Places \ Holding, pc' = [pc EXCEPT ![a] = l],
             pc[a] \notin Gone, holder' = holder
      PROVE ChannelInv' /\ UNCHANGED Abs!vars
  <2>1. PlacesKnown' /\ Exclusive'
    BY <1>1, <1>4 DEF PlacesKnown, Exclusive
  <2>2. \A s \in Senders : pc[s] \in Gone <=> pc'[s] \in Gone
    BY <1>1, <1>4, Roles DEF Gone, Places
  <2>3. pc'[Receiver] = "counting" => pc[Receiver] = "counting"
    BY <1>1, <1>4, Roles DEF Holding
  <2>4. QED
    BY <1>2, <2>1, <2>2, <2>3
<1>5. CASE Lock(Receiver)
  <2>1. /\ pc' = [pc EXCEPT ![Receiver] = "inside"] /\ holder' = Receiver /\ holder = Nobody
        /\ pc[Receiver] \notin Gone
    BY <1>5 DEF Lock, Gone
  <2>2. PlacesKnown' /\ Exclusive'
    BY <1>1, <2>1, Roles DEF PlacesKnown, Exclusive, Places
  <2>3. \A s \in Senders : pc[s] \in Gone <=> pc'[s] \in Gone
    BY <1>1, <2>1, Roles
  <2>4. pc'[Receiver] = "counting" => pc[Receiver] = "counting"
    BY <1>1, <2>1, Roles
  <2>5. QED
    BY <1>2, <2>2, <2>3, <2>4
<1>6. CASE DropGuard(Receiver)
  <2>1. PICK l \in {"head", "asleep"} :
          /\ pc' = [pc EXCEPT ![Receiver] = l] /\ holder' = Nobody
          /\ pc[Receiver] = "registered"
    BY <1>6 DEF DropGuard
  <2>2. PlacesKnown' /\ Exclusive'
    BY <1>1, <2>1, Roles DEF PlacesKnown, Exclusive, Places, Holding
  <2>3. \A s \in Senders : pc[s] \in Gone <=> pc'[s] \in Gone
    BY <1>1, <2>1, Roles
  <2>4. pc'[Receiver] = "counting" => pc[Receiver] = "counting"
    BY <1>1, <2>1, Roles
  <2>5. QED
    BY <1>2, <2>2, <2>3, <2>4
<1>7. CASE LockParks(Receiver) \/ DeadlinePasses(Receiver) \/ StrayUnpark(Receiver)
  BY <1>3, <1>7 DEF LockParks, DeadlinePasses, StrayUnpark
<1>8. CASE CancelAsync(Receiver)
  BY <1>4, <1>8, Roles DEF CancelAsync, Return, Places, Holding, Gone
<1>9. CASE WaiterStep(Receiver) /\ ~DropGuard(Receiver)
  <2>1. \E l \in {"head", "asleep", "check", "popped", "late", "locking"} :
          /\ pc' = [pc EXCEPT ![Receiver] = l] /\ holder' = holder
          /\ pc[Receiver] \in {"head", "asleep", "check", "popped", "late"}
    BY <1>9 DEF WaiterStep, Wake, LoopHead, ParkTimeout, Check, SpinLate, RaceLate, AsyncLate,
                Relock
  <2>2. QED
    BY <1>4, <2>1, Roles DEF Places, Holding, Gone
<1>10. ASSUME NEW n \in Notifiers, NotifierStep(n) PROVE ChannelInv' /\ UNCHANGED Abs!vars
  <2>1. \/ UNCHANGED <<pc, holder>>
        \/ \E l \in {"idle", "taking", "waking"} :
             /\ pc' = [pc EXCEPT ![n] = l] /\ holder' = holder
             /\ pc[n] \in {"taking", "waking"}
    BY <1>10 DEF NotifierStep, Pop, TakeAll, Deliver, Delivered, NextList
  <2>2. QED
    BY <1>3, <1>4, <2>1, Roles DEF Places, Holding, Gone
<1>11. QED
  BY <1>5, <1>6, <1>7, <1>8, <1>9, <1>10, Roles DEF CondvarNext

\* A clone, a drop and a push are the steps of the abstract senders; the first look at
\* receiver_active, the lock and a cancelled send are none.
LEMMA SenderStep ==
  ASSUME ChannelInv, NEW s \in Senders,
         \/ \E u \in Senders : Clone(s, u)
         \/ DropSender(s) \/ Send(s) \/ CancelSend(s) \/ SendLock(s) \/ Push(s)
  PROVE ChannelInv' /\ [Abs!Next]_(Abs!vars)
<1> USE DEF Goto, call, notes, shared
<1>1. /\ pc \in [Actors -> Places \cup Gone \cup Holding]
      /\ queue \in Seq(Senders) /\ s \in Actors /\ s # Receiver
      /\ \A a \in Actors : pc[a] \in Holding => holder = a
      /\ pc[Receiver] = "counting" => queue = <<>>
      /\ sender_count = Cardinality(Alive)
  BY Roles DEF ChannelInv, PlacesKnown, QueueTyped, Exclusive, EmptyWhenCounting, Counted
<1>2. ASSUME NEW u \in Senders, Clone(s, u) PROVE ChannelInv' /\ [Abs!Next]_(Abs!vars)
  <2>1. /\ pc' = [pc EXCEPT ![u] = "idle"] /\ pc[u] = "unborn" /\ pc[s] = "idle"
        /\ sender_count' = sender_count + 1
        /\ UNCHANGED <<holder, queue, receiver_active, result>>
    BY <1>2 DEF Clone
  <2>2. Alive' = Alive \cup {u} /\ s \in Alive /\ u \notin Alive
    BY <1>1, <2>1, Roles DEF Alive
  <2>3. Cardinality(Alive') = Cardinality(Alive) + 1
    BY <2>2, AliveFinite, FS_AddElement
  <2>4. PlacesKnown' /\ Exclusive' /\ EmptyWhenCounting'
    BY <1>1, <2>1, Roles DEF PlacesKnown, Exclusive, EmptyWhenCounting, Places, Holding
  <2>5. ChannelInv'
    BY <1>1, <2>1, <2>3, <2>4 DEF ChannelInv, QueueTyped, Counted
  <2>6. Abs!Clone(u)
    BY <2>1, <2>2 DEF Abs!Clone
  <2>7. QED
    BY <2>5, <2>6 DEF Abs!Next
<1>3. CASE DropSender(s)
  <2>1. /\ pc[s] = "idle" /\ sender_count' = sender_count - 1
        /\ UNCHANGED <<holder, queue, receiver_active, result>>
        /\ \/ pc' = [pc EXCEPT ![s] = "dropped", ![LastDrop] = "taking"]
           \/ pc' = [pc EXCEPT ![s] = "dropped"]
    BY <1>3 DEF DropSender
  <2>2. Alive' = Alive \ {s} /\ s \in Alive
    BY <1>1, <2>1, Roles DEF Alive
  <2>3. Cardinality(Alive') = Cardinality(Alive) - 1
    BY <2>2, AliveFinite, FS_RemoveElement
  <2>4. PlacesKnown' /\ Exclusive' /\ EmptyWhenCounting'
    BY <1>1, <2>1, Roles
    DEF PlacesKnown, Exclusive, EmptyWhenCounting, Places, Gone, Holding
  <2>5. ChannelInv'
    BY <1>1, <2>1, <2>3, <2>4 DEF ChannelInv, QueueTyped, Counted
  <2>6. Abs!Drop(s)
    BY <2>1, <2>2 DEF Abs!Drop
  <2>7. QED
    BY <2>5, <2>6 DEF Abs!Next
<1>4. CASE Send(s) \/ CancelSend(s) \/ SendLock(s)
  <2>1. \E l \in {"idle", "calling", "inside"} :
          /\ pc' = [pc EXCEPT ![s] = l] /\ pc[s] \in {"idle", "calling"}
          /\ IF l = "inside" THEN holder = Nobody /\ holder' = s ELSE holder' = holder
    BY <1>4 DEF Send, CancelSend, SendLock
  <2>2. UNCHANGED <<queue, sender_count, result>>
    BY <1>4 DEF Send, CancelSend, SendLock
  <2>3. PlacesKnown' /\ Exclusive' /\ EmptyWhenCounting'
    BY <1>1, <2>1, <2>2, Roles
    DEF PlacesKnown, Exclusive, EmptyWhenCounting, Places, Holding
  <2>4. Alive' = Alive
    BY <1>1, <2>1, Roles, AliveKept DEF Gone
  <2>5. QED
    BY <1>1, <2>2, <2>3, <2>4 DEF ChannelInv, QueueTyped, Counted, Abs!vars
<1>5. CASE Push(s)
  <2>1. /\ pc[s] = "inside" /\ holder' = Nobody /\ UNCHANGED <<sender_count, result>>
        /\ \E l \in {"taking", "idle"} : pc' = [pc EXCEPT ![s] = l]
        /\ queue' \in {queue, Append(queue, s)}
    BY <1>5 DEF Push
  <2>2. holder = s /\ pc[Receiver] # "counting"
    BY <1>1, <2>1, Roles DEF Holding
  <2>3. PlacesKnown' /\ Exclusive' /\ EmptyWhenCounting'
    BY <1>1, <2>1, <2>2, Roles
    DEF PlacesKnown, Exclusive, EmptyWhenCounting, Places, Holding
  <2>4. Alive' = Alive /\ s \in Alive
    <3>1. \A x \in Senders : pc[x] \in Gone <=> pc'[x] \in Gone
      BY <1>1, <2>1, Roles DEF Gone
    <3>2. QED
      BY <2>1, <3>1, AliveKept DEF Alive
  <2>5. queue' \in Seq(Senders)
    BY <1>1, <2>1
  <2>6. ChannelInv'
    BY <1>1, <2>1, <2>3, <2>4, <2>5 DEF ChannelInv, QueueTyped, Counted
  <2>7. CASE queue' = queue
    BY <2>1, <2>4, <2>6, <2>7 DEF Abs!vars
  <2>8. CASE queue' = Append(queue, s)
    <3>1. Abs!Send(s)
      BY <2>1, <2>4, <2>8 DEF Abs!Send
    <3>2. QED
      BY <2>6, <3>1 DEF Abs!Next
  <2>9. QED
    BY <2>1, <2>7, <2>8
<1>6. QED
  BY <1>2, <1>3, <1>4, <1>5

\* What the receiver does is a step of the abstract receive, or none.
LEMMA ReceiverMoves ==
  ASSUME ChannelInv, Recv \/ TryRecv \/ LockTimesOut \/ DropReceiver \/ ReceiverStep
  PROVE ChannelInv' /\ [Abs!Next]_(Abs!vars)
<1> USE DEF Goto, call, notes, shared
<1>1. /\ pc \in [Actors -> Places \cup Gone \cup Holding]
      /\ queue \in Seq(Senders)
      /\ \A a \in Actors : pc[a] \in Holding => holder = a
      /\ pc[Receiver] = "counting" => queue = <<>>
      /\ sender_count = Cardinality(Alive)
  BY DEF ChannelInv, PlacesKnown, QueueTyped, Exclusive, EmptyWhenCounting, Counted
<1>2. sender_count' = sender_count
  BY DEF Recv, TryRecv, LockTimesOut, DropReceiver, ReceiverStep, PopFront, WaitTimedOut,
         NothingThere, ReadCount, StartWait
<1>3. \A s \in Senders : pc'[s] = pc[s]
  BY <1>1, Roles
  DEF Recv, Call, TryRecv, LockTimesOut, DropReceiver, ReceiverStep, PopFront, WaitTimedOut,
      NothingThere, ReadCount, StartWait, Leave, Return, Register
<1>4. Alive' = Alive
  BY <1>3, AliveKept
<1>5. ASSUME PlacesKnown', QueueTyped', Exclusive', EmptyWhenCounting' PROVE ChannelInv'
  BY <1>1, <1>2, <1>4, <1>5 DEF ChannelInv, Counted
<1>6. ASSUME NEW l \in Places \cup Holding, pc' = [pc EXCEPT ![Receiver] = l],
             l # "counting", queue' = queue,
             \/ l \in Holding /\ pc[Receiver] \in Holding /\ holder' = holder
             \/ l \in Holding /\ holder = Nobody /\ holder' = Receiver
             \/ l \notin Holding /\ pc[Receiver] \in Holding /\ holder' = Nobody
             \/ l \notin Holding /\ holder' = holder
      PROVE ChannelInv'
  <2>1. PlacesKnown' /\ QueueTyped' /\ EmptyWhenCounting'
    BY <1>1, <1>6, Roles DEF PlacesKnown, QueueTyped, EmptyWhenCounting
  <2>2. Exclusive'
    BY <1>1, <1>6, Roles DEF Exclusive
  <2>3. QED
    BY <1>5, <2>1, <2>2
<1>7. CASE Recv
  <2>1. ChannelInv'
    BY <1>6, <1>7 DEF Recv, Call, Places, Holding
  <2>2. Abs!Ask
    BY <1>4, <1>7 DEF Recv, Abs!Ask
  <2>3. QED
    BY <2>1, <2>2 DEF Abs!Next
<1>8. CASE TryRecv
  <2>1. CASE holder = Nobody
    <3>1. ChannelInv'
      BY <1>6, <1>8, <2>1 DEF TryRecv, Places, Holding
    <3>2. Abs!Ask
      BY <1>4, <1>8, <2>1 DEF TryRecv, Abs!Ask
    <3>3. QED
      BY <3>1, <3>2 DEF Abs!Next
  <2>2. CASE holder # Nobody
    <3>1. ChannelInv'
      BY <1>1, <1>5, <1>8, <2>2
      DEF TryRecv, PlacesKnown, QueueTyped, Exclusive, EmptyWhenCounting
    <3>2. Abs!Fail
      BY <1>4, <1>8, <2>2 DEF TryRecv, Abs!Fail
    <3>3. QED
      BY <3>1, <3>2 DEF Abs!Next
  <2>3. QED
    BY <2>1, <2>2
<1>9. CASE LockTimesOut
  <2>1. ChannelInv'
    BY <1>6, <1>9 DEF LockTimesOut, Return, Places, Holding
  <2>2. Abs!Fail
    BY <1>4, <1>9 DEF LockTimesOut, Abs!Fail
  <2>3. QED
    BY <2>1, <2>2 DEF Abs!Next
<1>10. CASE PopFront
  <2>1. /\ pc' = [pc EXCEPT ![Receiver] = "idle"] /\ holder' = Nobody /\ queue' = Tail(queue)
        /\ pc[Receiver] = "inside" /\ queue # <<>> /\ result' = Head(queue)
    BY <1>10 DEF PopFront, Leave, Return
  <2>2. PlacesKnown' /\ Exclusive' /\ EmptyWhenCounting' /\ QueueTyped'
    BY <1>1, <2>1, Roles
    DEF PlacesKnown, QueueTyped, Exclusive, EmptyWhenCounting, Places, Holding
  <2>3. Abs!Receive
    BY <1>4, <2>1 DEF Abs!Receive
  <2>4. QED
    BY <1>5, <2>2, <2>3 DEF Abs!Next
<1>11. CASE WaitTimedOut
  <2>1. ChannelInv'
    BY <1>6, <1>11 DEF WaitTimedOut, Leave, Return, Places, Holding
  <2>2. Abs!Fail
    BY <1>4, <1>11 DEF WaitTimedOut, Abs!Fail
  <2>3. QED
    BY <2>1, <2>2 DEF Abs!Next
<1>12. CASE NothingThere
  <2>1. PlacesKnown' /\ Exclusive' /\ EmptyWhenCounting' /\ QueueTyped'
    BY <1>1, <1>12, Roles
    DEF NothingThere, PlacesKnown, QueueTyped, Exclusive, EmptyWhenCounting, Places, Holding
  <2>2. QED
    BY <1>4, <1>5, <1>12, <2>1 DEF NothingThere, Abs!vars
<1>13. CASE ReadCount
  <2>1. pc[Receiver] = "counting" /\ queue = <<>> /\ queue' = queue
    BY <1>1, <1>13 DEF ReadCount
  <2>2. ChannelInv'
    BY <1>6, <1>13, <2>1 DEF ReadCount, Leave, Return, Places, Holding
  <2>3. CASE result' = "disconnected" /\ sender_count = 0
    <3>1. Alive = {}
      BY <1>1, <2>3, AliveFinite, FS_EmptySet
    <3>2. Abs!Disconnected
      BY <1>4, <2>1, <2>3, <3>1 DEF Abs!Disconnected
    <3>3. QED
      BY <2>2, <3>2 DEF Abs!Next
  <2>4. CASE result' = "empty"
    <3>1. Abs!Fail
      BY <1>4, <2>1, <2>4 DEF Abs!Fail
    <3>2. QED
      BY <2>2, <3>1 DEF Abs!Next
  <2>5. CASE result' = result
    BY <1>4, <2>1, <2>2, <2>5 DEF Abs!vars
  <2>6. QED
    BY <1>13, <2>3, <2>4, <2>5 DEF ReadCount
<1>14. CASE StartWait
  <2>1. ChannelInv'
    BY <1>6, <1>14 DEF StartWait, Register, Places, Holding
  <2>2. QED
    BY <1>4, <1>14, <2>1 DEF StartWait, Abs!vars
<1>15. CASE DropReceiver
  <2>1. PlacesKnown' /\ Exclusive' /\ EmptyWhenCounting' /\ QueueTyped'
    BY <1>1, <1>15, Roles
    DEF DropReceiver, PlacesKnown, QueueTyped, Exclusive, EmptyWhenCounting, Places, Gone,
        Holding
  <2>2. QED
    BY <1>4, <1>5, <1>15, <2>1 DEF DropReceiver, Abs!vars
<1>16. QED
  BY <1>7, <1>8, <1>9, <1>10, <1>11, <1>12, <1>13, <1>14, <1>15 DEF ReceiverStep

\* Every step of the channel is one of the abstract channel, or none.
LEMMA ChannelStep == ChannelInv /\ [Next]_vars => ChannelInv' /\ [Abs!Next]_(Abs!vars)
<1> SUFFICES ASSUME ChannelInv, [Next]_vars PROVE ChannelInv' /\ [Abs!Next]_(Abs!vars)
  OBVIOUS
<1>1. CASE UNCHANGED vars
  BY <1>1 DEF vars, condvar, shared, ChannelInv, PlacesKnown, QueueTyped, Exclusive,
              EmptyWhenCounting, Counted, Alive, Abs!vars
<1>2. QED
  BY <1>1, CondvarKeeps, SenderStep, ReceiverMoves DEF Next

\* The channel keeps every message and their order, and says Disconnected only when the
\* last has come out and no sender is left, for any senders and any wait of the receiver.
THEOREM Refinement == Spec => ImplementsChannel
<1>1. Spec => Abs!Init /\ [][Abs!Next]_(Abs!vars)
  BY ChannelInit, ChannelStep, PTL DEF Spec
<1>2. QED
  BY <1>1 DEF ImplementsChannel, Abs!Spec

(* ---------------------- lists of waiting entries ------------------------ *)

\* Front leaves out the last place.
LEMMA FrontShape == ASSUME NEW S, NEW s \in Seq(S), s # <<>>
  PROVE /\ Len(s) \in Nat \ {0} /\ Last(s) = s[Len(s)] /\ Last(s) \in S
        /\ Front(s) \in Seq(S) /\ Len(Front(s)) = Len(s) - 1
        /\ \A i \in 1 .. Len(s) - 1 : Front(s)[i] = s[i]
<1>1. Len(s) \in Nat \ {0} /\ \A i \in 1 .. Len(s) : s[i] \in S
  BY EmptySeq, ElementOfSeq
<1>2. /\ Front(s) \in Seq(S) /\ Len(Front(s)) = Len(s) - 1
      /\ \A i \in 1 .. Len(s) - 1 : Front(s)[i] = s[i]
  <2> DEFINE n == Len(s) - 1
  <2>1. 1 \in Int /\ n \in Nat /\ n \in Int /\ \A i \in 1 .. n : s[i] \in S
    BY <1>1
  <2>2. n - 1 + 1 = n /\ (IF 1 <= n THEN n - 1 + 1 ELSE 0) = n
    <3> HIDE DEF n
    <3>1. QED
      BY <2>1
  <2>3. /\ SubSeq(s, 1, n) \in Seq(S)
        /\ Len(SubSeq(s, 1, n)) = IF 1 <= n THEN n - 1 + 1 ELSE 0
        /\ \A i \in 1 .. n - 1 + 1 : SubSeq(s, 1, n)[i] = s[1 + i - 1]
    <3> HIDE DEF n
    <3>1. QED
      BY <2>1, SubSeqProperties
  <2>4. /\ SubSeq(s, 1, n) \in Seq(S) /\ Len(SubSeq(s, 1, n)) = n
        /\ \A i \in 1 .. n : SubSeq(s, 1, n)[i] = s[1 + i - 1]
    <3> HIDE DEF n
    <3>1. QED
      BY <2>2, <2>3
  <2>5. \A i \in 1 .. n : 1 + i - 1 = i
    OBVIOUS
  <2>6. \A i \in 1 .. n : SubSeq(s, 1, n)[i] = s[i]
    <3> HIDE DEF n
    <3>1. QED
      BY <2>4, <2>5
  <2>7. QED
    BY <2>4, <2>6 DEF Front
<1>3. QED
  BY <1>1, <1>2 DEF Last

NatLess == {p \in Nat \X Nat : p[1] < p[2]}

\* A set of numbers has a least one.
LEMMA MinExists == ASSUME NEW I, I \subseteq Nat, I # {} PROVE Min(I) \in I
<1>1. PICK x \in I : \A y \in I : ~(<<y, x>> \in NatLess)
  BY NatLessThanWellFounded, WFMin DEF OpToRel, NatLess
<1>2. \A y \in I : x <= y
  <2> TAKE y \in I
  <2>1. x \in Nat /\ y \in Nat /\ <<y, x>>[1] = y /\ <<y, x>>[2] = x
    OBVIOUS
  <2>2. y < x => <<y, x>> \in NatLess
    BY <2>1 DEF NatLess
  <2>3. QED
    BY <1>1, <2>1, <2>2
<1>3. QED
  BY <1>2 DEF Min

\* RemoveFirst finds a place of the entry, if the list has it.
LEMMA FirstPlace == ASSUME NEW S, NEW s \in Seq(S), NEW e, Contains(s, e)
  PROVE \E k \in 1 .. Len(s) :
          s[k] = e /\ RemoveFirst(s, e) = SubSeq(s, 1, k - 1) \o SubSeq(s, k + 1, Len(s))
<1> DEFINE I == {i \in 1 .. Len(s) : s[i] = e}
<1>1. I # {} /\ I \subseteq Nat
  BY DEF Contains
<1>2. Min(I) \in I
  <2> HIDE DEF I
  <2>1. QED
    BY <1>1, MinExists
<1>3. SelectInSeq(s, LAMBDA v : v = e) = Min(I)
  BY <1>1 DEF SelectInSeq
<1>4. RemoveFirst(s, e) = RemoveAt(s, Min(I))
  BY <1>3 DEF RemoveFirst, Contains
<1>5. QED
  BY <1>2, <1>4 DEF RemoveAt

\* RemoveFirst closes the gap at one place of the entry.
LEMMA RemoveShape == ASSUME NEW S, NEW s \in Seq(S), NEW e, Contains(s, e)
  PROVE \E k \in 1 .. Len(s) :
          /\ s[k] = e /\ RemoveFirst(s, e) \in Seq(S) /\ Len(RemoveFirst(s, e)) = Len(s) - 1
          /\ \A i \in 1 .. Len(s) - 1 :
               RemoveFirst(s, e)[i] = IF i < k THEN s[i] ELSE s[i + 1]
<1>1. PICK k \in 1 .. Len(s) :
        s[k] = e /\ RemoveFirst(s, e) = SubSeq(s, 1, k - 1) \o SubSeq(s, k + 1, Len(s))
  BY FirstPlace
<1> DEFINE a == SubSeq(s, 1, k - 1)
           b == SubSeq(s, k + 1, Len(s))
           n == Len(s)
<1>2. n \in Nat /\ k \in 1 .. n /\ k \in Int /\ \A i \in 1 .. n : s[i] \in S
  BY LenProperties, ElementOfSeq
<1> HIDE DEF n
<1>3. /\ a \in Seq(S) /\ Len(a) = k - 1
      /\ \A i \in 1 .. k - 1 : a[i] = s[i]
  <2>1. 1 \in Int /\ k - 1 \in Int /\ \A i \in 1 .. k - 1 : s[i] \in S
    BY <1>2
  <2>2. /\ a \in Seq(S)
        /\ Len(a) = IF 1 <= k - 1 THEN (k - 1) - 1 + 1 ELSE 0
        /\ \A i \in 1 .. (k - 1) - 1 + 1 : a[i] = s[1 + i - 1]
    BY <2>1, SubSeqProperties
  <2>3. (k - 1) - 1 + 1 = k - 1 /\ (IF 1 <= k - 1 THEN k - 1 ELSE 0) = k - 1
    BY <1>2
  <2>4. \A i \in 1 .. k - 1 : 1 + i - 1 = i
    OBVIOUS
  <2> HIDE DEF a
  <2>5. QED
    BY <2>2, <2>3, <2>4
<1>4. /\ b \in Seq(S) /\ Len(b) = n - k
      /\ \A i \in 1 .. n - k : b[i] = s[k + i]
  <2>1. k + 1 \in Int /\ n \in Int /\ \A i \in k + 1 .. n : s[i] \in S
    BY <1>2
  <2>2. /\ b \in Seq(S)
        /\ Len(b) = IF k + 1 <= n THEN n - (k + 1) + 1 ELSE 0
        /\ \A i \in 1 .. n - (k + 1) + 1 : b[i] = s[(k + 1) + i - 1]
    BY <2>1, SubSeqProperties DEF n
  <2>3. n - (k + 1) + 1 = n - k /\ (IF k + 1 <= n THEN n - k ELSE 0) = n - k
    BY <1>2
  <2>4. \A i \in 1 .. n - k : (k + 1) + i - 1 = k + i
    BY <1>2
  <2> HIDE DEF b
  <2>5. QED
    BY <2>2, <2>3, <2>4
<1> HIDE DEF a, b
<1>5. /\ a \o b \in Seq(S) /\ Len(a \o b) = n - 1
      /\ \A i \in 1 .. n - 1 : (a \o b)[i] = IF i <= k - 1 THEN a[i] ELSE b[i - (k - 1)]
  <2>1. Len(a) + Len(b) = n - 1
    BY <1>2, <1>3, <1>4
  <2>2. QED
    BY <1>3, <1>4, <2>1, ConcatProperties
<1>6. ASSUME NEW i \in 1 .. n - 1
      PROVE (a \o b)[i] = IF i < k THEN s[i] ELSE s[i + 1]
  <2>1. CASE i < k
    <3>1. i \in 1 .. k - 1 /\ i <= k - 1
      BY <1>2, <2>1
    <3>2. QED
      BY <1>3, <1>5, <2>1, <3>1
  <2>2. CASE ~(i < k)
    <3>1. i - (k - 1) \in 1 .. n - k /\ ~(i <= k - 1) /\ k + (i - (k - 1)) = i + 1
      BY <1>2, <2>2
    <3>2. QED
      BY <1>4, <1>5, <2>2, <3>1
  <2>3. QED
    BY <2>1, <2>2
<1>7. RemoveFirst(s, e) = a \o b
  BY <1>1 DEF a, b, n
<1>8. QED
  BY <1>1, <1>5, <1>6, <1>7 DEF n

\* The receiver is in the list at the end, if at all.
OnlyLast(s) == \A i \in 1 .. Len(s) : s[i] = Receiver => i = Len(s)

\* An entry is the receiver or a dropped future.
LEMMA TwoEntries == /\ Receiver \in Entries /\ Dropped \in Entries /\ Receiver # Dropped
                    /\ \A e \in Entries : e = Receiver \/ e = Dropped
  BY RolesAssumption, NamesAssumption DEF Entries, Actors

\* A registration.
LEMMA Appended == ASSUME NEW s \in Seq(Entries)
  PROVE LET r == Append(s, Receiver) IN
        /\ r \in Seq(Entries) /\ r # <<>> /\ Contains(r, Receiver)
        /\ ~Contains(s, Receiver) => OnlyLast(r)
        /\ ~Contains(s, Dropped) => ~Contains(r, Dropped)
<1> DEFINE r == Append(s, Receiver)
           n == Len(s)
<1>1. /\ r \in Seq(Entries) /\ Len(r) = n + 1 /\ \A i \in 1 .. n : r[i] = s[i]
      /\ r[n + 1] = Receiver /\ n \in Nat
  BY TwoEntries, AppendProperties, LenProperties
<1>2. \A i \in 1 .. n + 1 : i \in 1 .. n \/ i = n + 1
  BY <1>1
<1>3. n + 1 \in 1 .. n + 1 /\ r # <<>>
  BY <1>1, EmptySeq
<1> HIDE DEF r
<1>4. ~Contains(s, Receiver) => OnlyLast(r)
  BY <1>1, <1>2 DEF Contains, OnlyLast
<1>5. ~Contains(s, Dropped) => ~Contains(r, Dropped)
  BY <1>1, <1>2, TwoEntries DEF Contains
<1>6. QED
  BY <1>1, <1>3, <1>4, <1>5 DEF Contains, r

\* The pop of notify_one.
LEMMA Popped == ASSUME NEW s \in Seq(Entries), s # <<>>
  PROVE LET h == <<Last(s)>> IN
        /\ h \in Seq(Entries) /\ Front(s) \in Seq(Entries)
        /\ \A x : Contains(h, x) => x = Last(s) /\ Contains(s, x)
        /\ \A x : Contains(Front(s), x) => Contains(s, x)
        /\ OnlyLast(h) /\ Contains(h, Last(s))
        /\ OnlyLast(s) => /\ ~Contains(Front(s), Receiver)
                          /\ Contains(s, Receiver) => Last(s) = Receiver
        /\ ~Contains(s, Dropped) => Last(s) = Receiver
<1> DEFINE h == <<Last(s)>>
           n == Len(s)
<1>1. /\ n \in Nat \ {0} /\ Last(s) = s[n] /\ Last(s) \in Entries
      /\ Front(s) \in Seq(Entries) /\ Len(Front(s)) = n - 1
      /\ \A i \in 1 .. n - 1 : Front(s)[i] = s[i]
  BY FrontShape
<1>2. /\ h \in Seq(Entries) /\ Len(h) = 1 /\ h[1] = Last(s)
      /\ \A i \in 1 .. 1 : i = 1
  BY <1>1
<1>3. n \in 1 .. n /\ \A i \in 1 .. n - 1 : i \in 1 .. n /\ i # n
  BY <1>1
<1> HIDE DEF h
<1>4. \A x : Contains(h, x) => x = Last(s) /\ Contains(s, x)
  BY <1>1, <1>2, <1>3 DEF Contains
<1>5. \A x : Contains(Front(s), x) => Contains(s, x)
  BY <1>1, <1>3 DEF Contains
<1>6. OnlyLast(h) /\ Contains(h, Last(s))
  BY <1>2 DEF OnlyLast, Contains
<1>7. OnlyLast(s) => /\ ~Contains(Front(s), Receiver)
                     /\ Contains(s, Receiver) => Last(s) = Receiver
  BY <1>1, <1>3 DEF OnlyLast, Contains
<1>8. ~Contains(s, Dropped) => Last(s) = Receiver
  BY <1>1, <1>3, TwoEntries DEF Contains
<1>9. QED
  BY <1>1, <1>2, <1>4, <1>5, <1>6, <1>7, <1>8 DEF h

\* The removal after a deadline.
LEMMA Removed == ASSUME NEW s \in Seq(Entries)
  PROVE LET r == RemoveFirst(s, Receiver) IN
        /\ r \in Seq(Entries)
        /\ \A x : Contains(r, x) => Contains(s, x)
        /\ OnlyLast(s) => ~Contains(r, Receiver)
        /\ ~Contains(s, Receiver) => r = s
<1>1. CASE ~Contains(s, Receiver)
  BY <1>1 DEF RemoveFirst, Contains
<1>2. CASE Contains(s, Receiver)
  <2> DEFINE r == RemoveFirst(s, Receiver)
             n == Len(s)
  <2>1. PICK k \in 1 .. n :
          /\ s[k] = Receiver /\ r \in Seq(Entries) /\ Len(r) = n - 1
          /\ \A i \in 1 .. n - 1 : r[i] = IF i < k THEN s[i] ELSE s[i + 1]
    BY <1>2, RemoveShape
  <2>2. n \in Nat /\ \A i \in 1 .. n - 1 : i \in 1 .. n /\ i + 1 \in 1 .. n /\ i # n
    BY LenProperties
  <2> HIDE DEF r
  <2>3. \A x : Contains(r, x) => Contains(s, x)
    BY <2>1, <2>2 DEF Contains
  <2>4. ASSUME OnlyLast(s) PROVE ~Contains(r, Receiver)
    <3>1. k = n /\ \A i \in 1 .. n - 1 : i < k /\ s[i] # Receiver
      BY <2>1, <2>2, <2>4 DEF OnlyLast
    <3>2. QED
      BY <2>1, <3>1 DEF Contains
  <2>5. QED
    BY <1>2, <2>1, <2>3, <2>4 DEF r
<1>3. QED
  BY <1>1, <1>2

\* The end of a future, for its entries.
LEMMA Replaced == ASSUME NEW s \in Seq(Entries)
  PROVE LET r == ReplaceAll(s, Receiver, Dropped) IN
        r \in Seq(Entries) /\ ~Contains(r, Receiver) /\ (s = <<>> => r = <<>>)
<1> DEFINE n == Len(s)
           r == ReplaceAll(s, Receiver, Dropped)
<1>1. n \in Nat /\ \A i \in 1 .. n : s[i] \in Entries
  BY LenProperties, ElementOfSeq
<1>2. r = [i \in 1 .. n |-> IF s[i] = Receiver THEN Dropped ELSE s[i]]
  BY DEF ReplaceAll
<1> HIDE DEF n, r
<1>3. r \in [1 .. n -> Entries] /\ \A i \in 1 .. n : r[i] # Receiver
  BY <1>1, <1>2, TwoEntries
<1>4. r \in Seq(Entries) /\ Len(r) = n
  BY <1>1, <1>3, SeqDef
<1>5. s = <<>> => r = <<>>
  BY <1>4, EmptySeq DEF n
<1>6. QED
  BY <1>3, <1>4, <1>5 DEF Contains, r

\* A delivery, from the head of the hand.
LEMMA Handed == ASSUME NEW s \in Seq(Entries), s # <<>>
  PROVE /\ Head(s) \in Entries /\ Tail(s) \in Seq(Entries) /\ Contains(s, Head(s))
        /\ \A x : Contains(Tail(s), x) => Contains(s, x)
        /\ \A x : Contains(s, x) => x = Head(s) \/ Contains(Tail(s), x)
        /\ OnlyLast(s) => /\ OnlyLast(Tail(s))
                          /\ Head(s) = Receiver => ~Contains(Tail(s), Receiver)
<1> DEFINE r == Tail(s)
           n == Len(s)
<1>1. /\ Head(s) \in Entries /\ r \in Seq(Entries) /\ Len(r) = n - 1
      /\ \A i \in 1 .. n - 1 : r[i] = s[i + 1]
  BY HeadTailProperties
<1>2. n \in Nat \ {0} /\ Head(s) = s[1]
  BY LenProperties, EmptySeq
<1> HIDE DEF r
<1>3. /\ 1 \in 1 .. n /\ \A i \in 1 .. n - 1 : i + 1 \in 1 .. n /\ i + 1 # 1
      /\ \A i \in 1 .. n : i = 1 \/ (i - 1 \in 1 .. n - 1 /\ (i - 1) + 1 = i)
  BY <1>2
<1>4. \A x : Contains(r, x) => Contains(s, x)
  BY <1>1, <1>3 DEF Contains
<1>5. ASSUME NEW x, Contains(s, x), x # Head(s) PROVE Contains(r, x)
  <2>1. PICK i \in 1 .. n : s[i] = x
    BY <1>5 DEF Contains
  <2>2. i - 1 \in 1 .. n - 1 /\ r[i - 1] = x
    BY <1>1, <1>2, <1>3, <1>5, <2>1
  <2>3. QED
    BY <1>1, <2>2 DEF Contains
<1>6. ASSUME OnlyLast(s) PROVE OnlyLast(r) /\ (Head(s) = Receiver => ~Contains(r, Receiver))
  <2>1. \A i \in 1 .. n - 1 : r[i] = Receiver => i + 1 = n
    BY <1>1, <1>3, <1>6 DEF OnlyLast
  <2>2. OnlyLast(r)
    BY <1>1, <1>2, <2>1 DEF OnlyLast
  <2>3. ASSUME Head(s) = Receiver PROVE n = 1
    BY <1>2, <1>3, <1>6, <2>3 DEF OnlyLast
  <2>4. n = 1 => ~Contains(r, Receiver)
    BY <1>1, <1>2 DEF Contains
  <2>5. QED
    BY <2>2, <2>3, <2>4
<1>7. QED
  BY <1>1, <1>2, <1>3, <1>4, <1>5, <1>6 DEF Contains, r

(* -------------------------------- types --------------------------------- *)

\* Only a try_recv that looks into the queue waits in no way.
TryKnown == kind[Receiver] = "try" => pc[Receiver] \in {"inside", "counting"}
Values == /\ receiver_active \in BOOLEAN
          /\ result \in Senders \cup {"none", "empty", "timeout", "disconnected"}
Types == ChannelInv /\ CondvarTypes /\ TryKnown /\ Values

\* The numbers and places the steps take their values from.
LEMMA Known == ASSUME Types
  PROVE /\ pc \in [Actors -> Places \cup Gone \cup Holding]
        /\ Receiver \in Waiters /\ Receiver \in Actors
        /\ waiting \in [AllKinds -> Seq(Entries)] /\ woken \in [AllKinds -> [Waiters -> BOOLEAN]]
        /\ kind \in [Waiters -> AllKinds \cup {"try"}]
        /\ hand \in [Notifiers -> Seq(Entries)] /\ at \in [Notifiers -> AllKinds]
        /\ \A n \in Notifiers : at[n] \in AllKinds /\ hand[n] \in Seq(Entries) /\ n \in Actors
        /\ \A k \in AllKinds : waiting[k] \in Seq(Entries)
  BY Roles DEF Types, ChannelInv, PlacesKnown, CondvarTypes

\* The hands without the receiver have their types.
LEMMA HandTypes == ASSUME Types, Forget(Receiver) PROVE hand' \in [Notifiers -> Seq(Entries)]
<1>1. \A n \in Notifiers : ReplaceAll(hand[n], Receiver, Dropped) \in Seq(Entries)
  BY Known, Replaced
<1>2. QED
  BY <1>1, Known DEF Forget

\* So have the wakeups after one is given or taken.
LEMMA WokenTypes ==
  ASSUME NEW w \in [AllKinds -> [Waiters -> BOOLEAN]], NEW k \in AllKinds, NEW t \in Waiters,
         NEW b \in BOOLEAN
  PROVE [w EXCEPT ![k][t] = b] \in [AllKinds -> [Waiters -> BOOLEAN]]
  OBVIOUS

\* channel() makes variables of their types.
LEMMA TypesInit == Init => Types
<1> SUFFICES ASSUME Init PROVE Types
  OBVIOUS
<1>1. CondvarTypes
  BY EmptySeq DEF Init, CondvarInit, CondvarTypes, AllKinds, Entries
<1>2. TryKnown /\ Values
  BY RolesAssumption DEF Init, CondvarInit, TryKnown, Values
<1>3. QED
  BY <1>1, <1>2, ChannelInit DEF Types

\* What the receiver does in its wait keeps the types of the condvar.
LEMMA WaiterTypes == ASSUME Types, WaiterStep(Receiver) PROVE CondvarTypes' /\ TryKnown'
<1> USE DEF CondvarTypes, Goto, call, notes
<1>1. /\ CondvarTypes /\ TryKnown /\ Receiver \in Waiters /\ kind' = kind
      /\ pc \in [Actors -> Places \cup Gone \cup Holding] /\ Receiver \in Actors
  BY Known
  DEF Types, WaiterStep, DropGuard, Wake, LoopHead, ParkTimeout, Check, SpinLate, RaceLate,
      AsyncLate, Relock
<1>2. kind[Receiver] # "try" /\ kind[Receiver] \in AllKinds
  BY <1>1
  DEF TryKnown, WaiterStep, DropGuard, Wake, LoopHead, ParkTimeout, Check, SpinLate, RaceLate,
      AsyncLate
<1>3. TryKnown'
  BY <1>1, <1>2 DEF TryKnown
<1>4. ASSUME RemoveOwn(Receiver) PROVE waiting' \in [AllKinds -> Seq(Entries)]
  <2>1. RemoveFirst(waiting[kind[Receiver]], Receiver) \in Seq(Entries)
    BY <1>2, Known, Removed
  <2>2. QED
    BY <1>1, <1>4, <2>1 DEF RemoveOwn
<1>5. Queued(Receiver) \in BOOLEAN
  BY DEF Queued, Contains
<1>6. CASE DropGuard(Receiver)
  BY <1>1, <1>3, <1>6 DEF DropGuard
<1>7. CASE Wake(Receiver)
  <2>1. woken' \in [AllKinds -> [Waiters -> BOOLEAN]]
    BY <1>1, <1>2, <1>7 DEF Wake
  <2>2. QED
    BY <1>1, <1>3, <1>7, <2>1 DEF Wake, Relock
<1>8. CASE LoopHead(Receiver)
  BY <1>1, <1>3, <1>4, <1>5, <1>8 DEF LoopHead, Relock
<1>9. CASE ParkTimeout(Receiver) \/ RaceLate(Receiver)
  BY <1>1, <1>3, <1>9 DEF ParkTimeout, RaceLate
<1>10. CASE Check(Receiver)
  BY <1>1, <1>3, <1>10 DEF Check, Relock
<1>11. CASE SpinLate(Receiver)
  BY <1>1, <1>3, <1>4, <1>11 DEF SpinLate, Relock
<1>12. CASE AsyncLate(Receiver)
  <2>1. woken' \in [AllKinds -> [Waiters -> BOOLEAN]]
    BY <1>1, <1>12 DEF AsyncLate
  <2>2. hand' \in [Notifiers -> Seq(Entries)]
    BY <1>12, HandTypes DEF AsyncLate
  <2>3. QED
    BY <1>1, <1>3, <1>4, <1>12, <2>1, <2>2 DEF AsyncLate, Relock
<1>13. QED
  BY <1>6, <1>7, <1>8, <1>9, <1>10, <1>11, <1>12 DEF WaiterStep

\* So does what a notifier does.
LEMMA NotifierTypes == ASSUME Types, NEW n \in Notifiers, NotifierStep(n)
  PROVE CondvarTypes' /\ TryKnown'
<1> USE DEF CondvarTypes, Goto, call, notes
<1>1. /\ CondvarTypes /\ TryKnown /\ n \in Actors /\ n # Receiver /\ at[n] \in AllKinds
      /\ hand[n] \in Seq(Entries) /\ waiting[at[n]] \in Seq(Entries)
      /\ pc \in [Actors -> Places \cup Gone \cup Holding]
  BY Known, Roles DEF Types
<1>2. /\ UNCHANGED <<holder, kind, deadline, timed_out, how>> /\ pc'[Receiver] = pc[Receiver]
      /\ at' \in [Notifiers -> AllKinds]
  <2>1. UNCHANGED <<holder, kind, deadline, timed_out, how>>
    BY DEF NotifierStep, Pop, TakeAll, Deliver, Delivered
  <2>2. pc'[Receiver] = pc[Receiver]
    <3>1. \E l : pc' = pc \/ pc' = [pc EXCEPT ![n] = l]
      BY DEF NotifierStep, Pop, TakeAll, Deliver, Delivered, NextList
    <3>2. QED
      BY <1>1, <3>1, Roles
  <2>3. \E k \in AllKinds : at' = at \/ at' = [at EXCEPT ![n] = k]
    BY DEF NotifierStep, Pop, TakeAll, Deliver, Delivered, NextList, AllKinds
  <2>4. QED
    BY <1>1, <2>1, <2>2, <2>3
<1>3. TryKnown'
  BY <1>1, <1>2 DEF TryKnown
<1>4. hand' \in [Notifiers -> Seq(Entries)] /\ waiting' \in [AllKinds -> Seq(Entries)]
  <2>1. CASE Pop(n)
    <3>1. waiting[at[n]] # <<>> =>
            Front(waiting[at[n]]) \in Seq(Entries) /\ <<Last(waiting[at[n]])>> \in Seq(Entries)
      BY <1>1, Popped
    <3>2. QED
      BY <1>1, <2>1, <3>1 DEF Pop
  <2>2. CASE TakeAll(n)
    BY <1>1, <2>2, EmptySeq DEF TakeAll
  <2>3. CASE Deliver(n)
    BY <1>1, <2>3, Handed DEF Deliver
  <2>4. CASE Delivered(n)
    BY <1>1, <2>4 DEF Delivered
  <2>5. QED
    BY <2>1, <2>2, <2>3, <2>4 DEF NotifierStep
<1>5. woken' \in [AllKinds -> [Waiters -> BOOLEAN]]
  <2>1. CASE Deliver(n)
    <3>1. Head(hand[n]) \in Entries
      BY <1>1, <2>1, Handed DEF Deliver
    <3>2. \/ woken' = woken
          \/ \E t \in Waiters : woken' = [woken EXCEPT ![at[n]][t] = TRUE]
      BY <2>1, <3>1 DEF Deliver, Entries
    <3>3. woken \in [AllKinds -> [Waiters -> BOOLEAN]]
      BY <1>1
    <3>4. \A t \in Waiters : [woken EXCEPT ![at[n]][t] = TRUE] \in [AllKinds -> [Waiters -> BOOLEAN]]
      BY <1>1, <3>3, WokenTypes
    <3>5. QED
      <4> HIDE DEF CondvarTypes
      <4>1. QED
        BY <3>2, <3>3, <3>4
  <2>2. CASE ~Deliver(n)
    BY <1>1, <2>2 DEF NotifierStep, Pop, TakeAll, Delivered
  <2>3. QED
    BY <2>1, <2>2
<1>6. QED
  BY <1>1, <1>2, <1>3, <1>4, <1>5

\* And what else happens in the condvar.
LEMMA CondvarTyped == ASSUME Types, CondvarNext PROVE CondvarTypes' /\ TryKnown'
<1> USE DEF CondvarTypes, Goto, call, notes
<1>1. /\ CondvarTypes /\ TryKnown /\ Receiver \in Waiters /\ Receiver \in Actors
      /\ pc \in [Actors -> Places \cup Gone \cup Holding]
  BY Known DEF Types
<1>2. CASE Lock(Receiver) \/ DeadlinePasses(Receiver)
  BY <1>1, <1>2 DEF Lock, DeadlinePasses, TryKnown
<1>3. CASE LockParks(Receiver) \/ StrayUnpark(Receiver)
  <2>1. PICK b \in BOOLEAN : woken' = [woken EXCEPT !["block"][Receiver] = b]
    BY <1>3 DEF LockParks, StrayUnpark
  <2>2. QED
    BY <1>1, <1>3, <2>1 DEF LockParks, StrayUnpark, TryKnown
<1>4. CASE CancelAsync(Receiver)
  <2>1. waiting' \in [AllKinds -> Seq(Entries)]
    BY <1>4, Known, Replaced DEF CancelAsync, AllKinds
  <2>2. hand' \in [Notifiers -> Seq(Entries)]
    BY <1>4, HandTypes DEF CancelAsync
  <2>3. woken' \in [AllKinds -> [Waiters -> BOOLEAN]]
    BY <1>1, <1>4 DEF CancelAsync
  <2>4. kind'[Receiver] = "block" /\ kind' \in [Waiters -> AllKinds \cup {"try"}]
    BY <1>1, <1>4 DEF CancelAsync, Return, AllKinds
  <2>5. QED
    BY <1>1, <1>4, <2>1, <2>2, <2>3, <2>4 DEF CancelAsync, Return, TryKnown
<1>5. QED
  BY <1>2, <1>3, <1>4, WaiterTypes, NotifierTypes, Roles DEF CondvarNext

\* A call of notify_one or notify_all begins with another list.
LEMMA NotifyTypes == ASSUME CondvarTypes, NEW n \in Notifiers, NEW h \in {"one", "all"},
                            Notify(n, h), holder' \in Actors \cup {Nobody}
  PROVE CondvarTypes'
  BY DEF Notify, CondvarTypes, call, AllKinds

\* The senders keep the types.
LEMMA SenderTypes ==
  ASSUME Types, NEW s \in Senders,
         \/ \E u \in Senders : Clone(s, u)
         \/ DropSender(s) \/ Send(s) \/ CancelSend(s) \/ SendLock(s) \/ Push(s)
  PROVE CondvarTypes' /\ TryKnown' /\ Values'
<1> USE DEF Goto
<1>1. /\ CondvarTypes /\ TryKnown /\ Values /\ s \in Actors /\ s # Receiver /\ s \in Notifiers
      /\ LastDrop \in Notifiers /\ LastDrop # Receiver
      /\ pc \in [Actors -> Places \cup Gone \cup Holding]
  BY Known, Roles, RolesAssumption DEF Types
<1>2. UNCHANGED <<kind, receiver_active, result>> /\ pc'[Receiver] = pc[Receiver]
  BY <1>1, Roles DEF Clone, DropSender, Send, CancelSend, SendLock, Push, Notify, call, shared
<1>3. TryKnown' /\ Values'
  BY <1>1, <1>2 DEF TryKnown, Values
<1>4. holder' \in Actors \cup {Nobody}
  BY <1>1 DEF Clone, DropSender, Send, CancelSend, SendLock, Push, CondvarTypes
<1>5. \/ Notify(s, "one") \/ Notify(LastDrop, "all")
      \/ UNCHANGED <<waiting, woken, call, notes>>
  BY DEF Clone, DropSender, Send, CancelSend, SendLock, Push
<1>6. CondvarTypes'
  <2>1. CASE UNCHANGED <<waiting, woken, call, notes>>
    BY <1>1, <1>4, <2>1 DEF CondvarTypes, call, notes
  <2>2. QED
    BY <1>1, <1>4, <1>5, <2>1, NotifyTypes
<1>7. QED
  BY <1>3, <1>6

\* So does the receiver.
LEMMA ReceiverTypes ==
  ASSUME Types, Recv \/ TryRecv \/ LockTimesOut \/ DropReceiver \/ ReceiverStep
  PROVE CondvarTypes' /\ TryKnown' /\ Values'
<1> USE DEF Goto, call, notes, shared
<1>1. /\ CondvarTypes /\ TryKnown /\ Values /\ Receiver \in Waiters /\ Receiver \in Actors
      /\ ReceiverDrop \in Notifiers /\ Receiver # ReceiverDrop /\ queue \in Seq(Senders)
      /\ pc \in [Actors -> Places \cup Gone \cup Holding]
  BY Known, Roles, RolesAssumption DEF Types, ChannelInv, QueueTyped
<1>2. Values'
  <2>1. receiver_active' \in BOOLEAN
    BY <1>1
    DEF Values, Recv, TryRecv, LockTimesOut, DropReceiver, ReceiverStep, PopFront, WaitTimedOut,
        NothingThere, ReadCount, StartWait
  <2>2. result' \in {result, "none", "empty", "timeout", "disconnected"} \/ PopFront
    BY DEF Recv, TryRecv, LockTimesOut, DropReceiver, ReceiverStep, WaitTimedOut, NothingThere,
           ReadCount, StartWait
  <2>3. PopFront => result' \in Senders
    BY <1>1, HeadTailProperties DEF PopFront
  <2>4. QED
    BY <1>1, <2>1, <2>2, <2>3 DEF Values
<1> SUFFICES CondvarTypes' /\ TryKnown'
  BY <1>2
<1>3. ASSUME Leave(Receiver) PROVE CondvarTypes' /\ TryKnown'
  BY <1>1, <1>3 DEF Leave, Return, CondvarTypes, TryKnown, AllKinds
<1>4. CASE Recv
  <2>1. PICK k \in Kinds : ChooseWait(Receiver, k) /\ ChooseDeadline(Receiver, k)
    BY <1>4 DEF Recv, Call
  <2>2. k \in AllKinds /\ k # "try" /\ kind' = [kind EXCEPT ![Receiver] = k]
    BY <2>1, KindsAssumption DEF ChooseWait, AllKinds
  <2>3. PICK d \in {"none", "ahead"} : deadline' = [deadline EXCEPT ![Receiver] = d]
    BY <2>1 DEF ChooseDeadline
  <2>4. CondvarTypes'
    BY <1>1, <1>4, <2>2, <2>3 DEF Recv, Call, CondvarTypes
  <2>5. kind'[Receiver] # "try"
    BY <1>1, <2>2 DEF CondvarTypes
  <2>6. QED
    BY <2>4, <2>5 DEF TryKnown
<1>5. CASE TryRecv
  BY <1>1, <1>5 DEF TryRecv, CondvarTypes, TryKnown
<1>6. CASE LockTimesOut
  BY <1>1, <1>6 DEF LockTimesOut, Return, CondvarTypes, TryKnown, AllKinds
<1>7. CASE DropReceiver
  <2>1. CondvarTypes'
    BY <1>1, <1>7, NotifyTypes DEF DropReceiver, CondvarTypes
  <2>2. kind[Receiver] # "try" /\ kind' = kind
    BY <1>1, <1>7 DEF DropReceiver, Notify, TryKnown
  <2>3. QED
    BY <2>1, <2>2 DEF TryKnown
<1>8. CASE PopFront \/ WaitTimedOut
  BY <1>3, <1>8 DEF PopFront, WaitTimedOut
<1>9. CASE NothingThere
  BY <1>1, <1>9 DEF NothingThere, CondvarTypes, TryKnown
<1>10. CASE ReadCount
  BY <1>1, <1>3, <1>10 DEF ReadCount, CondvarTypes, TryKnown
<1>11. CASE StartWait
  <2>1. kind[Receiver] # "try" /\ kind[Receiver] \in AllKinds
    BY <1>1, <1>11 DEF StartWait, TryKnown, CondvarTypes
  <2>2. Append(waiting[kind[Receiver]], Receiver) \in Seq(Entries)
    BY <2>1, Known, Appended
  <2>3. waiting' \in [AllKinds -> Seq(Entries)]
    BY <1>1, <1>11, <2>1, <2>2 DEF StartWait, Register, CondvarTypes
  <2>4. woken' \in [AllKinds -> [Waiters -> BOOLEAN]]
    <3>1. woken \in [AllKinds -> [Waiters -> BOOLEAN]]
      BY <1>1 DEF CondvarTypes
    <3>2. woken' = woken \/ woken' = [woken EXCEPT ![kind[Receiver]][Receiver] = FALSE]
      BY <1>11 DEF StartWait, Register
    <3>3. [woken EXCEPT ![kind[Receiver]][Receiver] = FALSE] \in [AllKinds -> [Waiters -> BOOLEAN]]
      BY <1>1, <2>1, <3>1, WokenTypes
    <3>4. QED
      BY <3>1, <3>2, <3>3
  <2>5. QED
    BY <1>1, <1>11, <2>1, <2>3, <2>4 DEF StartWait, Register, CondvarTypes, TryKnown
<1>12. QED
  BY <1>4, <1>5, <1>6, <1>7, <1>8, <1>9, <1>10, <1>11 DEF ReceiverStep

\* Every step keeps the types.
LEMMA TypesStep == Types /\ [Next]_vars => Types'
<1> SUFFICES ASSUME Types, [Next]_vars PROVE Types'
  OBVIOUS
<1>1. ChannelInv'
  BY ChannelStep DEF Types
<1>2. CASE UNCHANGED vars
  <2>1. CondvarTypes' /\ TryKnown' /\ Values'
    BY <1>2 DEF Types, vars, condvar, shared, call, notes, CondvarTypes, TryKnown, Values
  <2>2. QED
    BY <1>1, <2>1 DEF Types
<1>3. CASE CondvarNext /\ UNCHANGED <<shared, result>>
  BY <1>1, <1>3, CondvarTyped DEF Types, Values, shared
<1>4. CASE Next /\ ~(CondvarNext /\ UNCHANGED <<shared, result>>)
  BY <1>1, <1>4, SenderTypes, ReceiverTypes DEF Next, Types
<1>5. QED
  BY <1>2, <1>3, <1>4

\* Every variable has its type, and the count is never below zero or above the number of
\* handles, for any senders and any wait of the receiver.
THEOREM Typed == Spec => []TypeOK
<1>1. Types => TypeOK
  <2> SUFFICES ASSUME Types PROVE TypeOK
    OBVIOUS
  <2>1. /\ IsFiniteSet(Alive) /\ Cardinality(Alive) \in Nat /\ Cardinality(Senders) \in Nat
        /\ Cardinality(Alive) <= Cardinality(Senders)
    BY SendersAssumption, AliveFinite, FS_Subset, FS_CardinalityType
  <2>2. sender_count \in 0 .. Cardinality(Senders)
    BY <2>1 DEF Types, ChannelInv, Counted
  <2>3. pc \in [Actors -> Places \cup {"unborn", "dropped", "counting", "registering"}]
    BY DEF Types, ChannelInv, PlacesKnown, Gone, Holding, Places
  <2>4. QED
    BY <2>2, <2>3 DEF Types, ChannelInv, QueueTyped, Values, TypeOK
<1>2. QED
  BY TypesInit, TypesStep, <1>1, PTL DEF Spec

(* ---------------- a notification for every message ---------------------- *)

\* Notifiers that are not at work have empty hands, the two drops are at work only after
\* them, and the queue is empty from the receiver's look at it to its registration.
Quiet == /\ \A n \in Notifiers : pc[n] # "waking" => hand[n] = <<>>
         /\ sender_count # 0 => pc[LastDrop] = "idle"
         /\ receiver_active => pc[ReceiverDrop] = "idle"
         /\ pc[Receiver] \in {"counting", "registering"} => queue = <<>>

\* What a notifier does is left to it by the others.
NotesKept == /\ hand' = hand
             /\ \A n \in Notifiers :
                  /\ pc[n] \in {"taking", "waking"} =>
                       pc'[n] = pc[n] /\ at'[n] = at[n] /\ how'[n] = how[n]
                  /\ pc'[n] = "waking" => pc[n] = "waking"

\* A handle that is there is counted.
LEMMA AliveCounts == ASSUME Types, NEW s \in Senders, pc[s] \notin Gone PROVE sender_count # 0
<1>1. s \in Alive
  BY DEF Alive, Gone
<1>2. Cardinality(Alive) # 0
  BY <1>1, AliveFinite, FS_EmptySet
<1>3. QED
  BY <1>2 DEF Types, ChannelInv, Counted

SenderMove == \E s \in Senders : \/ \E u \in Senders : Clone(s, u)
                                 \/ DropSender(s) \/ Send(s) \/ CancelSend(s)
                                 \/ SendLock(s) \/ Push(s)
ReceiverMove == Recv \/ TryRecv \/ LockTimesOut \/ DropReceiver \/ ReceiverStep

\* The senders start notifications, and leave those alone that are under way.
LEMMA SenderNotes == ASSUME Types, Quiet, SenderMove
  PROVE /\ NotesKept /\ Quiet' /\ pc'[Receiver] = pc[Receiver]
        /\ UNCHANGED <<waiting, woken, kind, deadline>>
        /\ queue' = queue \/ \E s \in Senders : pc'[s] = "taking" /\ at'[s] = "spin"
<1> USE DEF Goto, call, notes, shared
<1>1. PICK s \in Senders :
        (\E u \in Senders : Clone(s, u)) \/ DropSender(s) \/ Send(s) \/ CancelSend(s)
          \/ SendLock(s) \/ Push(s)
  BY DEF SenderMove
<1>2. /\ pc \in [Actors -> Places \cup Gone \cup Holding] /\ at \in [Notifiers -> AllKinds]
      /\ how \in [Notifiers -> {"one", "all"}]
      /\ Receiver \in Actors /\ s \in Actors /\ s # Receiver /\ s \in Notifiers
      /\ \A n \in Notifiers : n \in Actors /\ n # Receiver
      /\ LastDrop \in Notifiers /\ ReceiverDrop \in Notifiers /\ LastDrop # ReceiverDrop
      /\ LastDrop \notin Senders /\ ReceiverDrop \notin Senders /\ Receiver \notin Senders
      /\ Senders \subseteq Actors
  BY Known, Roles, RolesAssumption DEF Types, CondvarTypes
<1>3. UNCHANGED <<waiting, woken, kind, deadline, hand, receiver_active>>
  BY <1>1 DEF Clone, DropSender, Send, CancelSend, SendLock, Push, Notify
<1>4. CASE \E u \in Senders : Clone(s, u)
  <2>1. PICK u \in Senders : Clone(s, u)
    BY <1>4
  <2>2. pc[s] = "idle" /\ pc[u] = "unborn" /\ pc' = [pc EXCEPT ![u] = "idle"]
        /\ UNCHANGED <<at, how, queue>>
    BY <2>1 DEF Clone
  <2>3. sender_count # 0
    BY <2>2, AliveCounts DEF Gone
  <2>4. NotesKept
    BY <1>2, <1>3, <2>2 DEF NotesKept
  <2>5. Quiet'
    BY <1>2, <1>3, <2>2, <2>3 DEF Quiet
  <2>6. QED
    BY <1>2, <1>3, <2>2, <2>4, <2>5
<1>5. CASE DropSender(s)
  <2>1. pc[s] = "idle" /\ sender_count' = sender_count - 1 /\ queue' = queue
    BY <1>5 DEF DropSender
  <2>2. sender_count # 0 /\ sender_count \in Nat
    BY <2>1, AliveCounts, AliveFinite, FS_CardinalityType
    DEF Gone, Types, ChannelInv, Counted
  <2>3. pc[LastDrop] = "idle"
    BY <2>2 DEF Quiet
  <2>4. \/ /\ sender_count = 1 /\ at' = [at EXCEPT ![LastDrop] = "spin"]
           /\ how' = [how EXCEPT ![LastDrop] = "all"]
           /\ pc' = [pc EXCEPT ![s] = "dropped", ![LastDrop] = "taking"]
        \/ sender_count # 1 /\ pc' = [pc EXCEPT ![s] = "dropped"] /\ UNCHANGED <<at, how>>
    BY <1>5 DEF DropSender, Notify
  <2>5. NotesKept
    <3>1. CASE sender_count # 1
      BY <1>2, <1>3, <2>1, <2>4, <3>1 DEF NotesKept
    <3>2. CASE sender_count = 1
      BY <1>2, <1>3, <2>1, <2>3, <2>4, <3>2 DEF NotesKept
    <3>3. QED
      BY <3>1, <3>2
  <2>6. pc'[Receiver] = pc[Receiver] /\ pc'[ReceiverDrop] = pc[ReceiverDrop]
    BY <1>2, <2>4
  <2>7. sender_count' # 0 => pc'[LastDrop] = "idle"
    BY <1>2, <2>1, <2>2, <2>3, <2>4
  <2>8. Quiet'
    BY <1>3, <2>1, <2>5, <2>6, <2>7 DEF Quiet, NotesKept
  <2>9. QED
    BY <1>3, <2>1, <2>5, <2>6, <2>8
<1>6. CASE Send(s) \/ CancelSend(s) \/ SendLock(s)
  <2>1. PICK l \in {"idle", "calling", "inside"} : pc' = [pc EXCEPT ![s] = l]
    BY <1>6 DEF Send, CancelSend, SendLock
  <2>2. pc[s] \in {"idle", "calling"} /\ UNCHANGED <<at, how, queue, sender_count>>
    BY <1>6 DEF Send, CancelSend, SendLock
  <2>3. NotesKept
    BY <1>2, <1>3, <2>1, <2>2 DEF NotesKept
  <2>4. Quiet'
    BY <1>2, <1>3, <2>1, <2>2 DEF Quiet
  <2>5. QED
    BY <1>2, <1>3, <2>1, <2>2, <2>3, <2>4
<1>7. CASE Push(s)
  <2>1. pc[s] = "inside" /\ sender_count' = sender_count
    BY <1>7 DEF Push
  <2>2. \/ /\ pc' = [pc EXCEPT ![s] = "taking"] /\ at' = [at EXCEPT ![s] = "spin"]
           /\ how' = [how EXCEPT ![s] = "one"]
        \/ pc' = [pc EXCEPT ![s] = "idle"] /\ UNCHANGED <<at, how, queue>>
    BY <1>7 DEF Push, Notify
  <2>3. NotesKept
    BY <1>2, <1>3, <2>1, <2>2 DEF NotesKept
  <2>4. pc[Receiver] \notin {"counting", "registering"}
    BY <1>2, <2>1 DEF Types, ChannelInv, Exclusive, Holding
  <2>5. Quiet'
    BY <1>2, <1>3, <2>1, <2>2, <2>4 DEF Quiet
  <2>6. QED
    BY <1>2, <1>3, <2>2, <2>3, <2>5
<1>8. QED
  BY <1>1, <1>4, <1>5, <1>6, <1>7

\* So does the receiver, but for the end of an async wait.
LEMMA ReceiverNotes ==
  ASSUME Types, Quiet,
         \/ ReceiverMove
         \/ /\ \/ Lock(Receiver) \/ LockParks(Receiver) \/ DeadlinePasses(Receiver)
               \/ StrayUnpark(Receiver) \/ (WaiterStep(Receiver) /\ ~AsyncLate(Receiver))
            /\ UNCHANGED <<shared, result>>
  PROVE NotesKept /\ Quiet'
<1> USE DEF Goto, call, notes, shared
<1>1. /\ pc \in [Actors -> Places \cup Gone \cup Holding] /\ at \in [Notifiers -> AllKinds]
      /\ how \in [Notifiers -> {"one", "all"}]
      /\ Receiver \in Actors /\ Receiver \notin Notifiers
      /\ \A n \in Notifiers : n \in Actors /\ n # Receiver
      /\ LastDrop \in Notifiers /\ ReceiverDrop \in Notifiers /\ LastDrop # ReceiverDrop
      /\ LastDrop \in Actors /\ ReceiverDrop \in Actors
      /\ LastDrop # Receiver /\ ReceiverDrop # Receiver
  BY Known, Roles, RolesAssumption DEF Types, CondvarTypes
<1>2. hand' = hand /\ sender_count' = sender_count
  BY DEF ReceiverMove, Recv, Call, TryRecv, LockTimesOut, DropReceiver, Notify, ReceiverStep,
         PopFront, WaitTimedOut, Leave, NothingThere, ReadCount, StartWait, Register, Lock,
         LockParks, DeadlinePasses, StrayUnpark, WaiterStep, DropGuard, Wake, LoopHead,
         ParkTimeout, Check, SpinLate, RaceLate
<1>3. CASE DropReceiver
  <2>1. /\ pc' = [pc EXCEPT ![Receiver] = "dropped", ![ReceiverDrop] = "taking"]
        /\ receiver_active /\ ~receiver_active' /\ at' = [at EXCEPT ![ReceiverDrop] = "spin"]
        /\ how' = [how EXCEPT ![ReceiverDrop] = "all"] /\ queue' = queue
    BY <1>3 DEF DropReceiver, Notify
  <2>2. pc[ReceiverDrop] = "idle"
    BY <2>1 DEF Quiet
  <2>3. NotesKept
    BY <1>1, <1>2, <2>1, <2>2 DEF NotesKept
  <2>4. pc'[LastDrop] = pc[LastDrop] /\ pc'[Receiver] = "dropped"
    BY <1>1, <2>1
  <2>5. \A n \in Notifiers : pc'[n] # "waking" => hand'[n] = <<>>
    BY <2>3 DEF Quiet, NotesKept
  <2>6. Quiet'
    BY <1>2, <2>1, <2>4, <2>5 DEF Quiet
  <2>7. QED
    BY <2>3, <2>6
<1>4. CASE ~DropReceiver
  <2>1. UNCHANGED <<at, how, receiver_active>>
    BY <1>4
    DEF ReceiverMove, Recv, Call, TryRecv, LockTimesOut, ReceiverStep, PopFront, WaitTimedOut,
        Leave, NothingThere, ReadCount, StartWait, Register, Lock, LockParks, DeadlinePasses,
        StrayUnpark, WaiterStep, DropGuard, Wake, LoopHead, ParkTimeout, Check, SpinLate, RaceLate
  <2>2. \E l : pc' = pc \/ pc' = [pc EXCEPT ![Receiver] = l]
    BY <1>4
    DEF ReceiverMove, Recv, Call, TryRecv, LockTimesOut, ReceiverStep, PopFront, WaitTimedOut,
        Leave, Return, NothingThere, ReadCount, StartWait, Register, Lock, LockParks,
        DeadlinePasses, StrayUnpark, WaiterStep, DropGuard, Wake, LoopHead, ParkTimeout, Check,
        SpinLate, RaceLate, Relock
  <2>3. \A n \in Notifiers : pc'[n] = pc[n]
    BY <1>1, <2>2
  <2>4. NotesKept
    BY <1>2, <2>1, <2>3 DEF NotesKept
  <2>5. pc'[Receiver] \in {"counting", "registering"} => queue' = <<>>
    <3>1. CASE PopFront \/ WaitTimedOut
      BY <1>1, <3>1 DEF PopFront, WaitTimedOut, Leave, Return
    <3>2. CASE NothingThere
      BY <1>1, <3>2 DEF NothingThere
    <3>3. CASE ReadCount
      BY <1>1, <3>3 DEF ReadCount, Quiet
    <3>4. CASE ~(PopFront \/ WaitTimedOut \/ NothingThere \/ ReadCount)
      <4>1. queue' = queue
        BY <1>4, <3>4
        DEF ReceiverMove, Recv, TryRecv, LockTimesOut, ReceiverStep, StartWait
      <4>2. \/ pc'[Receiver] = pc[Receiver] \/ pc'[Receiver] \notin {"counting", "registering"}
        BY <1>1, <1>4, <3>4
        DEF ReceiverMove, Recv, Call, TryRecv, LockTimesOut, Return, ReceiverStep, StartWait,
            Register, Lock, LockParks, DeadlinePasses, StrayUnpark, WaiterStep, DropGuard, Wake,
            LoopHead, ParkTimeout, Check, SpinLate, RaceLate, Relock
      <4>3. QED
        BY <4>1, <4>2 DEF Quiet
    <3>5. QED
      BY <3>1, <3>2, <3>3, <3>4
  <2>6. QED
    BY <1>1, <1>2, <2>1, <2>3, <2>4, <2>5 DEF Quiet
<1>5. QED
  BY <1>3, <1>4

\* Who has the receiver's entry of a list, and whether it waits for it.
Holds(n, k) == pc[n] = "waking" /\ at[n] = k /\ Contains(hand[n], Receiver)
Waits(k) == InWait(Receiver) /\ kind[Receiver] = k

\* Nothing of the receiver is about, in a list whose entries are new in every wait.
Clear(k) == /\ ~Contains(waiting[k], Receiver) /\ ~woken[k][Receiver]
            /\ \A n \in Notifiers : ~Holds(n, k)

\* The entry of such a wait is once in the list, or with one notifier, or has been woken;
\* in the list it is the youngest, which is popped first.
Fresh(k) == /\ Waits(k) \/ Clear(k)
            /\ OnlyLast(waiting[k])
            /\ Contains(waiting[k], Receiver) => ~woken[k][Receiver]
            /\ \A n \in Notifiers : Holds(n, k) =>
                 /\ ~Contains(waiting[k], Receiver) /\ ~woken[k][Receiver]
                 /\ OnlyLast(hand[n])
                 /\ \A m \in Notifiers : Holds(m, k) => m = n

\* Only the async list keeps the entries of futures that are gone.
Live == \A k \in {"spin", "block"} :
  /\ ~Contains(waiting[k], Dropped)
  /\ \A n \in Notifiers : pc[n] = "waking" /\ at[n] = k => ~Contains(hand[n], Dropped)

\* The loop of the timed blocking wait, and the end of a timed async one.
Apart == /\ pc[Receiver] \in {"head", "check"} => kind[Receiver] = "block"
         /\ pc[Receiver] = "late" => kind[Receiver] = "async"

Informed == Quiet /\ Apart /\ Live /\ Fresh("spin") /\ Fresh("async") /\ MessageTold

\* A list the receiver has nothing to do with.
LEMMA ClearIsFresh == ASSUME NEW k, Clear(k)' PROVE Fresh(k)'
  BY DEF Clear, Fresh, Contains, OnlyLast, Holds

\* What does not touch a list leaves it as it is, unless the receiver gives up its wait.
LEMMA FreshKept ==
  ASSUME NEW k, Fresh(k), waiting'[k] = waiting[k], woken'[k][Receiver] = woken[k][Receiver],
         Waits(k) => Waits(k)' \/ Clear(k),
         \A n \in Notifiers : Holds(n, k)' => Holds(n, k) /\ hand'[n] = hand[n]
  PROVE Fresh(k)'
<1>1. /\ Contains(waiting[k], Receiver)' <=> Contains(waiting[k], Receiver)
      /\ OnlyLast(waiting[k])' <=> OnlyLast(waiting[k])
  BY DEF Contains, OnlyLast
<1>2. \A n \in Notifiers : Holds(n, k)' => Holds(n, k) /\ (OnlyLast(hand[n])' <=> OnlyLast(hand[n]))
  BY DEF OnlyLast
<1>3. CASE Clear(k)
  <2>1. Clear(k)'
    BY <1>1, <1>2, <1>3 DEF Clear
  <2>2. QED
    BY <2>1, ClearIsFresh
<1>4. CASE ~Clear(k)
  <2>1. Waits(k)'
    BY <1>4 DEF Fresh
  <2>2. QED
    BY <1>1, <1>2, <2>1 DEF Fresh
<1>5. QED
  BY <1>3, <1>4

\* The same for those who leave the notifiers alone.
LEMMA NotesFresh ==
  ASSUME NEW k, Fresh(k), NotesKept, waiting'[k] = waiting[k],
         woken'[k][Receiver] = woken[k][Receiver], Waits(k) => Waits(k)' \/ Clear(k)
  PROVE Fresh(k)'
<1>1. \A n \in Notifiers : Holds(n, k)' => Holds(n, k) /\ hand'[n] = hand[n]
  BY DEF NotesKept, Holds, Contains
<1>2. QED
  BY <1>1, FreshKept

\* They bring no entries of dropped futures into the lists of threads,
LEMMA NotesLive ==
  ASSUME Live, NotesKept,
         \A k \in {"spin", "block"} : Contains(waiting'[k], Dropped) => Contains(waiting[k], Dropped)
  PROVE Live'
  BY DEF Live, NotesKept, Contains

\* and stop no notification,
LEMMA NotesTold ==
  ASSUME MessageTold, NotesKept, queue' = queue, Forgotten(Receiver)' => Forgotten(Receiver),
         kind'[Receiver] = kind[Receiver], woken["block"][Receiver] => woken'["block"][Receiver],
         deadline[Receiver] # "none" => deadline'[Receiver] # "none"
  PROVE MessageTold'
<1> SUFFICES ASSUME Forgotten(Receiver)', queue' # <<>>
             PROVE \/ \E n \in Notifiers : OnItsWay(n, kind[Receiver])'
                   \/ kind'[Receiver] = "async" /\ Unparked'
                   \/ kind'[Receiver] = "block" /\ deadline'[Receiver] # "none"
  BY DEF MessageTold
<1>1. \A n \in Notifiers : OnItsWay(n, kind[Receiver]) => OnItsWay(n, kind[Receiver])'
  BY DEF OnItsWay, NotesKept
<1>2. Unparked => Unparked'
  BY DEF Unparked, NotesKept, Contains
<1>3. QED
  BY <1>1, <1>2 DEF MessageTold

\* as long as the receiver waits on as before.
LEMMA WaitKept ==
  ASSUME NotesKept, kind'[Receiver] = kind[Receiver],
         InWait(Receiver)' => InWait(Receiver),
         waiting'[kind[Receiver]] = waiting[kind[Receiver]],
         woken[kind[Receiver]][Receiver] => woken'[kind[Receiver]][Receiver]
  PROVE Forgotten(Receiver)' => Forgotten(Receiver)
<1>1. Queued(Receiver)' <=> Queued(Receiver)
  BY DEF Queued, Contains
<1>2. InHand(Receiver) => InHand(Receiver)'
  BY DEF InHand, NotesKept, Contains
<1>3. QED
  BY <1>1, <1>2 DEF Forgotten

\* A sender that has pushed a message sends a notification after it.
LEMMA SenderInformed == ASSUME Types, Informed, SenderMove PROVE Informed'
<1>1. /\ NotesKept /\ Quiet' /\ pc'[Receiver] = pc[Receiver]
      /\ UNCHANGED <<waiting, woken, kind, deadline>>
      /\ queue' = queue \/ \E s \in Senders : pc'[s] = "taking" /\ at'[s] = "spin"
  BY SenderNotes DEF Informed
<1>2. InWait(Receiver)' <=> InWait(Receiver)
  BY <1>1 DEF InWait
<1>3. ASSUME NEW k, Fresh(k) PROVE Fresh(k)'
  BY <1>1, <1>2, <1>3, NotesFresh DEF Waits
<1>4. Live'
  BY <1>1, NotesLive DEF Informed
<1>5. MessageTold'
  <2>1. CASE queue' = queue
    BY <1>1, <1>2, <2>1, NotesTold, WaitKept DEF Informed
  <2>2. CASE queue' # queue
    <3>1. PICK s \in Senders : pc'[s] = "taking" /\ at'[s] = "spin"
      BY <1>1, <2>2
    <3>2. s \in Notifiers /\ OnItsWay(s, kind[Receiver])'
      BY <3>1, RolesAssumption DEF OnItsWay
    <3>3. QED
      BY <3>2 DEF MessageTold
  <2>3. QED
    BY <2>1, <2>2
<1>6. Apart'
  BY <1>1 DEF Informed, Apart
<1>7. QED
  BY <1>1, <1>3, <1>4, <1>5, <1>6 DEF Informed

\* Where InWait is true.
InWaitPlaces == {"registered", "head", "asleep", "check", "popped", "late"}

\* Before the registration and after the wait nothing of the receiver is about.
LEMMA OutsideInformed ==
  ASSUME Types, Informed,
         \/ ReceiverMove /\ ~StartWait
         \/ (Lock(Receiver) \/ LockParks(Receiver)) /\ UNCHANGED <<shared, result>>
  PROVE Informed'
<1> USE DEF Goto, call, notes, shared
<1>1. NotesKept /\ Quiet'
  BY ReceiverNotes DEF Informed
<1>2. /\ pc \in [Actors -> Places \cup Gone \cup Holding] /\ Receiver \in Actors
      /\ woken \in [AllKinds -> [Waiters -> BOOLEAN]] /\ Receiver # ReceiverDrop
      /\ ReceiverDrop \in Actors
  BY Known, Roles
<1>3. pc[Receiver] \notin InWaitPlaces /\ pc'[Receiver] \notin InWaitPlaces
  BY <1>2
  DEF ReceiverMove, Recv, Call, TryRecv, LockTimesOut, DropReceiver, ReceiverStep, PopFront,
      WaitTimedOut, Leave, Return, NothingThere, ReadCount, Lock, LockParks, InWaitPlaces
<1>4. waiting' = waiting /\ \A k \in {"spin", "async"} : woken'[k] = woken[k]
  BY <1>2
  DEF ReceiverMove, Recv, Call, TryRecv, LockTimesOut, DropReceiver, Notify, ReceiverStep,
      PopFront, WaitTimedOut, Leave, NothingThere, ReadCount, Lock, LockParks, AllKinds
<1>5. ~InWait(Receiver) /\ ~InWait(Receiver)'
  BY <1>3 DEF InWait, InWaitPlaces
<1>6. Fresh("spin")' /\ Fresh("async")'
  BY <1>1, <1>4, <1>5, NotesFresh DEF Informed, Waits
<1>7. Live'
  BY <1>1, <1>4, NotesLive DEF Informed
<1>8. Apart' /\ MessageTold'
  BY <1>3, <1>5 DEF Apart, InWaitPlaces, MessageTold, Forgotten
<1>9. QED
  BY <1>1, <1>6, <1>7, <1>8 DEF Informed

\* The registration comes with an empty queue, and with an entry that is new.
LEMMA StartInformed == ASSUME Types, Informed, StartWait PROVE Informed'
<1> USE DEF Goto, call, notes, shared
<1>1. NotesKept /\ Quiet'
  BY ReceiverNotes DEF Informed, ReceiverMove, ReceiverStep
<1> DEFINE k == kind[Receiver]
           s == waiting[k]
<1>2. /\ pc \in [Actors -> Places \cup Gone \cup Holding] /\ Receiver \in Actors
      /\ waiting \in [AllKinds -> Seq(Entries)]
      /\ woken \in [AllKinds -> [Waiters -> BOOLEAN]] /\ Receiver \in Waiters
      /\ pc[Receiver] = "registering" /\ k \in AllKinds
  BY Known DEF StartWait, Types, TryKnown
<1>3. /\ waiting' = [waiting EXCEPT ![k] = Append(s, Receiver)] /\ kind' = kind
      /\ woken' = IF k = "block" THEN woken ELSE [woken EXCEPT ![k][Receiver] = FALSE]
      /\ pc' = [pc EXCEPT ![Receiver] = "registered"] /\ queue' = queue
  BY DEF StartWait, Register
<1>4. ~InWait(Receiver) /\ pc'[Receiver] = "registered" /\ s \in Seq(Entries)
  BY <1>2, <1>3 DEF InWait
<1>5. InWait(Receiver)'
  BY <1>4 DEF InWait
<1>6. ASSUME NEW l \in {"spin", "async"} PROVE Fresh(l)'
  <2>1. Fresh(l) /\ Clear(l)
    BY <1>4, <1>6 DEF Informed, Fresh, Waits
  <2>2. CASE l # k
    <3>1. waiting'[l] = waiting[l] /\ woken'[l][Receiver] = woken[l][Receiver]
      BY <1>2, <1>3, <2>2 DEF AllKinds
    <3>2. QED
      BY <1>1, <2>1, <3>1, NotesFresh
  <2>3. CASE l = k
    <3>1. waiting'[l] = Append(s, Receiver) /\ ~woken'[l][Receiver]
      BY <1>2, <1>3, <2>3
    <3>2. OnlyLast(waiting'[l])
      BY <1>4, <2>1, <2>3, <3>1, Appended DEF Clear
    <3>3. OnlyLast(waiting[l])'
      BY <3>2 DEF OnlyLast
    <3>4. \A n \in Notifiers : ~Holds(n, l)'
      BY <1>1, <2>1 DEF NotesKept, Clear, Holds, Contains
    <3>5. Waits(l)'
      BY <1>3, <1>5, <2>3 DEF Waits
    <3>6. QED
      BY <3>1, <3>3, <3>4, <3>5 DEF Fresh
  <2>4. QED
    BY <2>2, <2>3
<1>7. Live'
  <2>1. ASSUME NEW l \in {"spin", "block"}, Contains(waiting'[l], Dropped)
        PROVE Contains(waiting[l], Dropped)
    <3>1. CASE l # k
      BY <1>2, <1>3, <2>1, <3>1 DEF AllKinds
    <3>2. CASE l = k
      BY <1>2, <1>3, <1>4, <2>1, <3>2, Appended
    <3>3. QED
      BY <3>1, <3>2
  <2>2. QED
    BY <1>1, <2>1, NotesLive DEF Informed
<1>8. queue' = <<>>
  BY <1>2, <1>3 DEF Informed, Quiet
<1>9. Apart' /\ MessageTold'
  BY <1>4, <1>8 DEF Apart, MessageTold
<1>10. QED
  BY <1>1, <1>6, <1>7, <1>9 DEF Informed

\* In the wait the receiver leaves everything to the notifiers.
LEMMA StayInformed ==
  ASSUME Types, Informed, NotesKept, Quiet', Apart', UNCHANGED <<waiting, kind, queue>>,
         InWait(Receiver)' <=> InWait(Receiver),
         \A k \in {"spin", "async"} : woken'[k] = woken[k],
         woken["block"][Receiver] => woken'["block"][Receiver],
         deadline[Receiver] # "none" => deadline'[Receiver] # "none"
  PROVE Informed'
<1>1. Fresh("spin")' /\ Fresh("async")'
  BY NotesFresh DEF Informed, Waits
<1>2. Live'
  BY NotesLive DEF Informed
<1>3. MessageTold'
  <2>1. CASE ~InWait(Receiver)
    BY <2>1 DEF MessageTold, Forgotten
  <2>2. CASE InWait(Receiver)
    <3>1. kind[Receiver] \in AllKinds
      BY <2>2, Known DEF Types, TryKnown, InWait
    <3>2. woken[kind[Receiver]][Receiver] => woken'[kind[Receiver]][Receiver]
      BY <3>1 DEF AllKinds
    <3>3. QED
      BY <3>2, NotesTold, WaitKept DEF Informed
  <2>3. QED
    BY <2>1, <2>2
<1>4. QED
  BY <1>1, <1>2, <1>3 DEF Informed

\* The end of a wait is no harm when nothing of it stays behind.
LEMMA LeaveInformed ==
  ASSUME Informed, Quiet', pc'[Receiver] \notin InWaitPlaces, Live', Fresh("spin")', Fresh("async")'
  PROVE Informed'
  BY DEF Informed, Apart, MessageTold, Forgotten, InWait, InWaitPlaces

\* Time passes, and the token of the thread is set by others.
LEMMA OthersInformed ==
  ASSUME Types, Informed, DeadlinePasses(Receiver) \/ StrayUnpark(Receiver),
         UNCHANGED <<shared, result>>
  PROVE Informed'
<1> USE DEF call, notes, shared
<1>1. NotesKept /\ Quiet'
  BY ReceiverNotes DEF Informed
<1>2. /\ woken \in [AllKinds -> [Waiters -> BOOLEAN]] /\ Receiver \in Waiters
      /\ deadline \in [Waiters -> {"none", "ahead", "passed"}]
  BY Known DEF Types, CondvarTypes
<1>3. UNCHANGED <<waiting, kind, queue, pc>>
  BY DEF DeadlinePasses, StrayUnpark
<1>4. \A k \in {"spin", "async"} : woken'[k] = woken[k]
  BY <1>2 DEF DeadlinePasses, StrayUnpark, AllKinds
<1>5. woken["block"][Receiver] => woken'["block"][Receiver]
  BY <1>2 DEF DeadlinePasses, StrayUnpark, AllKinds
<1>6. deadline[Receiver] # "none" => deadline'[Receiver] # "none"
  BY <1>2 DEF DeadlinePasses, StrayUnpark
<1>7. Apart' /\ (InWait(Receiver)' <=> InWait(Receiver))
  BY <1>3 DEF Informed, Apart, InWait
<1>8. QED
  BY <1>1, <1>3, <1>4, <1>5, <1>6, <1>7, StayInformed

\* The wait of a thread or a task, but for the end of an async one.  Two steps look at the
\* list after a deadline; the one that finds nothing there waits on for its flag.
LEMMA WaiterInformed ==
  ASSUME Types, Informed, WaiterStep(Receiver), ~AsyncLate(Receiver), UNCHANGED <<shared, result>>
  PROVE Informed'
<1> USE DEF Goto, call, notes, shared
<1>1. NotesKept /\ Quiet'
  BY ReceiverNotes DEF Informed
<1> DEFINE k == kind[Receiver]
           s == waiting[k]
<1>2. /\ pc \in [Actors -> Places \cup Gone \cup Holding] /\ Receiver \in Actors
      /\ waiting \in [AllKinds -> Seq(Entries)]
      /\ woken \in [AllKinds -> [Waiters -> BOOLEAN]] /\ Receiver \in Waiters
  BY Known
<1>3. pc[Receiver] \in InWaitPlaces /\ InWait(Receiver)
  BY DEF WaiterStep, DropGuard, Wake, LoopHead, ParkTimeout, Check, SpinLate, RaceLate,
         InWait, InWaitPlaces
<1>4. k \in AllKinds /\ s \in Seq(Entries) /\ UNCHANGED <<kind, deadline, queue>>
  BY <1>2, <1>3, Known
  DEF Types, TryKnown, InWaitPlaces, WaiterStep, DropGuard, Wake, LoopHead, ParkTimeout, Check,
      SpinLate, RaceLate, Relock
<1>5. ASSUME NEW l \in {"head", "asleep", "check", "popped", "late"},
             pc' = [pc EXCEPT ![Receiver] = l],
             l \in {"head", "check"} => k = "block", l = "late" => k = "async",
             waiting' = waiting, woken' = woken
      PROVE Informed'
  <2>1. Apart' /\ InWait(Receiver)'
    BY <1>2, <1>4, <1>5 DEF Apart, InWait
  <2>2. QED
    BY <1>1, <1>3, <1>4, <1>5, <2>1, StayInformed
<1>6. ASSUME pc' = [pc EXCEPT ![Receiver] = "locking"], waiting' = waiting,
             \A l \in {"spin", "async"} \ {k} : woken'[l] = woken[l],
             k # "block" => woken[k][Receiver] /\ ~woken'[k][Receiver]
      PROVE Informed'
  <2>1. pc'[Receiver] \notin InWaitPlaces
    BY <1>2, <1>6 DEF InWaitPlaces
  <2>2. Live'
    BY <1>1, <1>6, NotesLive DEF Informed
  <2>3. ASSUME NEW l \in {"spin", "async"} PROVE Fresh(l)'
    <3>1. Fresh(l)
      BY <2>3 DEF Informed
    <3>2. CASE l # k
      BY <1>1, <1>6, <2>3, <3>1, <3>2, NotesFresh DEF Waits
    <3>3. CASE l = k
      <4>1. woken[l][Receiver] /\ ~woken'[l][Receiver]
        BY <1>6, <2>3, <3>3
      <4>2. ~Contains(waiting[l], Receiver) /\ \A n \in Notifiers : ~Holds(n, l)
        BY <3>1, <4>1 DEF Fresh
      <4>3. Clear(l)'
        BY <1>1, <1>6, <4>1, <4>2 DEF Clear, NotesKept, Holds, Contains
      <4>4. QED
        BY <4>3, ClearIsFresh
    <3>4. QED
      BY <3>2, <3>3
  <2>4. QED
    BY <1>1, <2>1, <2>2, <2>3, LeaveInformed
<1>7. ASSUME RemoveOwn(Receiver), Queued(Receiver), k \in {"spin", "block"}, woken' = woken,
             pc' = [pc EXCEPT ![Receiver] = "locking"]
      PROVE Informed'
  <2> DEFINE r == RemoveFirst(s, Receiver)
  <2>1. /\ pc'[Receiver] \notin InWaitPlaces /\ waiting' = [waiting EXCEPT ![k] = r]
        /\ waiting'[k] = r /\ \A l \in AllKinds \ {k} : waiting'[l] = waiting[l]
    BY <1>2, <1>4, <1>7 DEF InWaitPlaces, RemoveOwn
  <2>2. /\ \A x : Contains(r, x) => Contains(s, x)
        /\ OnlyLast(s) => ~Contains(r, Receiver)
    BY <1>4, Removed
  <2>3. Live'
    <3>1. \A l \in {"spin", "block"} : Contains(waiting'[l], Dropped) => Contains(waiting[l], Dropped)
      <4> HIDE DEF r
      <4>1. QED
        BY <2>1, <2>2 DEF AllKinds
    <3>2. QED
      BY <1>1, <3>1, NotesLive DEF Informed
  <2>4. ASSUME NEW l \in {"spin", "async"} PROVE Fresh(l)'
    <3>1. Fresh(l)
      BY <2>4 DEF Informed
    <3>2. CASE l # k
      <4>1. waiting'[l] = waiting[l]
        BY <2>1, <2>4, <3>2 DEF AllKinds
      <4>2. QED
        BY <1>1, <1>7, <3>1, <3>2, <4>1, NotesFresh DEF Waits
    <3>3. CASE l = k
      <4>1. Contains(waiting[l], Receiver)
        BY <1>7, <3>3 DEF Queued
      <4>2. ~woken[l][Receiver] /\ OnlyLast(s) /\ \A n \in Notifiers : ~Holds(n, l)
        BY <3>1, <3>3, <4>1 DEF Fresh
      <4>3. ~Contains(waiting'[l], Receiver) /\ ~woken'[l][Receiver]
        <5> HIDE DEF r
        <5>1. QED
          BY <1>7, <2>1, <2>2, <3>3, <4>2
      <4>4. Clear(l)'
        BY <1>1, <4>2, <4>3 DEF Clear, NotesKept, Holds, Contains
      <4>5. QED
        BY <4>4, ClearIsFresh
    <3>4. QED
      BY <3>2, <3>3
  <2>5. QED
    BY <1>1, <2>1, <2>3, <2>4, LeaveInformed
<1>8. ASSUME RemoveOwn(Receiver), ~Queued(Receiver) PROVE waiting' = waiting
  BY <1>2, <1>4, <1>8, Removed DEF RemoveOwn, Queued
<1>9. CASE DropGuard(Receiver)
  BY <1>5, <1>9 DEF DropGuard
<1>10. CASE Wake(Receiver)
  <2>1. woken' = [woken EXCEPT ![k][Receiver] = FALSE] /\ waiting' = waiting /\ woken[k][Receiver]
    BY <1>10 DEF Wake
  <2>2. /\ \A l \in AllKinds \ {k} : woken'[l] = woken[l]
        /\ ~woken'[k][Receiver]
    BY <1>2, <1>4, <2>1
  <2>3. CASE k = "block" /\ deadline[Receiver] # "none"
    <3>1. pc' = [pc EXCEPT ![Receiver] = "check"]
      BY <1>10, <2>3 DEF Wake
    <3>2. pc'[Receiver] = "check" /\ Apart'
      BY <1>2, <1>4, <2>3, <3>1 DEF Apart
    <3>3. Fresh("spin")' /\ Fresh("async")'
      <4>1. woken'["spin"] = woken["spin"] /\ woken'["async"] = woken["async"]
        BY <2>2, <2>3 DEF AllKinds
      <4>2. QED
        BY <1>1, <2>1, <2>3, <4>1, NotesFresh DEF Informed, Waits
    <3>4. Live'
      BY <1>1, <2>1, NotesLive DEF Informed
    <3>5. MessageTold'
      BY <1>4, <2>3 DEF MessageTold
    <3>6. QED
      BY <1>1, <3>2, <3>3, <3>4, <3>5 DEF Informed
  <2>4. CASE ~(k = "block" /\ deadline[Receiver] # "none")
    <3>1. pc' = [pc EXCEPT ![Receiver] = "locking"]
      BY <1>10, <2>4 DEF Wake, Relock
    <3>2. \A l \in {"spin", "async"} \ {k} : woken'[l] = woken[l]
      BY <2>2 DEF AllKinds
    <3>3. QED
      BY <1>6, <2>1, <2>2, <3>1, <3>2
  <2>5. QED
    BY <2>3, <2>4
<1>11. CASE LoopHead(Receiver)
  <2>1. k = "block"
    BY <1>11 DEF LoopHead, Informed, Apart
  <2>2. CASE deadline[Receiver] # "passed"
    BY <1>5, <1>11, <2>2 DEF LoopHead
  <2>3. CASE deadline[Receiver] = "passed"
    <3>1. RemoveOwn(Receiver) /\ woken' = woken /\ pc' = [pc EXCEPT ![Receiver] = "locking"]
      BY <1>11, <2>3 DEF LoopHead, Relock
    <3>2. CASE Queued(Receiver)
      BY <1>7, <2>1, <3>1, <3>2
    <3>3. CASE ~Queued(Receiver)
      BY <1>6, <1>8, <2>1, <3>1, <3>3
    <3>4. QED
      BY <3>2, <3>3
  <2>4. QED
    BY <2>2, <2>3
<1>12. CASE ParkTimeout(Receiver)
  BY <1>5, <1>12 DEF ParkTimeout
<1>13. CASE Check(Receiver)
  <2>1. k = "block" /\ UNCHANGED <<waiting, woken>>
    BY <1>13 DEF Check, Informed, Apart
  <2>2. CASE Queued(Receiver)
    BY <1>5, <1>13, <2>1, <2>2 DEF Check
  <2>3. CASE ~Queued(Receiver)
    BY <1>6, <1>13, <2>1, <2>3 DEF Check, Relock
  <2>4. QED
    BY <2>2, <2>3
<1>14. CASE SpinLate(Receiver)
  <2>1. k = "spin" /\ RemoveOwn(Receiver) /\ woken' = woken
    BY <1>14 DEF SpinLate
  <2>2. CASE Queued(Receiver)
    BY <1>7, <1>14, <2>1, <2>2 DEF SpinLate, Relock
  <2>3. CASE ~Queued(Receiver)
    BY <1>5, <1>8, <1>14, <2>1, <2>3 DEF SpinLate
  <2>4. QED
    BY <2>2, <2>3
<1>15. CASE RaceLate(Receiver)
  BY <1>5, <1>15 DEF RaceLate
<1>16. QED
  BY <1>9, <1>10, <1>11, <1>12, <1>13, <1>14, <1>15 DEF WaiterStep

\* A task whose async wait has timed out, or has been dropped, leaves no entry of its own.
LEMMA TaskGoneInformed ==
  ASSUME Types, Informed, AsyncLate(Receiver) \/ CancelAsync(Receiver), UNCHANGED <<shared, result>>
  PROVE Informed'
<1> USE DEF Goto, call, notes, shared
<1>1. /\ pc \in [Actors -> Places \cup Gone \cup Holding] /\ Receiver \in Actors
      /\ waiting \in [AllKinds -> Seq(Entries)] /\ hand \in [Notifiers -> Seq(Entries)]
      /\ woken \in [AllKinds -> [Waiters -> BOOLEAN]] /\ Receiver \in Waiters
      /\ waiting["async"] \in Seq(Entries)
      /\ LastDrop \in Notifiers /\ ReceiverDrop \in Notifiers
      /\ \A n \in Notifiers : n \in Actors /\ n # Receiver
  BY Known, Roles, RolesAssumption DEF AllKinds
<1>2. kind[Receiver] = "async" /\ OnlyLast(waiting["async"])
  BY DEF AsyncLate, CancelAsync, Informed, Apart, Fresh
<1>3. /\ \E l \in {"locking", "idle"} : pc' = [pc EXCEPT ![Receiver] = l]
      /\ woken' = [woken EXCEPT !["async"][Receiver] = FALSE] /\ Forget(Receiver)
      /\ UNCHANGED <<how, at, queue, sender_count, receiver_active>>
  BY DEF AsyncLate, CancelAsync, Relock, Return
<1>4. /\ pc'[Receiver] \in {"locking", "idle"}
      /\ \A n \in Notifiers : pc'[n] = pc[n]
  BY <1>1, <1>3
<1>5. \A n \in Notifiers :
        hand'[n] = IF at[n] = "async" THEN ReplaceAll(hand[n], Receiver, Dropped) ELSE hand[n]
  BY <1>3 DEF Forget
<1>6. PICK r : /\ waiting' = [waiting EXCEPT !["async"] = r] /\ ~Contains(r, Receiver)
  <2>1. CASE AsyncLate(Receiver)
    <3>1. ~Contains(RemoveFirst(waiting["async"], Receiver), Receiver)
      BY <1>1, <1>2, Removed
    <3>2. waiting' = [waiting EXCEPT !["async"] = RemoveFirst(waiting["async"], Receiver)]
      BY <1>1, <1>2, <2>1 DEF AsyncLate, RemoveOwn
    <3>3. QED
      BY <3>1, <3>2
  <2>2. CASE CancelAsync(Receiver)
    <3>1. ~Contains(ReplaceAll(waiting["async"], Receiver, Dropped), Receiver)
      BY <1>1, Replaced
    <3>2. waiting' = [waiting EXCEPT !["async"] = ReplaceAll(waiting["async"], Receiver, Dropped)]
      BY <1>1, <2>2 DEF CancelAsync
    <3>3. QED
      BY <3>1, <3>2
  <2>3. QED
    BY <2>1, <2>2
<1>7. /\ waiting'["async"] = r /\ waiting'["spin"] = waiting["spin"]
      /\ waiting'["block"] = waiting["block"]
      /\ ~woken'["async"][Receiver] /\ woken'["spin"] = woken["spin"]
  BY <1>1, <1>3, <1>6 DEF AllKinds
<1>8. Quiet'
  <2>1. ASSUME NEW n \in Notifiers, pc'[n] # "waking" PROVE hand'[n] = <<>>
    <3>1. hand[n] = <<>> /\ hand[n] \in Seq(Entries)
      BY <1>1, <1>4, <2>1 DEF Informed, Quiet
    <3>2. ReplaceAll(hand[n], Receiver, Dropped) = <<>>
      BY <3>1, Replaced
    <3>3. QED
      BY <1>5, <3>1, <3>2
  <2>2. QED
    BY <1>1, <1>3, <1>4, <2>1 DEF Informed, Quiet
<1>9. Live'
  BY <1>3, <1>4, <1>5, <1>7 DEF Informed, Live, Contains
<1>10. Fresh("spin")'
  <2>1. \A n \in Notifiers : Holds(n, "spin")' => Holds(n, "spin") /\ hand'[n] = hand[n]
    BY <1>3, <1>4, <1>5 DEF Holds, Contains
  <2>2. ~Waits("spin") /\ Fresh("spin")
    BY <1>2 DEF Waits, Informed
  <2>3. QED
    BY <1>7, <2>1, <2>2, FreshKept
<1>11. Fresh("async")'
  <2>1. \A n \in Notifiers : ~Holds(n, "async")'
    <3>1. SUFFICES ASSUME NEW n \in Notifiers, at[n] = "async" PROVE ~Contains(hand'[n], Receiver)
      BY <1>3 DEF Holds, Contains
    <3>2. ~Contains(ReplaceAll(hand[n], Receiver, Dropped), Receiver)
      BY <1>1, Replaced
    <3>3. QED
      BY <1>5, <3>1, <3>2
  <2>2. ~Contains(waiting["async"], Receiver)'
    BY <1>6, <1>7 DEF Contains
  <2>3. Clear("async")'
    BY <1>7, <2>1, <2>2 DEF Clear
  <2>4. QED
    BY <2>3, ClearIsFresh
<1>12. pc'[Receiver] \notin InWaitPlaces
  BY <1>4 DEF InWaitPlaces
<1>13. QED
  BY <1>8, <1>9, <1>10, <1>11, <1>12, LeaveInformed

\* What every step of a notifier leaves alone.
LEMMA NotifierFrame ==
  ASSUME Types, Informed, NEW n \in Notifiers, NotifierStep(n), UNCHANGED <<shared, result>>
  PROVE /\ pc[n] \in {"taking", "waking"} /\ at[n] \in AllKinds
        /\ UNCHANGED <<kind, deadline, how, queue>> /\ pc'[Receiver] = pc[Receiver]
        /\ \A m \in Notifiers \ {n} : pc'[m] = pc[m] /\ at'[m] = at[m] /\ hand'[m] = hand[m]
        /\ Quiet' /\ Apart' /\ (InWait(Receiver)' <=> InWait(Receiver))
<1> USE DEF Goto, call, notes, shared
<1>1. /\ pc \in [Actors -> Places \cup Gone \cup Holding] /\ Receiver \in Actors
      /\ hand \in [Notifiers -> Seq(Entries)] /\ at \in [Notifiers -> AllKinds]
      /\ LastDrop \in Notifiers /\ ReceiverDrop \in Notifiers
      /\ \A m \in Notifiers : m \in Actors /\ m # Receiver
  BY Known, Roles, RolesAssumption
<1>2. /\ pc[n] \in {"taking", "waking"}
      /\ UNCHANGED <<kind, deadline, how, queue, sender_count, receiver_active>>
  BY DEF NotifierStep, Pop, TakeAll, Deliver, Delivered
<1>3. \E l : pc' = pc \/ pc' = [pc EXCEPT ![n] = l]
  BY DEF NotifierStep, Pop, TakeAll, Deliver, Delivered, NextList
<1>4. \E k : at' = at \/ at' = [at EXCEPT ![n] = k]
  BY DEF NotifierStep, Pop, TakeAll, Deliver, Delivered, NextList
<1>5. \E h : hand' = hand \/ hand' = [hand EXCEPT ![n] = h]
  BY DEF NotifierStep, Pop, TakeAll, Deliver, Delivered
<1>6. /\ pc'[Receiver] = pc[Receiver]
      /\ \A m \in Notifiers \ {n} : pc'[m] = pc[m] /\ at'[m] = at[m] /\ hand'[m] = hand[m]
  BY <1>1, <1>3, <1>4, <1>5
<1>7. pc'[n] # "waking" => hand'[n] = <<>>
  BY <1>1, <1>2 DEF NotifierStep, Pop, TakeAll, Deliver, Delivered, Informed, Quiet
<1>8. Quiet'
  BY <1>1, <1>2, <1>6, <1>7 DEF Informed, Quiet
<1>9. Apart' /\ (InWait(Receiver)' <=> InWait(Receiver))
  BY <1>2, <1>6 DEF Informed, Apart, InWait
<1>10. QED
  BY <1>1, <1>2, <1>6, <1>8, <1>9

\* A notifier that finds nothing, or has woken all it took, goes on to the next list, until
\* it has been at the receiver's.
LEMMA MoveInformed ==
  ASSUME Types, Informed, NEW n \in Notifiers, NotifierStep(n), UNCHANGED <<shared, result>>,
         (Pop(n) /\ waiting[at[n]] = <<>>) \/ Delivered(n)
  PROVE Informed'
<1> USE DEF Goto, call, notes
<1> DEFINE k == kind[Receiver]
<1>1. /\ pc[n] \in {"taking", "waking"} /\ at[n] \in AllKinds
      /\ UNCHANGED <<kind, deadline, how, queue>> /\ pc'[Receiver] = pc[Receiver]
      /\ \A m \in Notifiers \ {n} : pc'[m] = pc[m] /\ at'[m] = at[m] /\ hand'[m] = hand[m]
      /\ Quiet' /\ Apart' /\ (InWait(Receiver)' <=> InWait(Receiver))
  BY NotifierFrame
<1>2. /\ hand' = hand /\ hand[n] = <<>> /\ UNCHANGED <<waiting, woken>>
      /\ pc[n] = "taking" => waiting[at[n]] = <<>>
  BY DEF Pop, Delivered, Informed, Quiet
<1>3. /\ pc \in [Actors -> Places \cup Gone \cup Holding] /\ at \in [Notifiers -> AllKinds]
      /\ how \in [Notifiers -> {"one", "all"}] /\ n \in Actors
  BY Known, Roles DEF Types, CondvarTypes
<1>4. pc'[n] \in {"taking", "idle"}
  BY <1>3 DEF Pop, Delivered, NextList
<1>5. ~Contains(<<>>, Receiver)
  BY EmptySeq DEF Contains
<1>6. ASSUME NEW l, Fresh(l) PROVE Fresh(l)'
  <2>1. \A m \in Notifiers : Holds(m, l)' => Holds(m, l) /\ hand'[m] = hand[m]
    BY <1>1, <1>2, <1>4 DEF Holds, Contains
  <2>2. QED
    BY <1>1, <1>2, <1>6, <2>1, FreshKept DEF Waits
<1>7. Live'
  BY <1>1, <1>2, <1>4 DEF Informed, Live, Contains
<1>8. MessageTold'
  <2>1. SUFFICES ASSUME Forgotten(Receiver)', queue' # <<>>
                 PROVE \/ \E m \in Notifiers : OnItsWay(m, k)'
                       \/ kind'[Receiver] = "async" /\ Unparked'
                       \/ kind'[Receiver] = "block" /\ deadline'[Receiver] # "none"
    BY DEF MessageTold
  <2>2. Contains(waiting[k], Receiver) /\ InWait(Receiver) /\ ~woken[k][Receiver]
    BY <1>1, <1>2, <2>1 DEF Forgotten, Queued, Contains
  <2>3. ~InHand(Receiver)
    BY <1>1, <1>2, <1>5, <2>1 DEF Forgotten, InHand, Contains
  <2>4. Forgotten(Receiver)
    BY <2>2, <2>3 DEF Forgotten, Queued
  <2>5. k \in AllKinds
    BY <2>2, Known DEF Types, TryKnown, InWait
  <2>6. CASE \E m \in Notifiers : OnItsWay(m, k)
    <3>1. PICK m \in Notifiers : OnItsWay(m, k)
      BY <2>6
    <3>2. CASE m # n
      BY <1>1, <3>1, <3>2 DEF OnItsWay
    <3>3. CASE m = n
      <4>1. at[n] # k
        BY <1>1, <1>2, <1>5, <2>2, <3>1, <3>3 DEF OnItsWay
      <4>2. NextList(n)
        BY <3>1, <3>3 DEF Pop, Delivered, OnItsWay
      <4>3. at[n] # "async"
        BY <3>1, <3>3, <4>1 DEF OnItsWay
      <4>4. /\ pc'[n] = "taking"
            /\ at'[n] = IF at[n] = "spin" THEN "block" ELSE "async"
        BY <1>3, <4>2, <4>3 DEF NextList
      <4>5. OnItsWay(n, k)'
        BY <1>1, <2>5, <3>1, <3>3, <4>1, <4>4 DEF OnItsWay, AllKinds
      <4>6. QED
        BY <4>5
    <3>4. QED
      BY <3>2, <3>3
  <2>7. Unparked => Unparked'
    BY <1>1, <1>2, <1>5 DEF Unparked, Contains
  <2>8. QED
    BY <1>1, <2>1, <2>4, <2>6, <2>7 DEF Informed, MessageTold
<1>9. QED
  BY <1>1, <1>6, <1>7, <1>8 DEF Informed

\* A notifier takes h from its list and leaves r: the youngest entry, or all.
Taken(n, h, r) ==
  LET s == waiting[at[n]] IN
  /\ hand'[n] = h /\ waiting' = [waiting EXCEPT ![at[n]] = r]
  /\ \A x : Contains(h, x) => Contains(s, x)
  /\ \A x : Contains(r, x) => Contains(s, x)
  /\ OnlyLast(s) => OnlyLast(h) /\ ~Contains(r, Receiver)
  /\ \/ how[n] = "all" /\ ~Contains(r, Receiver)
     \/ ~Contains(s, Dropped) => Contains(h, Receiver)

\* The receiver's entry comes out of its list, or a list before it has none of it, or it is
\* the old one of its thread.
LEMMA TakeInformed ==
  ASSUME Types, Informed, NEW n \in Notifiers, NotifierStep(n), UNCHANGED <<shared, result>>,
         (Pop(n) /\ waiting[at[n]] # <<>>) \/ TakeAll(n)
  PROVE Informed'
<1> USE DEF Goto, call, notes
<1> DEFINE k == kind[Receiver]
           s == waiting[at[n]]
<1>1. /\ pc[n] \in {"taking", "waking"} /\ at[n] \in AllKinds
      /\ UNCHANGED <<kind, deadline, how, queue>> /\ pc'[Receiver] = pc[Receiver]
      /\ \A m \in Notifiers \ {n} : pc'[m] = pc[m] /\ at'[m] = at[m] /\ hand'[m] = hand[m]
      /\ Quiet' /\ Apart' /\ (InWait(Receiver)' <=> InWait(Receiver))
  BY NotifierFrame
<1>2. /\ pc \in [Actors -> Places \cup Gone \cup Holding] /\ at \in [Notifiers -> AllKinds]
      /\ waiting \in [AllKinds -> Seq(Entries)] /\ hand \in [Notifiers -> Seq(Entries)]
      /\ n \in Actors /\ s \in Seq(Entries)
  BY Known, Roles
<1>3. /\ pc[n] = "taking" /\ pc'[n] = "waking" /\ UNCHANGED <<at, woken>>
  BY <1>2 DEF Pop, TakeAll
<1>4. PICK h, r : Taken(n, h, r)
  <2>1. CASE Pop(n) /\ s # <<>>
    <3>1. hand'[n] = <<Last(s)>> /\ waiting' = [waiting EXCEPT ![at[n]] = Front(s)]
      BY <1>2, <2>1 DEF Pop
    <3>2. /\ \A x : Contains(<<Last(s)>>, x) => Contains(s, x)
          /\ \A x : Contains(Front(s), x) => Contains(s, x)
          /\ OnlyLast(s) => OnlyLast(<<Last(s)>>) /\ ~Contains(Front(s), Receiver)
          /\ ~Contains(s, Dropped) => Contains(<<Last(s)>>, Receiver)
      BY <1>2, <2>1, Popped
    <3>3. Taken(n, <<Last(s)>>, Front(s))
      BY <3>1, <3>2 DEF Taken
    <3>4. QED
      BY <3>3
  <2>2. CASE TakeAll(n)
    <3>1. hand'[n] = s /\ waiting' = [waiting EXCEPT ![at[n]] = <<>>] /\ how[n] = "all"
      BY <1>2, <2>2 DEF TakeAll
    <3>2. \A x : ~Contains(<<>>, x)
      BY EmptySeq DEF Contains
    <3>3. Taken(n, s, <<>>)
      BY <3>1, <3>2 DEF Taken
    <3>4. QED
      BY <3>3
  <2>3. QED
    BY <2>1, <2>2
<1>5. /\ waiting'[at[n]] = r
      /\ \A l \in AllKinds \ {at[n]} : waiting'[l] = waiting[l]
  BY <1>1, <1>2, <1>4 DEF Taken
<1>6. ASSUME NEW l \in {"spin", "async"} PROVE Fresh(l)'
  <2>1. Fresh(l) /\ (Waits(l)' <=> Waits(l))
    BY <1>1, <1>6 DEF Informed, Waits
  <2>2. \A m \in Notifiers \ {n} :
          (Holds(m, l)' <=> Holds(m, l)) /\ (OnlyLast(hand[m])' <=> OnlyLast(hand[m]))
    BY <1>1 DEF Holds, Contains, OnlyLast
  <2>3. CASE l # at[n]
    <3>1. \A m \in Notifiers : Holds(m, l)' => Holds(m, l) /\ hand'[m] = hand[m]
      BY <1>1, <1>3, <2>2, <2>3 DEF Holds
    <3>2. waiting'[l] = waiting[l] /\ woken'[l][Receiver] = woken[l][Receiver]
      BY <1>3, <1>5, <1>6, <2>3 DEF AllKinds
    <3>3. QED
      BY <2>1, <3>1, <3>2, FreshKept
  <2>4. CASE l = at[n]
    <3>1. OnlyLast(s)
      BY <2>1, <2>4 DEF Fresh
    <3>2. /\ ~Contains(waiting[l], Receiver)' /\ OnlyLast(waiting[l])'
          /\ (OnlyLast(hand[n])' <=> OnlyLast(h)) /\ OnlyLast(h)
      BY <1>4, <1>5, <2>4, <3>1 DEF Contains, OnlyLast, Taken
    <3>3. Holds(n, l)' <=> Contains(h, Receiver)
      BY <1>3, <1>4, <2>4 DEF Holds, Contains, Taken
    <3>4. Contains(h, Receiver) =>
            ~woken[l][Receiver] /\ ~Clear(l) /\ \A m \in Notifiers : ~Holds(m, l)
      BY <1>4, <2>1, <2>4 DEF Fresh, Clear, Taken
    <3>5. CASE Contains(h, Receiver)
      BY <1>3, <2>1, <2>2, <3>2, <3>3, <3>4, <3>5 DEF Fresh
    <3>6. CASE ~Contains(h, Receiver)
      <4>1. \A m \in Notifiers : Holds(m, l)' => Holds(m, l) /\ m # n
        BY <2>2, <3>3, <3>6
      <4>2. CASE Clear(l)
        <5>1. Clear(l)'
          BY <1>3, <3>2, <4>1, <4>2 DEF Clear
        <5>2. QED
          BY <5>1, ClearIsFresh
      <4>3. CASE ~Clear(l)
        BY <1>3, <2>1, <2>2, <3>2, <4>1, <4>3 DEF Fresh
      <4>4. QED
        BY <4>2, <4>3
    <3>7. QED
      BY <3>5, <3>6
  <2>5. QED
    BY <2>3, <2>4
<1>7. Live'
  <2>1. ASSUME NEW l \in {"spin", "block"} PROVE ~Contains(waiting[l], Dropped)'
    <3>1. ~Contains(waiting[l], Dropped) /\ l \in AllKinds
      BY <2>1 DEF Informed, Live, AllKinds
    <3>2. ~Contains(waiting'[l], Dropped)
      BY <1>4, <1>5, <3>1 DEF Taken
    <3>3. QED
      BY <3>2 DEF Contains
  <2>2. ASSUME NEW l \in {"spin", "block"}, NEW m \in Notifiers, pc'[m] = "waking", at'[m] = l
        PROVE ~Contains(hand[m], Dropped)'
    <3>1. CASE m # n
      BY <1>1, <2>2, <3>1 DEF Informed, Live, Contains
    <3>2. CASE m = n
      <4>1. ~Contains(s, Dropped)
        BY <1>3, <2>2, <3>2 DEF Informed, Live
      <4>2. ~Contains(h, Dropped)
        BY <1>4, <4>1 DEF Taken
      <4>3. QED
        BY <1>4, <3>2, <4>2 DEF Contains, Taken
    <3>3. QED
      BY <3>1, <3>2
  <2>3. QED
    BY <2>1, <2>2 DEF Live
<1>8. MessageTold'
  <2>1. SUFFICES ASSUME Forgotten(Receiver)', queue' # <<>>
                 PROVE \/ \E m \in Notifiers : OnItsWay(m, k)'
                       \/ kind'[Receiver] = "async" /\ Unparked'
                       \/ kind'[Receiver] = "block" /\ deadline'[Receiver] # "none"
    BY DEF MessageTold
  <2>2. InWait(Receiver) /\ ~woken[k][Receiver] /\ Contains(waiting'[k], Receiver)
    BY <1>1, <1>3, <2>1 DEF Forgotten, Queued, Contains
  <2>3. k \in AllKinds
    BY <2>2, Known DEF Types, TryKnown, InWait
  <2>4. Contains(waiting[k], Receiver)
    BY <1>4, <1>5, <2>2, <2>3 DEF Taken
  <2>5. ~InHand(Receiver)
    BY <1>1, <1>3, <2>1 DEF Forgotten, InHand, Contains
  <2>6. Forgotten(Receiver)
    BY <2>2, <2>4, <2>5 DEF Forgotten, Queued
  <2>7. Unparked => Unparked'
    BY <1>1, <1>3 DEF Unparked, Contains
  <2>8. CASE \E m \in Notifiers : OnItsWay(m, k)
    <3>1. PICK m \in Notifiers : OnItsWay(m, k)
      BY <2>8
    <3>2. CASE m # n
      BY <1>1, <3>1, <3>2 DEF OnItsWay
    <3>3. CASE m = n /\ how[n] = "all" /\ ~Contains(r, Receiver)
      <4>1. at[n] # k
        BY <1>5, <2>2, <3>3
      <4>2. OnItsWay(n, k)'
        BY <1>1, <1>3, <3>1, <3>3, <4>1 DEF OnItsWay
      <4>3. QED
        BY <4>2
    <3>4. CASE m = n /\ (~Contains(s, Dropped) => Contains(h, Receiver))
      <4>1. at[n] \in {"spin", k} \/ k = "async"
        BY <3>1, <3>4 DEF OnItsWay
      <4>2. CASE at[n] = "spin"
        <5>1. Contains(h, Receiver)
          BY <3>4, <4>2 DEF Informed, Live
        <5>2. Contains(waiting["spin"], Receiver)
          BY <1>4, <4>2, <5>1 DEF Taken
        <5>3. k = "spin" /\ OnlyLast(s)
          BY <4>2, <5>2 DEF Informed, Fresh, Clear, Waits
        <5>4. QED
          BY <1>4, <1>5, <2>2, <4>2, <5>3 DEF Taken
      <4>3. CASE at[n] = "block"
        <5>1. Contains(h, Receiver)
          BY <3>4, <4>3 DEF Informed, Live
        <5>2. Contains(hand[n], Receiver)'
          BY <1>4, <5>1 DEF Contains, Taken
        <5>3. k # "block"
          BY <1>1, <1>3, <2>1, <4>3, <5>2 DEF Forgotten, InHand
        <5>4. k = "async"
          BY <4>1, <4>3, <5>3
        <5>5. Unparked'
          BY <1>3, <4>3, <5>2 DEF Unparked
        <5>6. QED
          BY <1>1, <5>4, <5>5
      <4>4. CASE at[n] = "async"
        <5>1. k = "async" /\ OnlyLast(s)
          BY <4>1, <4>4 DEF Informed, Fresh
        <5>2. QED
          BY <1>4, <1>5, <2>2, <4>4, <5>1 DEF Taken
      <4>5. QED
        BY <1>1, <4>2, <4>3, <4>4 DEF AllKinds
    <3>5. QED
      BY <1>4, <3>2, <3>3, <3>4 DEF Taken
  <2>9. QED
    BY <1>1, <2>1, <2>6, <2>7, <2>8 DEF Informed, MessageTold
<1>9. QED
  BY <1>1, <1>6, <1>7, <1>8 DEF Informed

\* A wakeup given is as good as the entry it is given for.
LEMMA DeliverInformed ==
  ASSUME Types, Informed, NEW n \in Notifiers, Deliver(n), UNCHANGED <<shared, result>>
  PROVE Informed'
<1> USE DEF Goto, call, notes
<1> DEFINE k == kind[Receiver]
           b == at[n]
           e == Head(hand[n])
           r == Tail(hand[n])
<1>1. /\ pc[n] \in {"taking", "waking"} /\ at[n] \in AllKinds
      /\ UNCHANGED <<kind, deadline, how, queue>> /\ pc'[Receiver] = pc[Receiver]
      /\ \A m \in Notifiers \ {n} : pc'[m] = pc[m] /\ at'[m] = at[m] /\ hand'[m] = hand[m]
      /\ Quiet' /\ Apart' /\ (InWait(Receiver)' <=> InWait(Receiver))
  BY NotifierFrame DEF NotifierStep
<1>2. /\ hand[n] \in Seq(Entries) /\ hand \in [Notifiers -> Seq(Entries)]
      /\ woken \in [AllKinds -> [Waiters -> BOOLEAN]] /\ Receiver \in Waiters
  BY Known
<1>3. /\ hand[n] # <<>> /\ pc[n] = "waking" /\ UNCHANGED <<pc, at, waiting>>
      /\ hand'[n] = r
      /\ woken' = IF e = Dropped THEN woken ELSE [woken EXCEPT ![b][e] = TRUE]
  BY <1>2 DEF Deliver
<1>4. /\ \A x : Contains(r, x) => Contains(hand[n], x)
      /\ \A x : Contains(hand[n], x) => x = e \/ Contains(r, x)
      /\ OnlyLast(hand[n]) => OnlyLast(r) /\ (e = Receiver => ~Contains(r, Receiver))
      /\ Contains(hand[n], e) /\ (e = Receiver \/ e = Dropped)
  BY <1>2, <1>3, Handed, TwoEntries
<1>5. \A m \in Notifiers : \A x : Contains(hand'[m], x) => Contains(hand[m], x)
  <2> HIDE DEF e, r
  <2>1. QED
    BY <1>1, <1>3, <1>4
<1>6. \A m \in Notifiers : \A x : Contains(hand[m], x)' => Contains(hand[m], x)
  <2>1. \A m \in Notifiers : \A x : Contains(hand[m], x)' <=> Contains(hand'[m], x)
    BY DEF Contains
  <2>2. QED
    BY <1>5, <2>1
<1>7. Live'
  <2>1. /\ \A l : Contains(waiting[l], Dropped)' <=> Contains(waiting[l], Dropped)
        /\ UNCHANGED <<pc, at>>
    BY <1>3 DEF Contains
  <2>2. QED
    BY <1>6, <2>1 DEF Informed, Live
<1> HIDE DEF e, r
<1>8. CASE e = Receiver
  <2>1. /\ woken'[b][Receiver]
        /\ \A l \in AllKinds \ {b} : woken'[l] = woken[l]
        /\ \A l \in AllKinds : woken[l][Receiver] => woken'[l][Receiver]
    BY <1>1, <1>2, <1>3, <1>8, TwoEntries
  <2>2. ASSUME NEW l \in {"spin", "async"} PROVE Fresh(l)'
    <3>1. Fresh(l) /\ (Waits(l)' <=> Waits(l)) /\ l \in AllKinds
      BY <1>1, <2>2 DEF Informed, Waits, AllKinds
    <3>2. CASE l # b
      <4>1. \A m \in Notifiers : Holds(m, l)' => Holds(m, l) /\ hand'[m] = hand[m]
        BY <1>1, <1>3, <3>2 DEF Holds, Contains
      <4>2. QED
        BY <1>3, <2>1, <3>1, <3>2, <4>1, FreshKept
    <3>3. CASE l = b
      <4>1. Holds(n, l)
        BY <1>3, <1>4, <1>8, <3>3 DEF Holds
      <4>2. /\ Waits(l) /\ OnlyLast(hand[n]) /\ ~Contains(waiting[l], Receiver)
            /\ \A m \in Notifiers : Holds(m, l) => m = n
        BY <3>1, <4>1 DEF Fresh, Clear
      <4>3. \A m \in Notifiers : ~Holds(m, l)'
        BY <1>1, <1>3, <1>4, <1>8, <4>2 DEF Holds, Contains
      <4>4. Waits(l)' /\ ~Contains(waiting[l], Receiver)' /\ OnlyLast(waiting[l])'
        BY <1>3, <3>1, <4>2 DEF Contains, OnlyLast
      <4>5. QED
        BY <4>3, <4>4 DEF Fresh
    <3>4. QED
      BY <3>2, <3>3
  <2>3. ASSUME Forgotten(Receiver)' PROVE Forgotten(Receiver)
    <3>1. k \in AllKinds /\ InWait(Receiver)
      BY <1>1, <2>3, Known DEF Types, TryKnown, InWait, Forgotten
    <3>2. ~woken'[k][Receiver] /\ ~woken[k][Receiver] /\ b # k
      BY <1>1, <2>1, <2>3, <3>1 DEF Forgotten
    <3>3. Queued(Receiver)
      BY <1>1, <1>3, <2>3 DEF Forgotten, Queued, Contains
    <3>4. ~InHand(Receiver)
      BY <1>1, <1>3, <2>3, <3>2 DEF Forgotten, InHand, Contains
    <3>5. QED
      BY <3>1, <3>2, <3>3, <3>4 DEF Forgotten
  <2>4. Unparked => Unparked'
    <3>1. CASE b = "block"
      BY <2>1, <3>1 DEF Unparked
    <3>2. CASE b # "block"
      BY <1>1, <1>3, <2>1, <3>2 DEF Unparked, Contains, AllKinds
    <3>3. QED
      BY <3>1, <3>2
  <2>5. \A m \in Notifiers : OnItsWay(m, k) => OnItsWay(m, k)'
    BY <1>1, <1>3 DEF OnItsWay
  <2>6. MessageTold'
    BY <1>1, <2>3, <2>4, <2>5 DEF Informed, MessageTold
  <2>7. QED
    BY <1>1, <1>7, <2>2, <2>6 DEF Informed
<1>9. CASE e = Dropped
  <2>1. woken' = woken /\ e # Receiver
    BY <1>3, <1>9, TwoEntries
  <2>2. \A m \in Notifiers : Contains(hand[m], Receiver)' <=> Contains(hand[m], Receiver)
    <3>1. \A m \in Notifiers : Contains(hand'[m], Receiver) <=> Contains(hand[m], Receiver)
      BY <1>1, <1>3, <1>4, <2>1
    <3>2. QED
      BY <3>1 DEF Contains
  <2>3. ASSUME NEW l \in {"spin", "async"} PROVE Fresh(l)'
    <3>1. Fresh(l) /\ (Waits(l)' <=> Waits(l))
      BY <1>1, <2>3 DEF Informed, Waits
    <3>2. \A m \in Notifiers : Holds(m, l)' <=> Holds(m, l)
      BY <1>1, <1>3, <2>2 DEF Holds
    <3>3. /\ Contains(waiting[l], Receiver)' <=> Contains(waiting[l], Receiver)
          /\ OnlyLast(waiting[l])' <=> OnlyLast(waiting[l])
      BY <1>3 DEF Contains, OnlyLast
    <3>4. \A m \in Notifiers : OnlyLast(hand[m]) => OnlyLast(hand[m])'
      BY <1>1, <1>3, <1>4 DEF OnlyLast
    <3>5. Clear(l) => Clear(l)'
      BY <2>1, <3>2, <3>3 DEF Clear
    <3>6. QED
      BY <2>1, <3>1, <3>2, <3>3, <3>4, <3>5 DEF Fresh
  <2>4. Forgotten(Receiver)' => Forgotten(Receiver)
    BY <1>1, <1>3, <2>1, <2>2 DEF Forgotten, Queued, InHand, Contains
  <2>5. Unparked => Unparked'
    BY <1>3, <2>1, <2>2 DEF Unparked
  <2>6. \A m \in Notifiers : OnItsWay(m, k) => OnItsWay(m, k)'
    BY <1>1, <1>3 DEF OnItsWay
  <2>7. MessageTold'
    BY <1>1, <2>4, <2>5, <2>6 DEF Informed, MessageTold
  <2>8. QED
    BY <1>1, <1>7, <2>3, <2>7 DEF Informed
<1>10. QED
  BY <1>4, <1>8, <1>9

\* A channel begins with nobody waiting.
LEMMA InformedInit == Init => Informed
<1> SUFFICES ASSUME Init PROVE Informed
  OBVIOUS
<1>1. /\ \A k \in AllKinds : waiting[k] = <<>> /\ ~woken[k][Receiver]
      /\ \A n \in Notifiers : hand[n] = <<>> /\ n \in Actors
      /\ \A a \in Actors : pc[a] \in {"unborn", "idle"}
      /\ pc[LastDrop] = "idle" /\ pc[ReceiverDrop] = "idle" /\ pc[Receiver] = "idle"
  BY Roles, RolesAssumption DEF Init, CondvarInit
<1>2. \A x : ~Contains(<<>>, x)
  BY EmptySeq DEF Contains
<1>3. OnlyLast(<<>>)
  BY EmptySeq DEF OnlyLast
<1>4. Quiet
  BY <1>1 DEF Quiet
<1>5. Apart /\ MessageTold
  BY <1>1 DEF Apart, MessageTold, Forgotten, InWait
<1>6. Live
  BY <1>1, <1>2 DEF Live, AllKinds
<1>7. Fresh("spin") /\ Fresh("async")
  BY <1>1, <1>2, <1>3 DEF Fresh, Clear, Holds, AllKinds
<1>8. QED
  BY <1>4, <1>5, <1>6, <1>7 DEF Informed

\* Every step of a sender, the receiver and the notifiers keeps the receiver informed.
LEMMA InformedStep == Types /\ Informed /\ [Next]_vars => Informed'
<1> SUFFICES ASSUME Types, Informed, [Next]_vars PROVE Informed'
  OBVIOUS
<1>1. CASE UNCHANGED vars
  BY <1>1
  DEF vars, condvar, shared, call, notes, Informed, Quiet, Apart, Live, Fresh, Clear, Holds, Waits,
      InWait, OnlyLast, Contains, MessageTold, Forgotten, Queued, InHand, OnItsWay, Unparked
<1>2. CASE SenderMove
  BY <1>2, SenderInformed
<1>3. CASE ReceiverMove
  BY <1>3, OutsideInformed, StartInformed
<1>4. CASE CondvarNext /\ UNCHANGED <<shared, result>>
  <2>1. ASSUME NEW n \in Notifiers, NotifierStep(n) PROVE Informed'
    BY <1>4, <2>1, MoveInformed, TakeInformed, DeliverInformed DEF NotifierStep
  <2>2. CASE Lock(Receiver) \/ LockParks(Receiver)
    BY <1>4, <2>2, OutsideInformed
  <2>3. CASE DeadlinePasses(Receiver) \/ StrayUnpark(Receiver)
    BY <1>4, <2>3, OthersInformed
  <2>4. CASE WaiterStep(Receiver) \/ CancelAsync(Receiver)
    BY <1>4, <2>4, WaiterInformed, TaskGoneInformed
  <2>5. QED
    BY <1>4, <2>1, <2>2, <2>3, <2>4, Roles DEF CondvarNext
<1>5. QED
  BY <1>1, <1>2, <1>3, <1>4 DEF Next, SenderMove, ReceiverMove

\* Beside a message the receiver does not wait without a notification on its way to it, but
\* for the two receives an entry of an earlier one misleads; for any senders, any waits with
\* and without deadlines, dropped tasks, strange unparks and any number of old entries.
THEOREM EveryMessageTold == Spec => []MessageTold
<1>1. Types /\ Informed => MessageTold
  BY DEF Informed
<1>2. Init => Types /\ Informed
  BY TypesInit, InformedInit
<1>3. Types /\ Informed /\ [Next]_vars => Types' /\ Informed'
  BY TypesStep, InformedStep
<1>4. QED
  BY <1>1, <1>2, <1>3, PTL DEF Spec
=============================================================================
