--------------------------- MODULE AbstractHooks ----------------------------
(* What spawn hooks promise: an ordered map from names to hooks, and each    *)
(* new thread runs the hooks of one moment, in order, before anything else.  *)
EXTENDS Sequences, Naturals

CONSTANTS Threads, Names, Fns

VARIABLES list,   \* the hooks in registration order
          plan,   \* [thread -> the hooks it is to run]
          ran,    \* [thread -> how many of them it has begun]
          stage   \* [thread -> "unborn", "starting", "hooks" or "past"]

vars == <<list, plan, ran, stage>>

Init == /\ list = <<>>
        /\ plan = [t \in Threads |-> <<>>]
        /\ ran = [t \in Threads |-> 0]
        /\ stage = [t \in Threads |-> "unborn"]

\* A name keeps its place when its hook is replaced.
Register(n, f) ==
  /\ list' = IF \E i \in DOMAIN list : list[i].name = n
             THEN [i \in DOMAIN list |->
                    IF list[i].name = n THEN [name |-> n, fn |-> f] ELSE list[i]]
             ELSE Append(list, [name |-> n, fn |-> f])
  /\ UNCHANGED <<plan, ran, stage>>

\* The others keep their order; if there is no hook of that name, all stay.
Remove(n) ==
  /\ IF \E i \in DOMAIN list : list[i].name = n
     THEN \E i \in DOMAIN list :
            /\ list[i].name = n
            /\ list' = SubSeq(list, 1, i - 1) \o SubSeq(list, i + 1, Len(list))
     ELSE list' = list
  /\ UNCHANGED <<plan, ran, stage>>

Clear == list' = <<>> /\ UNCHANGED <<plan, ran, stage>>

Start(t) == /\ stage[t] = "unborn"
            /\ stage' = [stage EXCEPT ![t] = "starting"]
            /\ UNCHANGED <<list, plan, ran>>

\* The list of this moment is the one that counts.
Decide(t) == /\ stage[t] = "starting"
             /\ plan' = [plan EXCEPT ![t] = list]
             /\ stage' = [stage EXCEPT ![t] = "hooks"]
             /\ UNCHANGED <<list, ran>>

Run(t) == /\ stage[t] = "hooks" /\ ran[t] < Len(plan[t])
          /\ ran' = [ran EXCEPT ![t] = @ + 1]
          /\ UNCHANGED <<list, plan, stage>>

\* The closure begins after the last hook ...
Begin(t) == /\ stage[t] = "hooks" /\ ran[t] = Len(plan[t])
            /\ stage' = [stage EXCEPT ![t] = "past"]
            /\ UNCHANGED <<list, plan, ran>>

\* ... or never, when a hook panics.
Panic(t) == /\ stage[t] = "hooks" /\ ran[t] > 0
            /\ stage' = [stage EXCEPT ![t] = "past"]
            /\ UNCHANGED <<list, plan, ran>>

Next == \/ \E n \in Names, f \in Fns : Register(n, f)
        \/ \E n \in Names : Remove(n)
        \/ Clear
        \/ \E t \in Threads : Start(t) \/ Decide(t) \/ Run(t) \/ Begin(t) \/ Panic(t)

Spec == Init /\ [][Next]_vars
=============================================================================
