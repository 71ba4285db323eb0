----------------------------- MODULE SpawnHooks -----------------------------
(* The registry of spawn hooks: an ordered list behind a mutex, changed by   *)
(* anybody, the hooks themselves included, and copied by each new thread,    *)
(* which then calls the copies without the mutex.  Threads extends it.       *)
EXTENDS SequencesExt

CONSTANTS Threads,     \* threads that may be spawned
          Clients,     \* the other threads that change the registry
          Names, Fns,  \* names of hooks, and the functions behind them
          Nobody,      \* who has the mutex when it is free
          MaxChanges   \* the bound of the changes of the registry

ASSUME MaxChangesAssumption == MaxChanges \in Nat

Actors == Threads \cup Clients

ASSUME NobodyAssumption == Nobody \notin Actors

\* What an actor can want of the registry.
Changes == [call : {"register"}, name : Names, fn : Fns]
           \cup [call : {"remove"}, name : Names] \cup [call : {"clear"}]
Nothing == [call |-> "none"]
Copy == [call |-> "copy"]

VARIABLES hooks,    \* SPAWN_HOOKS, [name, fn] each
          holder,   \* who has its mutex
          request,  \* what each actor is calling, from before its lock_sync on
          copy,     \* [thread -> the hooks of run_spawn_hooks]
          ran,      \* [thread -> how many of them it has called]
          changes   \* how many changes were asked for

registry == <<hooks, holder, request, copy, ran, changes>>

HooksInit == /\ hooks = <<>>
             /\ holder = Nobody
             /\ request = [a \in Actors |-> Nothing]
             /\ copy = [t \in Threads |-> <<>>]
             /\ ran = [t \in Threads |-> 0]
             /\ changes = 0

\* register_spawn_hook, remove_spawn_hook or clear_spawn_hooks is called.
AskChange(a) == /\ request[a] = Nothing /\ changes < MaxChanges
                /\ \E c \in Changes : request' = [request EXCEPT ![a] = c]
                /\ changes' = changes + 1
                /\ UNCHANGED <<hooks, holder, copy, ran>>

\* lock_sync, which takes the mutex once it is free.
LockHooks(a) == /\ request[a] # Nothing /\ holder = Nobody
                /\ holder' = a
                /\ UNCHANGED <<hooks, request, copy, ran, changes>>

\* The place of a name in the list; 0 if there is none.
Position(name) == SelectInSeq(hooks, LAMBDA h : h.name = name)

Unlock(a) == holder' = Nobody /\ request' = [request EXCEPT ![a] = Nothing]

RegisterHook(a) == LET c == request[a]
                   h == [name |-> c.name, fn |-> c.fn] IN
  /\ holder = a /\ c.call = "register"
  /\ hooks' = IF Position(c.name) = 0 THEN Append(hooks, h)
              ELSE ReplaceAt(hooks, Position(c.name), h)
  /\ Unlock(a)
  /\ UNCHANGED <<copy, ran, changes>>

RemoveHook(a) == LET c == request[a] IN
  /\ holder = a /\ c.call = "remove"
  /\ hooks' = IF Position(c.name) = 0 THEN hooks ELSE RemoveAt(hooks, Position(c.name))
  /\ Unlock(a)
  /\ UNCHANGED <<copy, ran, changes>>

ClearHooks(a) == /\ holder = a /\ request[a].call = "clear"
            /\ hooks' = <<>>
            /\ Unlock(a)
            /\ UNCHANGED <<copy, ran, changes>>

\* Mutant: run_spawn_hooks keeps the guard for the calls, which cannot use it.
CopyHolding(t) == /\ holder = t /\ request[t] = Copy
                  /\ copy' = [copy EXCEPT ![t] = hooks]
                  /\ holder' = <<t>>
                  /\ request' = [request EXCEPT ![t] = Nothing]
                  /\ UNCHANGED <<hooks, ran, changes>>

\* run_spawn_hooks copies the list and lets go of it.
CopyHooks(t) == /\ holder = t /\ request[t] = Copy
                /\ copy' = [copy EXCEPT ![t] = hooks]
                /\ Unlock(t)
                /\ UNCHANGED <<hooks, ran, changes>>

\* An actor that has called the registry goes on.
RegistryStep(a) == LockHooks(a) \/ RegisterHook(a) \/ RemoveHook(a) \/ ClearHooks(a)

\* Mutant: the list is read as it is at each call.
NextHookLive(t) == /\ request[t] = Nothing
                   /\ ran[t] < Len(hooks)
                   /\ ran' = [ran EXCEPT ![t] = @ + 1]
                   /\ copy' = [copy EXCEPT ![t] = hooks]
                   /\ UNCHANGED <<hooks, holder, request, changes>>

\* Mutant: off by one at the end of the copy.
NextHookPastEnd(t) == /\ request[t] = Nothing
                      /\ ran[t] <= Len(copy[t])
                      /\ ran' = [ran EXCEPT ![t] = @ + 1]
                      /\ UNCHANGED <<hooks, holder, request, copy, changes>>

\* The next hook of the copy is called.
NextHook(t) == /\ request[t] = Nothing
               /\ ran[t] < Len(copy[t])
               /\ ran' = [ran EXCEPT ![t] = @ + 1]
               /\ UNCHANGED <<hooks, holder, request, copy, changes>>

=============================================================================
