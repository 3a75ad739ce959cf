------------------------- MODULE SingletonLifecycle --------------------------
(***************************************************************************)
(* How the singleton package makes its one instance: get_instance() on any *)
(* thread, by double-checked locking in __new__ and again in __init__, and *)
(* reset_instance() of the tests.                                          *)
(*                                                                         *)
(*   idle --> new --> (newLock) --> newReturn --> init --> (initLock) -->  *)
(*   done, or raised                                                       *)
(*                                                                         *)
(* A critical section in which lock-free readers can see a single write is *)
(* one step.  reset_instance() is for "test isolation: call this in        *)
(* setUp/tearDown": it runs while nobody is inside get_instance(), so its  *)
(* three writes are one step, too.                                         *)
(***************************************************************************)
EXTENDS Integers

CONSTANTS
  Threads,      (* threads that call get_instance()                        *)
  MaxResets     (* bound: calls of reset_instance()                        *)

LifecycleAssumption == MaxResets \in Nat

VARIABLES
  instance,     (* cls._instance: the number of an object, or 0 for None   *)
  initialized,  (* cls._initialized                                        *)
  made,         (* objects that __new__ has created                        *)
  connected,    (* objects with a live client in _producer                 *)
  at,           (* where each thread is                                    *)
  mine,         (* the object it has in hand, 0 for None                   *)
  resets        (* resets so far                                           *)

class == <<instance, initialized, made, connected>>
vars  == <<class, at, mine, resets>>

Place   == {"idle", "new", "newLock", "newReturn", "init", "initLock", "done", "raised"}
Objects == 0 .. MaxResets + 1

Init ==
  /\ instance = 0 /\ initialized = FALSE /\ made = 0 /\ connected = {}
  /\ at = [t \in Threads |-> "idle"]
  /\ mine = [t \in Threads |-> 0]
  /\ resets = 0

Goto(t, place) == at' = [at EXCEPT ![t] = place]

-----------------------------------------------------------------------------
(* get_instance(), which is cls(...): __new__ and then __init__            *)

Call(t) ==
  /\ at[t] \in {"idle", "done", "raised"}
  /\ Goto(t, "new")
  /\ UNCHANGED <<class, mine, resets>>

NewOuterCheck(t) ==
  /\ at[t] = "new"
  /\ Goto(t, IF instance = 0 THEN "newLock" ELSE "newReturn")
  /\ UNCHANGED <<class, mine, resets>>

\* Mutant: the check inside the lock is dropped.
NewAlways(t) ==
  /\ at[t] = "newLock"
  /\ instance' = made + 1 /\ made' = made + 1
  /\ Goto(t, "newReturn")
  /\ UNCHANGED <<initialized, connected, mine, resets>>

NewLocked(t) ==
  /\ at[t] = "newLock"
  /\ IF instance = 0 THEN instance' = made + 1 /\ made' = made + 1
                     ELSE UNCHANGED <<instance, made>>
  /\ Goto(t, "newReturn")
  /\ UNCHANGED <<initialized, connected, mine, resets>>

(* `return cls._instance` reads the class again.                           *)
NewReturn(t) ==
  /\ at[t] = "newReturn"
  /\ mine' = [mine EXCEPT ![t] = instance]
  /\ Goto(t, "init")
  /\ UNCHANGED <<class, resets>>

InitOuterCheck(t) ==
  /\ at[t] = "init"
  /\ Goto(t, IF initialized THEN "done" ELSE "initLock")
  /\ UNCHANGED <<class, mine, resets>>

\* Mutant: the flag is raised before the factory has built the client.
InitFlagFirst(t) ==
  /\ at[t] = "initLock"
  /\ initialized' = TRUE
  /\ IF initialized THEN Goto(t, "done") /\ UNCHANGED connected
     ELSE \/ Goto(t, "done") /\ connected' = connected \cup {mine[t]}
          \/ Goto(t, "raised") /\ UNCHANGED connected
  /\ UNCHANGED <<instance, made, mine, resets>>

(* The configuration or the factory may raise: then the flag stays down,   *)
(* and the next caller initializes the object that is already there.       *)
InitLocked(t) ==
  /\ at[t] = "initLock"
  /\ \/ /\ initialized
        /\ Goto(t, "done") /\ UNCHANGED <<connected, initialized>>
     \/ /\ ~initialized
        /\ connected' = connected \cup {mine[t]} /\ initialized' = TRUE
        /\ Goto(t, "done")
     \/ /\ ~initialized
        /\ Goto(t, "raised") /\ UNCHANGED <<connected, initialized>>
  /\ UNCHANGED <<instance, made, mine, resets>>

-----------------------------------------------------------------------------
(* reset_instance(): shut down, forget, lower the flag                     *)

(* What the callers of get_instance() had in hand, they have dropped.      *)
Quiet == \A t \in Threads : at[t] \in {"idle", "done", "raised"}

\* Mutant: the class forgets its instance without shutting it down.
ResetWithoutShutdown ==
  /\ Quiet /\ resets < MaxResets
  /\ instance' = 0 /\ initialized' = FALSE
  /\ at' = [t \in Threads |-> "idle"] /\ mine' = [t \in Threads |-> 0]
  /\ resets' = resets + 1
  /\ UNCHANGED <<made, connected>>

(* An instance that never got its client has no _producer to flush.        *)
Reset ==
  /\ Quiet /\ resets < MaxResets
  /\ connected' = connected \ {instance}
  /\ instance' = 0 /\ initialized' = FALSE
  /\ at' = [t \in Threads |-> "idle"] /\ mine' = [t \in Threads |-> 0]
  /\ resets' = resets + 1
  /\ UNCHANGED made

-----------------------------------------------------------------------------

Step(t) ==
  \/ NewOuterCheck(t) \/ NewLocked(t) \/ NewReturn(t)
  \/ InitOuterCheck(t) \/ InitLocked(t)

Next == (\E t \in Threads : Call(t) \/ Step(t)) \/ Reset

Spec == Init /\ [][Next]_vars

-----------------------------------------------------------------------------
(* Properties                                                              *)

TypeOK ==
  /\ instance \in Objects /\ made \in Objects /\ initialized \in BOOLEAN
  /\ connected \subseteq Objects \ {0}
  /\ at \in [Threads -> Place] /\ mine \in [Threads -> Objects]
  /\ resets \in 0..MaxResets

Served == {t \in Threads : at[t] = "done"}

(* "Any thread, any call site - always returns the same instance": the     *)
(* threads that have been served hold one object, and it is the class's.   *)
OneInstance == \A t \in Served : mine[t] = instance /\ instance # 0

(* "guarantee the full __init__ completes before any other thread sees the *)
(* instance as ready": whoever has been served holds an object whose       *)
(* client has been built, also after a factory that raised, and after a    *)
(* reset that "creates a brand-new producer".                              *)
ServedMeansReady == \A t \in Served : mine[t] \in connected

(* One client, hence one set of broker connections, is alive at a time:    *)
(* that of the current instance.                                           *)
OneConnection == connected \subseteq {instance}

=============================================================================
