------------------------------- MODULE Runtime -------------------------------
(***************************************************************************)
(* CRuntime (private/module/runtime.cpp): registers and schedules the      *)
(* modules of a run context, initializes them in the order that the graph  *)
(* resolves, ticks them frame by frame and terminates them in reverse.     *)
(* All of it runs on the main thread.  A module's Initialize may fail, and *)
(* its Update may call Quit.  The application calls Terminate once after   *)
(* every Initialize, failed or not, and may then Initialize again, with    *)
(* the same run context or another.                                        *)
(***************************************************************************)
EXTENDS ModuleGraph, SequenceFilters

CONSTANTS FramePhases,  \* EFramePhase, as 1 .. FramePhaseCount
          MaxBoots      \* bound: calls of Initialize

ASSUME RuntimeAssumption ==
  /\ FramePhases \subseteq Nat
  /\ MaxBoots \in Nat
  /\ \A s \in Setups : \A c \in s.contexts : /\ c.schedule \in Seq(FramePhases \X Modules)
                                             /\ c.noTick \in Seq(Modules)

VARIABLES activeModules,  \* m_activeModules
          schedule,       \* m_schedule
          noTick,         \* m_noTick
          isInitialized,  \* m_initialized
          canRun,         \* m_running
          pc,             \* where the main thread is in Initialize or Terminate
          context,        \* the argument of the last Initialize
          boots,          \* history: calls of Initialize
          told,           \* history: initializations told to a module, not taken back
          left,           \* history: schedule and told when the last Terminate returned
          hasFailed       \* history: a module's Initialize has failed

pastVars == <<boots, left, hasFailed>>
vars == <<graphVars, activeModules, schedule, noTick, isInitialized, canRun, pc, context, told,
          pastVars>>

Init ==
  /\ setup \in Setups
  /\ modules = <<>> /\ order = <<>> /\ pending = <<>>
  /\ activeModules = <<>>
  /\ schedule = [p \in FramePhases |-> <<>>]
  /\ noTick = <<>>
  /\ isInitialized = FALSE
  /\ canRun = TRUE
  /\ pc = "down"
  /\ context = CHOOSE c \in setup.contexts : TRUE
  /\ boots = 0
  /\ told = [m \in Modules |-> {}]
  /\ left = [schedule |-> schedule, told |-> told]
  /\ hasFailed = FALSE

-----------------------------------------------------------------------------
RegisterModule(list, m) == IF m \in ToSet(list) THEN list ELSE Append(list, m)

(* The loop over the context's modules.                                    *)
RegisterAll(list, more) ==
  LET registered[n \in 0 .. Len(more)] ==
        IF n = 0 THEN list ELSE RegisterModule(registered[n - 1], more[n])
  IN registered[Len(more)]

(* The entries of the context's schedule for one phase, in order; one for  *)
(* a module that is not registered is logged and dropped.                  *)
RegisteredUpdates(p) ==
  LET mine == Keep(context'.schedule, {p} \X ToSet(modules'))
  IN [i \in 1 .. Len(mine) |-> mine[i][2]]

(* Initialize up to the loop of Resolve.  The context is appended to what  *)
(* the boots before left of the schedule.  A module without a tick, neither *)
(* scheduled nor declared so, is logged (ValidateSchedule) and kept.       *)
Initialize ==
  /\ pc = "down"
  /\ boots < MaxBoots
  /\ boots' = boots + 1
  /\ context' \in setup.contexts
  /\ modules' = RegisterAll(modules, context'.modules)
  /\ schedule' = [p \in FramePhases |-> schedule[p] \o RegisteredUpdates(p)]
  /\ noTick' = noTick \o context'.noTick
  /\ order' = <<>>
  /\ pending' = Waiting(modules')
  /\ pc' = IF IsValid(modules') THEN "resolving" ELSE "failed"
  /\ UNCHANGED <<setup, activeModules, isInitialized, canRun, told, left, hasFailed>>

ResolveEmit ==
  /\ pc = "resolving"
  /\ EmitNext
  /\ UNCHANGED <<activeModules, schedule, noTick, isInitialized, canRun, pc, context, told,
                 pastVars>>

ResolveReturn ==
  /\ pc = "resolving"
  /\ IsStuck \/ IsComplete
  /\ pc' = IF IsStuck THEN "failed" ELSE "initializing"
  /\ UNCHANGED <<graphVars, activeModules, schedule, noTick, isInitialized, canRun, context,
                 told, pastVars>>

(* NotifyDependentsInitialized: every registered module that declares m in *)
(* any kind, those that are not initialized yet included.                  *)
NotifyDependentsInitialized(m) ==
  told' = [e \in Modules |-> IF e \in Loaded /\ Declares(e, m) THEN told[e] \cup {m}
                                                               ELSE told[e]]

NextToInitialize == order[Len(activeModules) + 1]

InitializeModule ==
  /\ pc = "initializing"
  /\ Len(activeModules) < Len(order)
  /\ activeModules' = Append(activeModules, NextToInitialize)
  /\ NotifyDependentsInitialized(NextToInitialize)
  /\ UNCHANGED <<graphVars, schedule, noTick, isInitialized, canRun, pc, context, pastVars>>

(* A module fails to initialize: it alone is terminated, and Initialize    *)
(* returns false with the modules before it still active.                  *)
FailModule ==
  /\ pc = "initializing"
  /\ Len(activeModules) < Len(order)
  /\ told' = [told EXCEPT ![NextToInitialize] = {}]
  /\ pc' = "failed"
  /\ hasFailed' = TRUE
  /\ UNCHANGED <<graphVars, activeModules, schedule, noTick, isInitialized, canRun, context, boots,
                 left>>

InitializeReturn ==
  /\ pc = "initializing"
  /\ Len(activeModules) = Len(order)
  /\ isInitialized' = TRUE
  /\ pc' = "up"
  /\ UNCHANGED <<graphVars, activeModules, schedule, noTick, canRun, context, told, pastVars>>

-----------------------------------------------------------------------------
(* Update: phase by phase, every scheduled module; one of them may Quit.   *)
Update ==
  /\ pc = "up"
  /\ isInitialized
  /\ canRun' \in {canRun, FALSE}
  /\ UNCHANGED <<graphVars, activeModules, schedule, noTick, isInitialized, pc, context, told,
                 pastVars>>

TerminateBegin ==
  /\ pc \in {"up", "failed"}
  /\ isInitialized' = FALSE
  /\ pc' = "terminating"
  /\ UNCHANGED <<graphVars, activeModules, schedule, noTick, canRun, context, told, pastVars>>

(* Terminates from the front.                                              *)
TerminateFirst ==
  /\ pc = "terminating"
  /\ activeModules # <<>>
  /\ LET m == Head(activeModules)
     IN told' = [e \in Modules |-> IF e = m THEN {}
                                   ELSE IF e \in ToSet(activeModules) /\ Declares(e, m)
                                        THEN told[e] \ {m} ELSE told[e]]
  /\ activeModules' = Tail(activeModules)
  /\ UNCHANGED <<graphVars, schedule, noTick, isInitialized, canRun, pc, context, pastVars>>

(* One turn of TerminateModules: the last active module; the active ones   *)
(* that declare it are told first.                                         *)
TerminateLast ==
  /\ pc = "terminating"
  /\ activeModules # <<>>
  /\ LET m == Last(activeModules)
     IN told' = [e \in Modules |-> IF e = m THEN {}
                                   ELSE IF e \in ToSet(activeModules) /\ Declares(e, m)
                                        THEN told[e] \ {m} ELSE told[e]]
  /\ activeModules' = Front(activeModules)
  /\ UNCHANGED <<graphVars, schedule, noTick, isInitialized, canRun, pc, context, pastVars>>

(* Of the registrations only m_modules is cleared.                         *)
TerminateReturn ==
  /\ pc = "terminating"
  /\ activeModules = <<>>
  /\ modules' = <<>>
  /\ pc' = "down"
  /\ left' = [schedule |-> schedule, told |-> told]
  /\ UNCHANGED <<setup, order, pending, activeModules, schedule, noTick, isInitialized,
                 canRun, context, boots, told, hasFailed>>

Next ==
  \/ Initialize \/ ResolveEmit \/ ResolveReturn
  \/ InitializeModule \/ FailModule \/ InitializeReturn
  \/ Update
  \/ TerminateBegin \/ TerminateLast \/ TerminateReturn

Spec == Init /\ [][Next]_vars

-----------------------------------------------------------------------------
Place(list, m) == CHOOSE i \in 1 .. Len(list) : list[i] = m

(* What Resolve returns: every loaded module once, "every Required and     *)
(* Optional dependency precedes its dependent. Ties keep the input order"  *)
(* (module_graph.hpp): a module comes after one that the context lists     *)
(* later only if it waited for that one, or for one placed in between.     *)
OrderIsStable ==
  pc \in {"initializing", "up"} =>
    /\ Len(order) = Len(modules) /\ ToSet(order) = Loaded
    /\ \A i, k \in 1 .. Len(order) :
         /\ DependsOn(order[i], order[k]) => k < i
         /\ i < k /\ Place(modules, order[k]) < Place(modules, order[i])
              => \E l \in i .. k - 1 : DependsOn(order[k], order[l])

(* Some loaded modules that all wait for one another, and a loaded module  *)
(* that declares another twice, each time Required or Optional.            *)
HasCycle == \E S \in (SUBSET Loaded) \ {{}} : \A m \in S : \E d \in S : DependsOn(m, d)
DeclaresTwice(m, loaded) ==
  \E n, k \in OrderingEntries(m, loaded) : n # k /\ setup.deps[m][n].on = setup.deps[m][k].on
HasDuplicate == \E m \in Loaded : DeclaresTwice(m, Loaded)

(* Resolve refuses a valid set of modules for a true cycle of ordering     *)
(* dependencies, or because a module declares another twice: that one is   *)
(* never released, and the log calls it a cycle.  It refuses nothing else: *)
(* mutual Notify declarations and what is not loaded never matter.         *)
RefusedForCause ==
  [][pc = "resolving" =>
       /\ pc' = "failed" => HasCycle \/ HasDuplicate
       /\ pc' = "initializing" => ~HasCycle /\ ~HasDuplicate]_vars

(* At every moment from the first Initialize of a module to the last       *)
(* Terminate, after a failure half way too, what an active module depends  *)
(* on (if it is loaded) is active, and was so before it.                   *)
DependenciesAreUp ==
  \A i \in 1 .. Len(activeModules) : \A d \in Loaded :
    DependsOn(activeModules[i], d) => \E k \in 1 .. i - 1 : activeModules[k] = d

(* Whatever the context, the same modules are loaded in the same order.    *)
SameModules == \A c, e \in setup.contexts : c.modules = e.modules

(* An active module has been told of all the active modules that it        *)
(* declares, those initialized before it and after it, and no longer of    *)
(* one that this boot has terminated.  What else it was told of was left   *)
(* by an earlier boot: one in which a module failed, and that loaded other *)
(* modules or in another order.                                            *)
ToldOfTheActive ==
  \A m \in ToSet(activeModules) :
    LET up == {d \in ToSet(activeModules) : Declares(m, d)}
    IN /\ up \subseteq told[m]
       /\ told[m] \subseteq up \cup left.told[m]
       /\ told[m] # up => hasFailed /\ ~SameModules

(* A frame ticks a module that is not initialized only if an earlier boot, *)
(* with a context of other modules, has left it in the schedule; whatever  *)
(* this context schedules, and however the last boot ended.                *)
TickedAreUp ==
  isInitialized =>
    \A p \in FramePhases : \A m \in ToSet(schedule[p]) \ ToSet(activeModules) :
      m \in ToSet(left.schedule[p]) /\ ~SameModules

(* From the first Initialize of a module to the last Terminate, and across *)
(* a failure or a boot with another context: what a module depends on is   *)
(* up, it was told of all that is up, and what is ticked is up, but for    *)
(* what another context has left.                                          *)
LifeIsOrdered == DependenciesAreUp /\ ToldOfTheActive /\ TickedAreUp
=============================================================================
