----------------------------- MODULE ModuleGraph -----------------------------
(***************************************************************************)
(* CModuleGraph::Resolve (private/module/module_graph.cpp): from the       *)
(* modules a run context loads and the dependencies they declare, the      *)
(* order of initialization, or a refusal.                                  *)
(*                                                                         *)
(* A module is its own id.  setup is what never changes: what the modules  *)
(* were compiled with, and the run contexts that the application has:      *)
(*   deps      GetDependencies() of each module, a list that may name one  *)
(*             module several times: on which module, of which kind, and   *)
(*             whether the version that is built in is the declared one or *)
(*             a compatible later one, if any is declared (met);           *)
(*   unfit     modules built against another contract version, or that     *)
(*             declare a null dependency;                                  *)
(*   contexts  an SRunContext each: the list of modules, the schedule, a   *)
(*             list of pairs of phase and module, and the list noTick.     *)
(***************************************************************************)
EXTENDS Integers, Sequences, FiniteSets, SequencesExt

CONSTANTS Modules,
          Setups      \* the setups to consider

Kinds == {"Required", "Optional", "Notify"}
Dependencies == [on : Modules, kind : Kinds, met : BOOLEAN]

ASSUME GraphAssumption ==
  \A s \in Setups : /\ s.deps \in [Modules -> Seq(Dependencies)]
                    /\ s.unfit \subseteq Modules
                    /\ s.contexts # {}
                    /\ \A c \in s.contexts : c.modules \in Seq(Modules)

VARIABLES setup,
          modules,    \* CRuntime::m_modules, the argument of Resolve
          order,      \* m_order
          pending     \* the local of that name, by index of modules

graphVars == <<setup, modules, order, pending>>

(* std::numeric_limits<uint32_t>::max(), which is also what zero wraps to  *)
(* when it is decremented: -1 of 32 bits.                                  *)
Emitted == -1

Indices == 1 .. Len(modules)
Loaded == ToSet(modules)

Declares(m, d) == \E n \in 1 .. Len(setup.deps[m]) : setup.deps[m][n].on = d

IsOrderingDependency(kind) == kind \in {"Required", "Optional"}

DependsOn(m, d) ==
  \E n \in 1 .. Len(setup.deps[m]) :
    setup.deps[m][n].on = d /\ IsOrderingDependency(setup.deps[m][n].kind)

ValidateContract(m) == m \notin setup.unfit

(* A required module must be loaded, and whatever is loaded must satisfy   *)
(* the declared version, for every kind of dependency.                     *)
ValidateDependencies(m, loaded) ==
  \A entry \in ToSet(setup.deps[m]) :
    IF entry.on \in loaded THEN entry.met ELSE entry.kind # "Required"

(* The checks that come before the loop.                                   *)
IsValid(list) ==
  \A m \in ToSet(list) : ValidateContract(m) /\ ValidateDependencies(m, ToSet(list))

(* The entries of m, by index, that order it after one of these modules.   *)
OrderingEntries(m, loaded) ==
  {n \in 1 .. Len(setup.deps[m]) :
     setup.deps[m][n].on \in loaded /\ IsOrderingDependency(setup.deps[m][n].kind)}

(* Counts the entries for modules that are not loaded too.                 *)
WaitingForAbsent(list) ==
  [i \in 1 .. Len(list) |-> Cardinality(OrderingEntries(list[i], Modules))]

(* How many entries each module waits for: a module that is declared twice *)
(* counts twice, and will be placed once.                                  *)
Waiting(list) ==
  [i \in 1 .. Len(list) |-> Cardinality(OrderingEntries(list[i], ToSet(list)))]

Ready == {i \in Indices : pending[i] = 0}

(* The last ready module of the list.                                      *)
EmitLast ==
  /\ Len(order) < Len(modules)
  /\ Ready # {}
  /\ LET next == CHOOSE i \in Ready : \A k \in Ready : k <= i
     IN /\ order' = Append(order, modules[next])
        /\ pending' = [i \in Indices |->
             IF i = next THEN Emitted
             ELSE IF pending[i] # Emitted /\ DependsOn(modules[i], modules[next])
                  THEN pending[i] - 1 ELSE pending[i]]
  /\ UNCHANGED <<setup, modules>>

(* One turn of the loop: place the first ready module of the list and      *)
(* release those that depend on it.                                        *)
EmitNext ==
  /\ Len(order) < Len(modules)
  /\ Ready # {}
  /\ LET next == CHOOSE i \in Ready : \A k \in Ready : i <= k
     IN /\ order' = Append(order, modules[next])
        /\ pending' = [i \in Indices |->
             IF i = next THEN Emitted
             ELSE IF pending[i] # Emitted /\ DependsOn(modules[i], modules[next])
                  THEN pending[i] - 1 ELSE pending[i]]
  /\ UNCHANGED <<setup, modules>>

(* The loop finds no module ready, and more to place: the "cycle" of the   *)
(* log.                                                                    *)
IsStuck == Len(order) < Len(modules) /\ Ready = {}
IsComplete == Len(order) = Len(modules)
=============================================================================
