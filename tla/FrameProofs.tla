------------------------------ MODULE FrameProofs ------------------------------
(***************************************************************************)
(* What run frame checks of the runtime, the event system, ParallelFor,    *)
(* the allocators and the memory statistics, proved for any setups,        *)
(* threads, types, sizes, alignments and bounds.                           *)
(***************************************************************************)
EXTENDS MCFrame, SequenceFilterProofs, SequenceTheorems, TLAPS

(***************************************************************************)
(* CRuntime: the order that Resolve makes, and the life of the modules.    *)
(***************************************************************************)
\* What RegisterModule makes of the context's modules, and their set.
ModuleList == RegisterAll(<<>>, context.modules)
Wanted == ToSet(context.modules)

\* The entries that Resolve counts for m, and those of them that are released in vain.
Entries(m) == OrderingEntries(m, Wanted)
Repeats(m) == DeclaresTwice(m, Wanted)

Waits(m, emitted) == Repeats(m) \/ \E d \in Wanted \ emitted : DependsOn(m, d)

\* The module at i is what Resolve emits when it has emitted these.
IsNext(i, emitted) ==
    /\ i \in 1 .. Len(ModuleList)
    /\ ModuleList[i] \notin emitted /\ ~Waits(ModuleList[i], emitted)
    /\ \A k \in 1 .. i - 1 : ModuleList[k] \in emitted \/ Waits(ModuleList[k], emitted)

First(o, n) == {o[k] : k \in 1 .. n}

\* o is what Resolve emits of these modules, or a beginning of it.
IsRun(o) ==
    /\ o \in Seq(Modules)
    /\ \A n \in 1 .. Len(o) : \E i \in 1 .. Len(ModuleList) :
          IsNext(i, First(o, n - 1)) /\ o[n] = ModuleList[i]

\* What is emitted so far, and what was when the last Resolve ended.
OrderInv == \E o \in Seq(Modules) : IsRun(o) /\ order = o

RuntimePcs == {"down", "resolving", "initializing", "failed", "up", "terminating"}

RuntimeTypeOK ==
    /\ setup \in Setups /\ context \in setup.contexts
    /\ modules = IF pc = "down" THEN <<>> ELSE ModuleList
    /\ activeModules \in Seq(Modules)
    /\ schedule \in [FramePhases -> Seq(Modules)]
    /\ isInitialized \in BOOLEAN
    /\ pc \in RuntimePcs
    /\ told \in [Modules -> SUBSET Modules]

\* What a module still counts: its entries, but for one of each module that is emitted.
PendingInv ==
    pc = "resolving" =>
       pending = [i \in 1 .. Len(ModuleList) |->
                    IF ModuleList[i] \in ToSet(order) THEN Emitted
                    ELSE Cardinality(Entries(ModuleList[i]))
                           - Cardinality({d \in ToSet(order) : DependsOn(ModuleList[i], d)})]

\* The active modules are the first of the order.
ActiveInv ==
    /\ Len(activeModules) <= Len(order)
    /\ \A i \in 1 .. Len(activeModules) : activeModules[i] = order[i]
    /\ pc \in {"down", "resolving"} => activeModules = <<>>
    /\ pc \in {"initializing", "up"} => Len(order) = Len(ModuleList)
    /\ pc = "up" => Len(activeModules) = Len(order)
    /\ isInitialized => pc = "up"

\* What is scheduled is of this context, or another one has left it.
ScheduleInv ==
    /\ \A p \in FramePhases : ToSet(schedule[p]) \subseteq Wanted \cup ToSet(left.schedule[p])
    /\ SameModules => \A p \in FramePhases : ToSet(schedule[p]) \subseteq Wanted

\* What the earlier boots left: nothing told, unless a module has failed.
LeftInv ==
    /\ pc = "down" => schedule = left.schedule
    /\ pc \in {"down", "resolving"} => told = left.told
    /\ ~hasFailed => \A m \in Modules :
          /\ left.told[m] = {}
          /\ pc # "initializing" /\ m \notin ToSet(activeModules) => told[m] = {}

\* However Resolve is run, d comes before m.
Before(d, m) ==
    \A o \in Seq(Modules) : IsRun(o) =>
       \A k \in 1 .. Len(o) : o[k] = m => d \in First(o, k - 1)

\* What an active module was told of, what a module is told before it is initialized, and, if
\* all boots load the same, why nothing is left over: what a module that is not active was told
\* of, in this boot or an earlier one that failed, is up by the time it is initialized.
ToldInv ==
    /\ \A m \in ToSet(activeModules) :
          LET up == {d \in ToSet(activeModules) : Declares(m, d)}
          IN up \subseteq told[m] /\ told[m] \subseteq up \cup left.told[m]
    /\ pc = "initializing" => \A m \in Modules :
          /\ \A d \in ToSet(activeModules) : m \in Wanted /\ Declares(m, d) => d \in told[m]
          /\ \A d \in told[m] : \/ d \in left.told[m]
                                \/ m \in Wanted /\ d \in ToSet(activeModules) /\ Declares(m, d)
    /\ SameModules =>
          /\ \A m \in ToSet(activeModules) : \A d \in told[m] :
                d \in ToSet(activeModules) /\ Declares(m, d)
          /\ \A m \in Wanted \ ToSet(activeModules) : \A d \in told[m] :
                Declares(m, d) /\ Before(d, m)

RuntimeInv == RuntimeTypeOK /\ OrderInv /\ PendingInv /\ ActiveInv /\ ScheduleInv /\ LeftInv /\ ToldInv

-----------------------------------------------------------------------------
(* The function that RegisterAll computes, on the first n of the list.     *)
IsRegistered(G, more, n) ==
    G = [k \in 0 .. n |-> IF k = 0 THEN <<>> ELSE RegisterModule(G[k - 1], more[k])]

LEMMA RegisteredExists ==
  ASSUME NEW more, NEW n \in Nat
  PROVE  \E G : IsRegistered(G, more, n)
  <1> DEFINE T == {k \in Nat : ~ \E G : IsRegistered(G, more, k)}
  <1> SUFFICES ASSUME T # {} PROVE FALSE
    OBVIOUS
  <1>1. PICK k \in T : \A m \in T : k <= m
    BY LeastNumber
  <1>2. k \in Nat /\ ~ \E G : IsRegistered(G, more, k)
    BY <1>1
  <1>3. CASE k = 0
    <2>1. IsRegistered([m \in 0 .. 0 |-> <<>>], more, 0)
      BY DEF IsRegistered
    <2> QED
      BY <2>1, <1>2, <1>3
  <1>4. CASE k # 0
    <2>1. k - 1 \in Nat /\ k - 1 \notin T
      BY <1>1, <1>2, <1>4
    <2>2. PICK G : IsRegistered(G, more, k - 1)
      BY <2>1
    <2> DEFINE last == RegisterModule(G[k - 1], more[k])
               H == [m \in 0 .. k |-> IF m = k THEN last ELSE G[m]]
    <2>3. ASSUME NEW m \in 0 .. k, m # k, m # 0
          PROVE  H[m] = RegisterModule(H[m - 1], more[m])
      <3>1. m \in 0 .. (k - 1) /\ m - 1 \in 0 .. k /\ m - 1 # k
        BY <1>2, <2>3
      <3>2. G[m] = RegisterModule(G[m - 1], more[m])
        BY <2>2, <3>1, <2>3 DEF IsRegistered
      <3> QED
        BY <3>1, <3>2, <2>3
    <2>4. H[k] = RegisterModule(H[k - 1], more[k])
      BY <1>2, <1>4
    <2>5. H[0] = <<>>
      BY <1>2, <1>4, <2>1, <2>2 DEF IsRegistered
    <2> HIDE DEF last
    <2>6. IsRegistered(H, more, k)
      <3>1. H = [m \in 0 .. k |-> H[m]]
        OBVIOUS
      <3> HIDE DEF H
      <3> DEFINE K == [m \in 0 .. k |-> IF m = 0 THEN <<>> ELSE RegisterModule(H[m - 1], more[m])]
      <3>2. \A m \in 0 .. k : H[m] = K[m]
        BY <2>3, <2>4, <2>5, <1>4
      <3>3. K = [m \in 0 .. k |-> K[m]]
        OBVIOUS
      <3> HIDE DEF K
      <3>4. [m \in 0 .. k |-> H[m]] = [m \in 0 .. k |-> K[m]]
        BY <3>2
      <3>5. H = K
        BY <3>1, <3>3, <3>4
      <3> QED
        BY <3>5 DEF K, IsRegistered
    <2> QED
      BY <2>6, <1>2
  <1> QED
    BY <1>3, <1>4

(* Every module of the list, once.                                         *)
LEMMA RegisterAllLists ==
  ASSUME NEW more \in Seq(Modules)
  PROVE  /\ RegisterAll(<<>>, more) \in Seq(Modules)
         /\ Distinct(RegisterAll(<<>>, more))
         /\ ToSet(RegisterAll(<<>>, more)) = ToSet(more)
  <1>0. Len(more) \in Nat
    OBVIOUS
  <1> DEFINE F == CHOOSE G : IsRegistered(G, more, Len(more))
  <1>1. IsRegistered(F, more, Len(more))
    BY <1>0, RegisteredExists
  <1>2. RegisterAll(<<>>, more) = F[Len(more)]
    BY DEF RegisterAll, IsRegistered
  <1>3. /\ F[0] = <<>>
        /\ \A k \in 1 .. Len(more) : F[k] = RegisterModule(F[k - 1], more[k])
    <2>1. PICK G : G = F
      OBVIOUS
    <2>2. G = [k \in 0 .. Len(more) |-> IF k = 0 THEN <<>> ELSE RegisterModule(G[k - 1], more[k])]
      BY <1>1, <2>1 DEF IsRegistered
    <2>3. \A k \in 0 .. Len(more) : G[k] = IF k = 0 THEN <<>> ELSE RegisterModule(G[k - 1], more[k])
      BY <2>2
    <2> HIDE DEF F
    <2> QED
      BY <1>0, <2>1, <2>3
  <1> HIDE DEF F
  <1> DEFINE Good(k) == F[k] \in Seq(Modules) /\ Distinct(F[k]) /\ ToSet(F[k]) = First(more, k)
             T == {k \in 0 .. Len(more) : ~Good(k)}
  <1>4. T = {}
    <2> SUFFICES ASSUME T # {} PROVE FALSE
      OBVIOUS
    <2>0. T \in SUBSET Nat
      BY <1>0
    <2>1. PICK k \in T : \A m \in T : k <= m
      <3> HIDE DEF T
      <3> QED
        BY <2>0, LeastNumber
    <2>2. CASE k = 0
      <3>1. Good(0)
        BY <1>3 DEF Distinct, First, ToSet
      <3> QED
        BY <2>1, <2>2, <3>1
    <2>3. CASE k # 0
      <3>1. k - 1 \in 0 .. Len(more) /\ k \in 1 .. Len(more) /\ k - 1 \notin T
        BY <1>0, <2>1, <2>3
      <3>2. Good(k - 1)
        BY <3>1
      <3>3. PICK g \in Seq(Modules), m \in Modules : g = F[k - 1] /\ m = more[k]
        BY <3>1, <3>2
      <3>4. F[k] = IF m \in ToSet(g) THEN g ELSE Append(g, m)
        BY <1>3, <3>1, <3>3 DEF RegisterModule
      <3>5. First(more, k) = First(more, k - 1) \cup {m}
        BY <3>1, <3>3 DEF First
      <3>6. Distinct(g) /\ ToSet(g) = First(more, k - 1)
        BY <3>2, <3>3
      <3>7. Good(k)
        BY <3>3, <3>4, <3>5, <3>6, AppendElements
      <3> QED
        BY <2>1, <3>7
    <2> QED
      BY <2>2, <2>3
  <1>5. Good(Len(more))
    BY <1>0, <1>4
  <1>6. First(more, Len(more)) = ToSet(more)
    BY DEF First, ToSet
  <1> QED
    BY <1>2, <1>5, <1>6

-----------------------------------------------------------------------------
\* A list without repetitions, and the set of its elements.
ListOf(list, W) ==
    /\ list \in Seq(Modules) /\ Distinct(list) /\ ToSet(list) = W
    /\ Len(list) \in Nat /\ W \subseteq Modules
    /\ W = {list[i] : i \in 1 .. Len(list)}
    /\ IsFiniteSet(W) /\ Cardinality(W) = Len(list)

(* The list of a context, and its modules.                                 *)
LEMMA ContextModules ==
  ASSUME NEW s \in Setups, NEW x \in s.contexts,
         NEW list, list = RegisterAll(<<>>, x.modules), NEW W, W = ToSet(x.modules)
  PROVE  ListOf(list, W)
  <1>1. x.modules \in Seq(Modules)
    BY GraphAssumption
  <1>2. /\ list \in Seq(Modules) /\ Distinct(list) /\ ToSet(list) = W
    BY <1>1, RegisterAllLists
  <1>3. IsFiniteSet(W) /\ Cardinality(W) = Len(list)
    BY <1>2, DistinctLength
  <1>4. W = {list[i] : i \in 1 .. Len(list)}
    BY <1>2 DEF ToSet
  <1>5. Len(list) \in Nat /\ W \subseteq Modules
    BY <1>2, <1>4
  <1> QED
    BY <1>2, <1>3, <1>4, <1>5 DEF ListOf

LEMMA SetupModules ==
  ASSUME setup \in Setups, context \in setup.contexts
  PROVE  /\ ModuleList \in Seq(Modules) /\ Distinct(ModuleList) /\ ToSet(ModuleList) = Wanted
         /\ Len(ModuleList) \in Nat /\ Wanted \subseteq Modules
         /\ Wanted = {ModuleList[i] : i \in 1 .. Len(ModuleList)}
         /\ IsFiniteSet(Wanted) /\ Cardinality(Wanted) = Len(ModuleList)
  <1>0. PICK s \in Setups, x \in setup.contexts : s = setup /\ x = context
    OBVIOUS
  <1>1. PICK list, W : list = RegisterAll(<<>>, x.modules) /\ W = ToSet(x.modules)
    OBVIOUS
  <1>2. x \in s.contexts /\ list = ModuleList /\ W = Wanted
    BY <1>0, <1>1 DEF ModuleList, Wanted
  <1>3. ListOf(list, W)
    BY <1>0, <1>1, <1>2, ContextModules
  <1> QED
    BY <1>2, <1>3, Zenon DEF ListOf

(* A module counts at least as many entries as it depends on modules, and  *)
(* as many as it has been released from when it has nothing to wait for.   *)
LEMMA EntriesCountModules ==
  ASSUME setup \in Setups, context \in setup.contexts, NEW m \in Modules, NEW S \in SUBSET Wanted,
         NEW E, E = Entries(m), NEW P, P = {d \in S : DependsOn(m, d)}
  PROVE  /\ Cardinality(E) \in Nat /\ Cardinality(P) \in Nat /\ Cardinality(P) <= Cardinality(E)
         /\ Cardinality(P) = Cardinality(E) <=> ~Waits(m, S)
  <1>0. setup.deps[m] \in Seq(Dependencies)
    BY GraphAssumption
  <1>1. PICK deps \in Seq(Dependencies) : deps = setup.deps[m]
    BY <1>0
  <1>2. E = {n \in 1 .. Len(deps) : deps[n].on \in Wanted /\ IsOrderingDependency(deps[n].kind)}
    BY <1>1 DEF Entries, OrderingEntries
  <1>3. IsFiniteSet(E)
    <2>1. Len(deps) \in Nat
      OBVIOUS
    <2>2. PICK n \in Nat : n = Len(deps)
      BY <2>1
    <2>3. IsFiniteSet(1 .. n)
      BY FS_Interval
    <2> QED
      BY <1>2, <2>2, <2>3, FS_Subset
  <1>4. PICK D : D = {d \in Wanted : DependsOn(m, d)}
    OBVIOUS
  <1>5. PICK f : f = [n \in E |-> deps[n].on]
    OBVIOUS
  <1>6. f \in Surjection(E, D)
    <2>1. ASSUME NEW n \in E PROVE f[n] \in D
      <3>1. /\ n \in 1 .. Len(setup.deps[m]) /\ setup.deps[m][n].on \in Wanted
            /\ IsOrderingDependency(setup.deps[m][n].kind) /\ f[n] = setup.deps[m][n].on
        BY <1>1, <1>2, <1>5
      <3> QED
        BY <1>4, <3>1 DEF DependsOn
    <2>2. ASSUME NEW d \in D PROVE \E n \in E : f[n] = d
      <3>1. d \in Wanted /\ \E n \in 1 .. Len(deps) : deps[n].on = d /\ IsOrderingDependency(deps[n].kind)
        BY <1>1, <1>4 DEF DependsOn
      <3> QED
        BY <1>2, <1>5, <3>1
    <2>3. f \in [E -> D]
      BY <1>5, <2>1
    <2> QED
      BY <2>2, <2>3 DEF Surjection
  <1>7. /\ IsFiniteSet(D) /\ Cardinality(D) <= Cardinality(E)
        /\ Cardinality(D) = Cardinality(E) <=> f \in Injection(E, D)
    BY <1>3, <1>6, FS_Surjection
  <1>8. f \in Injection(E, D) <=> ~Repeats(m)
    <2>1. f \in [E -> D] /\ DOMAIN f = E
      BY <1>6 DEF Surjection
    <2>2. f \in Injection(E, D) <=> \A n, k \in E : f[n] = f[k] => n = k
      BY <2>1 DEF Injection, IsInjective
    <2>3. Repeats(m) <=> \E n, k \in E : n # k /\ deps[n].on = deps[k].on
      BY <1>1 DEF Repeats, DeclaresTwice, Entries
    <2>4. \A n \in E : f[n] = deps[n].on
      BY <1>5
    <2> QED
      BY <2>2, <2>3, <2>4
  <1>9. P \in SUBSET D
    BY <1>4
  <1>10. /\ IsFiniteSet(P) /\ Cardinality(P) <= Cardinality(D)
         /\ Cardinality(P) = Cardinality(D) <=> P = D
    <2>1. /\ IsFiniteSet(P) /\ Cardinality(P) <= Cardinality(D)
          /\ Cardinality(P) = Cardinality(D) => P = D
      BY <1>7, <1>9, FS_Subset
    <2> QED
      BY <2>1
  <1>11. P = D <=> ~ \E d \in Wanted \ S : DependsOn(m, d)
    BY <1>4
  <1>12. /\ Cardinality(E) \in Nat /\ Cardinality(P) \in Nat /\ Cardinality(D) \in Nat
    BY <1>3, <1>7, <1>10, FS_CardinalityType
  <1> QED
    BY <1>7, <1>8, <1>10, <1>11, <1>12 DEF Waits

(* What is emitted next is one module.                                     *)
LEMMA NextIsOne ==
  ASSUME setup \in Setups, context \in setup.contexts, NEW S, NEW i, NEW k, IsNext(i, S), IsNext(k, S)
  PROVE  i = k
  <1>1. i \in Nat /\ k \in Nat /\ Len(ModuleList) \in Nat
    BY SetupModules DEF IsNext
  <1>2. ~(i < k)
    BY <1>1 DEF IsNext
  <1>3. ~(k < i)
    BY <1>1 DEF IsNext
  <1> QED
    BY <1>1, <1>2, <1>3

(* Resolve is a function of the list: of two runs one begins with the      *)
(* other.                                                                  *)
LEMMA RunsAgree ==
  ASSUME setup \in Setups, context \in setup.contexts,
         NEW o \in Seq(Modules), NEW q \in Seq(Modules), IsRun(o), IsRun(q),
         NEW n \in 1 .. Len(o), n <= Len(q)
  PROVE  o[n] = q[n]
  <1> DEFINE T == {k \in Nat : k \in 1 .. Len(o) /\ k \in 1 .. Len(q) /\ o[k] # q[k]}
  <1>1. T = {}
    <2> SUFFICES ASSUME T # {} PROVE FALSE
      OBVIOUS
    <2>0. T \in SUBSET Nat
      OBVIOUS
    <2>1. PICK k \in T : \A m \in T : k <= m
      <3> HIDE DEF T
      <3> QED
        BY <2>0, LeastNumber
    <2>2. k \in Nat /\ k \in 1 .. Len(o) /\ k \in 1 .. Len(q) /\ o[k] # q[k]
      BY <2>1
    <2>3. \A m \in 1 .. k - 1 : o[m] = q[m]
      BY <2>1, <2>2
    <2>4. First(o, k - 1) = First(q, k - 1)
      BY <2>3 DEF First
    <2>5. PICK i \in 1 .. Len(ModuleList) : IsNext(i, First(o, k - 1)) /\ o[k] = ModuleList[i]
      BY <2>2 DEF IsRun
    <2>6. PICK j \in 1 .. Len(ModuleList) : IsNext(j, First(q, k - 1)) /\ q[k] = ModuleList[j]
      BY <2>2 DEF IsRun
    <2>7. i = j
      BY <2>4, <2>5, <2>6, NextIsOne
    <2> QED
      BY <2>2, <2>5, <2>6, <2>7
  <1>2. n \in Nat /\ n \in 1 .. Len(q)
    OBVIOUS
  <1> QED
    BY <1>1, <1>2

(* What a run emits: modules of the list, each once, after all that it     *)
(* depends on, and none that declares another twice.                       *)
LEMMA RunEmits ==
  ASSUME setup \in Setups, context \in setup.contexts, NEW o \in Seq(Modules), IsRun(o)
  PROVE  /\ Distinct(o) /\ ToSet(o) \subseteq Wanted
         /\ \A n \in 1 .. Len(o) : \A d \in Wanted : DependsOn(o[n], d) => d \in First(o, n - 1)
         /\ \A n \in 1 .. Len(o) : ~Repeats(o[n])
         /\ Len(o) <= Len(ModuleList) /\ (Len(o) = Len(ModuleList) => ToSet(o) = Wanted)
  <1>0. Len(o) \in Nat
    OBVIOUS
  <1>1. ASSUME NEW n \in 1 .. Len(o)
        PROVE  /\ o[n] \in Wanted /\ o[n] \notin First(o, n - 1) /\ ~Repeats(o[n])
               /\ \A d \in Wanted : DependsOn(o[n], d) => d \in First(o, n - 1)
    <2>1. PICK i \in 1 .. Len(ModuleList) : IsNext(i, First(o, n - 1)) /\ o[n] = ModuleList[i]
      BY DEF IsRun
    <2> QED
      BY <2>1, SetupModules DEF IsNext, Waits
  <1>2. Distinct(o)
    <2> SUFFICES ASSUME NEW i \in 1 .. Len(o), NEW k \in 1 .. Len(o), i < k PROVE o[i] # o[k]
      BY <1>0 DEF Distinct
    <2>1. i \in 1 .. k - 1
      BY <1>0
    <2> QED
      BY <1>1, <2>1 DEF First
  <1>3. ToSet(o) \subseteq Wanted
    BY <1>1 DEF ToSet
  <1>4. Cardinality(ToSet(o)) = Len(o)
    BY <1>2, DistinctLength
  <1>5. /\ Cardinality(ToSet(o)) <= Cardinality(Wanted)
        /\ Cardinality(Wanted) = Cardinality(ToSet(o)) => Wanted = ToSet(o)
    BY <1>3, SetupModules, FS_Subset
  <1>6. Cardinality(Wanted) = Len(ModuleList)
    BY SetupModules
  <1> QED
    BY <1>1, <1>2, <1>3, <1>4, <1>5, <1>6

(* Ties keep the order of the list.                                        *)
LEMMA RunIsStable ==
  ASSUME setup \in Setups, context \in setup.contexts, NEW o \in Seq(Modules), IsRun(o),
         NEW i \in 1 .. Len(o), NEW k \in 1 .. Len(o), i < k,
         NEW p \in 1 .. Len(ModuleList), NEW q \in 1 .. Len(ModuleList),
         o[i] = ModuleList[p], o[k] = ModuleList[q], q < p
  PROVE  \E l \in i .. k - 1 : DependsOn(o[k], o[l])
  <1>0. Len(o) \in Nat /\ Len(ModuleList) \in Nat
    BY SetupModules
  <1>1. PICK x \in 1 .. Len(ModuleList) : IsNext(x, First(o, i - 1)) /\ o[i] = ModuleList[x]
    BY DEF IsRun
  <1>2. x = p
    BY <1>1, SetupModules DEF Distinct
  <1>3. ModuleList[q] \in First(o, i - 1) \/ Waits(ModuleList[q], First(o, i - 1))
    <2>1. q \in 1 .. p - 1
      BY <1>0
    <2> QED
      BY <1>1, <1>2, <2>1 DEF IsNext
  <1>4. o[k] \notin First(o, i - 1)
    <2> SUFFICES ASSUME NEW m \in 1 .. i - 1 PROVE o[m] # o[k]
      BY DEF First
    <2>1. m \in 1 .. Len(o) /\ m # k
      BY <1>0
    <2> QED
      BY <2>1, RunEmits DEF Distinct
  <1>5. PICK d \in Wanted \ First(o, i - 1) : DependsOn(o[k], d)
    <2>1. ~Repeats(o[k])
      BY RunEmits
    <2> QED
      BY <1>3, <1>4, <2>1 DEF Waits
  <1>6. d \in First(o, k - 1)
    BY <1>5, RunEmits
  <1>7. PICK l \in 1 .. k - 1 : o[l] = d
    BY <1>6 DEF First
  <1>8. ~(l \in 1 .. i - 1)
    BY <1>5, <1>7 DEF First
  <1>9. l \in i .. k - 1
    BY <1>0, <1>7, <1>8
  <1> QED
    BY <1>5, <1>7, <1>9

-----------------------------------------------------------------------------
(* What depends on the setup and the list of modules only does not change. *)
LEMMA SameSetup ==
  ASSUME setup' = setup, context'.modules = context.modules
  PROVE  /\ ModuleList' = ModuleList /\ Wanted' = Wanted
         /\ \A m, d : DependsOn(m, d)' <=> DependsOn(m, d)
         /\ \A m, d : Declares(m, d)' <=> Declares(m, d)
         /\ \A m : Entries(m)' = Entries(m)
         /\ \A o : IsRun(o)' <=> IsRun(o)
         /\ \A m, d : Before(d, m)' <=> Before(d, m)
         /\ SameModules' <=> SameModules
  <1>1. ModuleList' = ModuleList /\ Wanted' = Wanted
    BY DEF ModuleList, Wanted
  <1>2. \A m, d : DependsOn(m, d)' <=> DependsOn(m, d)
    BY DEF DependsOn
  <1>3. \A m, d : Declares(m, d)' <=> Declares(m, d)
    BY DEF Declares
  <1>4. \A m : Entries(m)' = Entries(m) /\ (Repeats(m)' <=> Repeats(m))
    BY <1>1 DEF Entries, Repeats, OrderingEntries, DeclaresTwice
  <1>5. \A m, S : Waits(m, S)' <=> Waits(m, S)
    BY <1>1, <1>2, <1>4 DEF Waits
  <1>6. \A i, S : IsNext(i, S)' <=> IsNext(i, S)
    <2> TAKE i, S
    <2> QED
      BY <1>1, <1>5 DEF IsNext
  <1>7. \A o : IsRun(o)' <=> IsRun(o)
    <2> TAKE o
    <2>1. \A n, i : IsNext(i, First(o, n - 1))' <=> IsNext(i, First(o, n - 1))
      BY <1>6
    <2> QED
      BY <1>1, <2>1 DEF IsRun
  <1>8. \A m, d : Before(d, m)' <=> Before(d, m)
    BY <1>7 DEF Before, First
  <1>9. SameModules' <=> SameModules
    BY DEF SameModules
  <1> QED
    BY <1>1, <1>2, <1>3, <1>4, <1>7, <1>8, <1>9

LEMMA SameTold ==
  ASSUME ToldInv, UNCHANGED <<setup, context, told, activeModules, left>>,
         pc' = "initializing" => \/ pc = "initializing"
                                 \/ activeModules = <<>> /\ told = left.told
  PROVE  ToldInv'
  <1>1. /\ ModuleList' = ModuleList /\ Wanted' = Wanted
        /\ \A m, d : Declares(m, d)' <=> Declares(m, d)
        /\ \A m, d : Before(d, m)' <=> Before(d, m)
        /\ SameModules' <=> SameModules
    BY SameSetup
  <1>2. ASSUME pc' = "initializing", NEW m \in Modules
        PROVE  /\ \A d \in ToSet(activeModules) : m \in Wanted /\ Declares(m, d) => d \in told[m]
               /\ \A d \in told[m] : \/ d \in left.told[m]
                                     \/ m \in Wanted /\ d \in ToSet(activeModules) /\ Declares(m, d)
    <2>1. CASE pc = "initializing"
      BY <1>2, <2>1 DEF ToldInv
    <2>2. CASE activeModules = <<>> /\ told = left.told
      BY <2>2 DEF ToSet
    <2> QED
      BY <1>2, <2>1, <2>2
  <1> QED
    BY <1>1, <1>2 DEF ToldInv

(* Between two boots nothing is told, and nothing is active.               *)
LEMMA NoneTold ==
  ASSUME ToldInv, UNCHANGED <<setup, told, activeModules>>, activeModules = <<>>,
         pc' # "initializing", SameModules => context'.modules = context.modules
  PROVE  ToldInv'
  <1>1. ToSet(activeModules) = {}
    BY DEF ToSet
  <1>2. SameModules' <=> SameModules
    BY DEF SameModules
  <1>3. ASSUME SameModules
        PROVE  \A m \in Wanted' : \A d \in told'[m] : Declares(m, d)' /\ Before(d, m)'
    BY <1>1, <1>3, SameSetup DEF ToldInv
  <1> QED
    BY <1>1, <1>2, <1>3 DEF ToldInv

LEMMA SameLeft ==
  ASSUME LeftInv, UNCHANGED <<told, left, hasFailed, activeModules>>,
         pc' \notin {"down", "resolving"}, pc = "initializing" => pc' = "initializing"
  PROVE  LeftInv'
  BY DEF LeftInv

(* A step that leaves the order as it is and no longer resolves it.        *)
LEMMA SameOrder ==
  ASSUME RuntimeInv, UNCHANGED <<setup, context, order, schedule, left>>, pc' # "resolving"
  PROVE  OrderInv' /\ PendingInv' /\ ScheduleInv'
  <1>1. OrderInv'
    BY SameSetup DEF RuntimeInv, OrderInv
  <1>2. PendingInv'
    BY DEF PendingInv
  <1>3. ScheduleInv'
    BY SameSetup DEF RuntimeInv, ScheduleInv
  <1> QED
    BY <1>1, <1>2, <1>3
-----------------------------------------------------------------------------
LEMMA EmptyRun == <<>> \in Seq(Modules) /\ IsRun(<<>>)
  <1>1. <<>> \in Seq(Modules) /\ Len(<<>>) = 0
    OBVIOUS
  <1> QED
    BY <1>1 DEF IsRun

LEMMA RuntimeInitInv == Init => RuntimeInv
  <1> SUFFICES ASSUME Init PROVE RuntimeInv
    OBVIOUS
  <1> USE DEF Init
  <1>1. ToSet(<<>>) = {}
    BY DEF ToSet
  <1>2. RuntimeTypeOK
    <2>1. schedule \in [FramePhases -> Seq(Modules)] /\ told \in [Modules -> SUBSET Modules]
      OBVIOUS
    <2>2. isInitialized \in BOOLEAN
      BY Zenon
    <2>3. pc \in RuntimePcs /\ activeModules \in Seq(Modules)
      BY DEF RuntimePcs
    <2>4. context \in setup.contexts
      <3>1. \E x \in setup.contexts : TRUE
        BY GraphAssumption
      <3> QED
        BY <3>1
    <2> QED
      BY <2>1, <2>2, <2>3, <2>4 DEF RuntimeTypeOK
  <1>3. OrderInv
    BY EmptyRun DEF OrderInv
  <1>4. PendingInv /\ ActiveInv
    <2>1. Len(activeModules) = 0 /\ Len(order) = 0
      OBVIOUS
    <2> QED
      BY <2>1 DEF PendingInv, ActiveInv
  <1>5. ScheduleInv /\ LeftInv
    BY DEF ScheduleInv, LeftInv, ToSet
  <1>6. ToldInv
    <2>1. context \in setup.contexts
      BY <1>2 DEF RuntimeTypeOK
    <2> QED
      BY <1>1, <2>1, SetupModules DEF ToldInv
  <1> QED
    BY <1>2, <1>3, <1>4, <1>5, <1>6 DEF RuntimeInv

(* What is scheduled is registered, or was scheduled before.               *)
LEMMA NewSchedule ==
  ASSUME NEW s \in Setups, NEW x \in s.contexts, context' = x,
         schedule \in [FramePhases -> Seq(Modules)],
         NEW W \in SUBSET Modules, ToSet(modules') = W,
         schedule' = [p \in FramePhases |-> schedule[p] \o RegisteredUpdates(p)]
  PROVE  /\ schedule' \in [FramePhases -> Seq(Modules)]
         /\ \A p \in FramePhases : ToSet(schedule'[p]) \subseteq W \cup ToSet(schedule[p])
  <1> SUFFICES ASSUME NEW p \in FramePhases
               PROVE  /\ schedule[p] \o RegisteredUpdates(p) \in Seq(Modules)
                      /\ ToSet(schedule[p] \o RegisteredUpdates(p)) \subseteq W \cup ToSet(schedule[p])
    OBVIOUS
  <1>2. x.schedule \in Seq(FramePhases \X Modules)
    BY RuntimeAssumption
  <1>3. PICK mine : mine = Keep(x.schedule, {p} \X W)
    OBVIOUS
  <1>4. mine \in Seq(FramePhases \X Modules) /\ ToSet(mine) = ToSet(x.schedule) \cap ({p} \X W)
    BY <1>2, <1>3, KeepIsFilter, KeepElements
  <1>5. \A i \in 1 .. Len(mine) : mine[i] \in ToSet(mine)
    BY <1>4 DEF ToSet
  <1>6. \A i \in 1 .. Len(mine) : mine[i][2] \in W
    BY <1>4, <1>5
  <1>7. PICK r : r = [i \in 1 .. Len(mine) |-> mine[i][2]]
    OBVIOUS
  <1>8. r \in Seq(Modules) /\ Len(r) = Len(mine) /\ Len(mine) \in Nat /\ \A i \in 1 .. Len(r) : r[i] \in W
    BY <1>4, <1>6, <1>7
  <1>9. RegisteredUpdates(p) = r
    BY <1>3, <1>7 DEF RegisteredUpdates
  <1>10. PICK q \in Seq(Modules) : q = schedule[p]
    OBVIOUS
  <1>11. PICK V : V = W \cup ToSet(q)
    OBVIOUS
  <1>12. (\A i \in 1 .. Len(q) : q[i] \in V) /\ (\A i \in 1 .. Len(r) : r[i] \in V)
    BY <1>8, <1>11 DEF ToSet
  <1>13. q \o r \in Seq(Modules) /\ \A i \in 1 .. Len(q \o r) : (q \o r)[i] \in V
    BY <1>8, <1>10, <1>12
  <1>14. ToSet(q \o r) \subseteq V
    BY <1>13 DEF ToSet
  <1> QED
    BY <1>9, <1>10, <1>11, <1>13, <1>14

LEMMA InitializeKeeps ==
  ASSUME RuntimeInv, Initialize
  PROVE  RuntimeInv'
  <1>1. /\ setup \in Setups /\ setup' = setup /\ pc = "down" /\ modules = <<>> /\ activeModules = <<>>
        /\ UNCHANGED <<activeModules, isInitialized, told, left, hasFailed>> /\ order' = <<>>
        /\ pc' \in {"resolving", "failed"} /\ context \in setup.contexts
        /\ ToldInv /\ ScheduleInv /\ LeftInv
    BY DEF Initialize, RuntimeInv, RuntimeTypeOK, ActiveInv
  <1>2. PICK x \in setup.contexts : context' = x
    BY DEF Initialize
  <1>3. PICK list, W : list = RegisterAll(<<>>, x.modules) /\ W = ToSet(x.modules)
    OBVIOUS
  <1>4. /\ list \in Seq(Modules) /\ Distinct(list) /\ ToSet(list) = W
        /\ Len(list) \in Nat /\ W \subseteq Modules
        /\ W = {list[i] : i \in 1 .. Len(list)}
    <2>1. PICK s \in Setups : s = setup
      BY <1>1
    <2>2. x \in s.contexts
      BY <2>1
    <2>3. ListOf(list, W)
      BY <1>3, <2>1, <2>2, ContextModules
    <2> QED
      BY <2>3, Zenon DEF ListOf
  <1>5. modules' = list /\ ModuleList' = list /\ Wanted' = W
    BY <1>1, <1>2, <1>3 DEF Initialize, ModuleList, Wanted
  <1>6. /\ schedule' \in [FramePhases -> Seq(Modules)]
        /\ \A p \in FramePhases : ToSet(schedule'[p]) \subseteq W \cup ToSet(schedule[p])
    <2>1. schedule \in [FramePhases -> Seq(Modules)]
      BY DEF RuntimeInv, RuntimeTypeOK
    <2>2. schedule' = [p \in FramePhases |-> schedule[p] \o RegisteredUpdates(p)]
      BY DEF Initialize
    <2>3. ToSet(modules') = W
      BY <1>4, <1>5
    <2> QED
      BY <1>1, <1>2, <1>4, <2>1, <2>2, <2>3, NewSchedule
  <1>7. RuntimeTypeOK'
    <2>1. pc' \in RuntimePcs /\ pc' # "down"
      BY <1>1 DEF RuntimePcs
    <2> QED
      BY <1>1, <1>2, <1>5, <1>6, <2>1 DEF RuntimeInv, RuntimeTypeOK
  <1>8. OrderInv'
    <2>1. IsRun(<<>>)'
      <3>1. <<>> \in Seq(Modules) /\ Len(<<>>) = 0
        OBVIOUS
      <3> QED
        BY <3>1 DEF IsRun
    <2> QED
      BY <1>1, <2>1, EmptyRun DEF OrderInv
  <1>9. PendingInv'
    <2>1. ASSUME NEW m \in Modules PROVE Cardinality(OrderingEntries(m, W)) \in Nat
      <3>1. setup.deps[m] \in Seq(Dependencies)
        BY <1>1, GraphAssumption
      <3>2. IsFiniteSet(1 .. Len(setup.deps[m]))
        <4>1. PICK n \in Nat : n = Len(setup.deps[m])
          BY <3>1
        <4>2. IsFiniteSet(1 .. n)
          BY FS_Interval
        <4> QED
          BY <4>1, <4>2
      <3>3. OrderingEntries(m, W) \in SUBSET (1 .. Len(setup.deps[m]))
        BY DEF OrderingEntries
      <3> QED
        BY <3>2, <3>3, FS_Subset, FS_CardinalityType
    <2>2. pending' = [i \in 1 .. Len(list) |-> Cardinality(OrderingEntries(list[i], W))]
      BY <1>4, <1>5 DEF Initialize, Waiting
    <2>3. \A m : Entries(m)' = OrderingEntries(m, W)
      BY <1>1, <1>5 DEF Entries, OrderingEntries
    <2>4. ToSet(order') = {} /\ Cardinality({}) = 0
      BY <1>1, FS_EmptySet DEF ToSet
    <2>5. \A m : {d \in ToSet(order') : DependsOn(m, d)'} = {}
      BY <2>4
    <2>6. \A i \in 1 .. Len(list) : list[i] \in Modules
      BY <1>4
    <2>7. \A i \in 1 .. Len(list) :
             Cardinality(OrderingEntries(list[i], W)) = Cardinality(Entries(list[i])')
               - Cardinality({d \in ToSet(order') : DependsOn(list[i], d)'})
      BY <2>1, <2>3, <2>4, <2>5, <2>6
    <2>8. pending' = [i \in 1 .. Len(list) |->
                        IF list[i] \in ToSet(order') THEN Emitted
                        ELSE Cardinality(Entries(list[i])')
                               - Cardinality({d \in ToSet(order') : DependsOn(list[i], d)'})]
      BY <2>2, <2>4, <2>7
    <2> QED
      BY <1>5, <2>8 DEF PendingInv
  <1>10. ActiveInv'
    <2>1. Len(<<>>) = 0
      OBVIOUS
    <2> QED
      BY <1>1, <2>1 DEF RuntimeInv, ActiveInv
  <1>11. SameModules' <=> SameModules
    BY <1>1 DEF SameModules
  <1>12. SameModules => context'.modules = context.modules
    BY <1>1, <1>2 DEF SameModules
  <1>13. ScheduleInv'
    <2>1. schedule = left.schedule
      BY <1>1 DEF LeftInv
    <2>2. SameModules => W = Wanted
      BY <1>2, <1>3, <1>12 DEF Wanted
    <2>3. SameModules => \A p \in FramePhases : ToSet(schedule'[p]) \subseteq W
      BY <1>1, <1>6, <2>2 DEF ScheduleInv
    <2> QED
      BY <1>1, <1>5, <1>6, <1>11, <2>1, <2>3 DEF ScheduleInv
  <1>14. LeftInv'
    BY <1>1 DEF LeftInv
  <1>15. ToldInv'
    BY <1>1, <1>12, NoneTold
  <1> QED
    BY <1>7, <1>8, <1>9, <1>10, <1>13, <1>14, <1>15 DEF RuntimeInv

(* Resolve's loop emits what IsNext says.                                  *)
LEMMA EmitIsNext ==
  ASSUME RuntimeInv, ResolveEmit
  PROVE  \E i \in 1 .. Len(ModuleList) :
            /\ IsNext(i, ToSet(order)) /\ order' = Append(order, ModuleList[i])
            /\ pending' = [k \in 1 .. Len(ModuleList) |->
                 IF k = i THEN Emitted
                 ELSE IF pending[k] # Emitted /\ DependsOn(ModuleList[k], ModuleList[i])
                      THEN pending[k] - 1 ELSE pending[k]]
  <1>0. setup \in Setups /\ context \in setup.contexts
    BY DEF RuntimeInv, RuntimeTypeOK
  <1>1. /\ pc = "resolving" /\ modules = ModuleList /\ Indices = 1 .. Len(ModuleList)
        /\ Len(ModuleList) \in Nat /\ IsFiniteSet(Wanted) /\ Wanted \subseteq Modules
        /\ \A k \in 1 .. Len(ModuleList) : ModuleList[k] \in Modules
    BY <1>0, SetupModules DEF ResolveEmit, RuntimeInv, RuntimeTypeOK, Indices
  <1>2. ASSUME NEW k \in 1 .. Len(ModuleList)
        PROVE  pending[k] = 0 <=> ModuleList[k] \notin ToSet(order) /\ ~Waits(ModuleList[k], ToSet(order))
    <2>1. PICK E, P : E = Entries(ModuleList[k]) /\ P = {d \in ToSet(order) : DependsOn(ModuleList[k], d)}
      OBVIOUS
    <2>2. ToSet(order) \in SUBSET Wanted
      BY <1>0, RunEmits DEF RuntimeInv, OrderInv
    <2>3. /\ Cardinality(E) \in Nat /\ Cardinality(P) \in Nat
          /\ Cardinality(P) = Cardinality(E) <=> ~Waits(ModuleList[k], ToSet(order))
      BY <1>0, <1>1, <2>1, <2>2, EntriesCountModules
    <2>4. pending[k] = IF ModuleList[k] \in ToSet(order) THEN -1 ELSE Cardinality(E) - Cardinality(P)
      BY <1>1, <2>1 DEF RuntimeInv, PendingInv, Emitted
    <2> QED
      BY <2>3, <2>4
  <1>3. Ready \in SUBSET Nat /\ Ready # {} /\ Ready \subseteq 1 .. Len(ModuleList)
    BY <1>1 DEF Ready, ResolveEmit, EmitNext
  <1>4. \E i \in Ready : \A k \in Ready : i <= k
    BY <1>3, LeastNumber
  <1>5. PICK i : i = CHOOSE j \in Ready : \A k \in Ready : j <= k
    OBVIOUS
  <1>6. i \in Ready /\ \A k \in Ready : i <= k
    BY <1>4, <1>5
  <1>7. i \in 1 .. Len(ModuleList) /\ pending[i] = 0
    BY <1>1, <1>6 DEF Ready
  <1>8. \A k \in 1 .. i - 1 : k \in 1 .. Len(ModuleList) /\ pending[k] # 0
    BY <1>1, <1>6, <1>7 DEF Ready
  <1>9. IsNext(i, ToSet(order))
    BY <1>2, <1>7, <1>8 DEF IsNext
  <1>10. /\ order' = Append(order, ModuleList[i])
         /\ pending' = [k \in 1 .. Len(ModuleList) |->
                 IF k = i THEN Emitted
                 ELSE IF pending[k] # Emitted /\ DependsOn(ModuleList[k], ModuleList[i])
                      THEN pending[k] - 1 ELSE pending[k]]
    BY <1>1, <1>5 DEF ResolveEmit, EmitNext
  <1> QED
    BY <1>7, <1>9, <1>10

LEMMA RunGrows ==
  ASSUME setup \in Setups, context \in setup.contexts, NEW o \in Seq(Modules), IsRun(o), NEW i, IsNext(i, ToSet(o))
  PROVE  Append(o, ModuleList[i]) \in Seq(Modules) /\ IsRun(Append(o, ModuleList[i]))
  <1>0. ModuleList[i] \in Modules
    BY SetupModules DEF IsNext
  <1>1. PICK m \in Modules, q \in Seq(Modules) : m = ModuleList[i] /\ q = Append(o, m)
    <2>1. PICK m \in Modules : m = ModuleList[i]
      BY <1>0
    <2>2. Append(o, m) \in Seq(Modules)
      OBVIOUS
    <2> QED
      BY <2>1, <2>2
  <1>2. Len(o) \in Nat /\ Len(q) = Len(o) + 1 /\ q[Len(o) + 1] = m /\ \A n \in 1 .. Len(o) : q[n] = o[n]
    BY <1>1
  <1>3. ASSUME NEW n \in 1 .. Len(q)
        PROVE  \E j \in 1 .. Len(ModuleList) : IsNext(j, First(q, n - 1)) /\ q[n] = ModuleList[j]
    <2>1. \A k \in 1 .. n - 1 : q[k] = o[k]
      BY <1>2
    <2>2. First(q, n - 1) = First(o, n - 1)
      BY <2>1 DEF First
    <2>3. CASE n \in 1 .. Len(o)
      BY <1>2, <2>2, <2>3 DEF IsRun
    <2>4. CASE n = Len(o) + 1
      <3>1. First(o, n - 1) = ToSet(o)
        BY <1>2, <2>4 DEF First, ToSet
      <3> QED
        BY <1>1, <1>2, <2>2, <2>4, <3>1 DEF IsNext
    <2> QED
      BY <1>2, <2>3, <2>4
  <1> QED
    BY <1>1, <1>3 DEF IsRun

(* What m depends on, before and after d0 is emitted.                      *)
LEMMA OneMoreReleased ==
  ASSUME NEW m, NEW S, IsFiniteSet(S), NEW d0, d0 \notin S
  PROVE  Cardinality({d \in S \cup {d0} : DependsOn(m, d)})
           = IF DependsOn(m, d0) THEN Cardinality({d \in S : DependsOn(m, d)}) + 1
                                 ELSE Cardinality({d \in S : DependsOn(m, d)})
  <1>1. PICK D : D = {d \in S : DependsOn(m, d)}
    OBVIOUS
  <1>2. D \in SUBSET S /\ IsFiniteSet(D)
    BY <1>1, FS_Subset
  <1>3. CASE DependsOn(m, d0)
    <2>1. {d \in S \cup {d0} : DependsOn(m, d)} = D \cup {d0} /\ d0 \notin D
      BY <1>1, <1>3
    <2>2. Cardinality(D \cup {d0}) = Cardinality(D) + 1
      BY <1>2, <2>1, FS_AddElement
    <2> QED
      BY <1>1, <1>3, <2>1, <2>2
  <1>4. CASE ~DependsOn(m, d0)
    <2>1. {d \in S \cup {d0} : DependsOn(m, d)} = D
      BY <1>1, <1>4
    <2> QED
      BY <1>1, <1>4, <2>1
  <1> QED
    BY <1>3, <1>4

LEMMA ResolveEmitKeeps ==
  ASSUME RuntimeInv, ResolveEmit
  PROVE  RuntimeInv'
  <1>1. /\ UNCHANGED <<setup, context, modules, activeModules, schedule, isInitialized, pc, told,
                       left, hasFailed>>
        /\ setup \in Setups /\ pc = "resolving" /\ activeModules = <<>>
        /\ context \in setup.contexts /\ RuntimeTypeOK /\ ScheduleInv /\ LeftInv /\ ToldInv
    BY DEF ResolveEmit, EmitNext, pastVars, RuntimeInv, ActiveInv, RuntimeTypeOK
  <1>2. PICK o \in Seq(Modules) : IsRun(o) /\ order = o
    BY DEF RuntimeInv, OrderInv
  <1>3. PICK i \in 1 .. Len(ModuleList) :
            /\ IsNext(i, ToSet(order)) /\ order' = Append(order, ModuleList[i])
            /\ pending' = [k \in 1 .. Len(ModuleList) |->
                 IF k = i THEN Emitted
                 ELSE IF pending[k] # Emitted /\ DependsOn(ModuleList[k], ModuleList[i])
                      THEN pending[k] - 1 ELSE pending[k]]
    BY EmitIsNext
  <1>4. PICK q \in Seq(Modules) : q = Append(o, ModuleList[i]) /\ IsRun(q) /\ order' = q
    BY <1>1, <1>2, <1>3, RunGrows
  <1>5. OrderInv'
    BY <1>1, <1>4, SameSetup DEF OrderInv
  <1>6. ModuleList[i] \in Wanted /\ ModuleList[i] \in Modules
    BY <1>1, SetupModules
  <1>7. ToSet(order') = ToSet(order) \cup {ModuleList[i]}
    BY <1>2, <1>4, <1>6, AppendElements
  <1>8. PendingInv'
    <2>1. PICK S : S = ToSet(order) /\ ModuleList[i] \notin S
      BY <1>3 DEF IsNext
    <2>0. IsFiniteSet(S) /\ S \in SUBSET Wanted
      <3>1. S \in SUBSET Wanted
        BY <1>1, <1>2, <2>1, RunEmits
      <3> QED
        BY <1>1, <3>1, SetupModules, FS_Subset
    <2>2. ASSUME NEW k \in 1 .. Len(ModuleList)
          PROVE  pending'[k] = IF ModuleList[k] \in S \cup {ModuleList[i]} THEN Emitted
                               ELSE Cardinality(Entries(ModuleList[k]))
                                      - Cardinality({d \in S \cup {ModuleList[i]} :
                                                       DependsOn(ModuleList[k], d)})
      <3>0. PICK P : P = {d \in S : DependsOn(ModuleList[k], d)}
        OBVIOUS
      <3>1. PICK all, old, new : /\ all = Cardinality(Entries(ModuleList[k])) /\ old = Cardinality(P)
                                 /\ new = Cardinality({d \in S \cup {ModuleList[i]} :
                                                          DependsOn(ModuleList[k], d)})
        OBVIOUS
      <3>2. ModuleList[k] \in Modules
        BY <1>1, SetupModules
      <3>3. new = IF DependsOn(ModuleList[k], ModuleList[i]) THEN old + 1 ELSE old
        BY <2>0, <2>1, <3>0, <3>1, OneMoreReleased
      <3>4. /\ all \in Nat /\ old \in Nat /\ old <= all
            /\ old = all <=> ~Waits(ModuleList[k], S)
        BY <1>1, <2>0, <3>0, <3>1, <3>2, EntriesCountModules
      <3>5. pending[k] = IF ModuleList[k] \in S THEN -1 ELSE all - old
        BY <1>1, <2>1, <3>0, <3>1 DEF RuntimeInv, PendingInv, Emitted
      <3>6. pending'[k] = IF k = i THEN -1
                          ELSE IF pending[k] # -1 /\ DependsOn(ModuleList[k], ModuleList[i])
                               THEN pending[k] - 1 ELSE pending[k]
        BY <1>3 DEF Emitted
      <3>7. k # i => ModuleList[k] # ModuleList[i]
        BY <1>1, SetupModules DEF Distinct
      <3>8. pending'[k] = IF ModuleList[k] \in S \cup {ModuleList[i]} THEN -1 ELSE all - new
        BY <3>3, <3>4, <3>5, <3>6, <3>7
      <3> QED
        BY <3>1, <3>8 DEF Emitted
    <2>3. pending' = [k \in 1 .. Len(ModuleList) |->
                        IF ModuleList[k] \in S \cup {ModuleList[i]} THEN Emitted
                        ELSE Cardinality(Entries(ModuleList[k]))
                               - Cardinality({d \in S \cup {ModuleList[i]} :
                                                DependsOn(ModuleList[k], d)})]
      <3>1. pending' = [k \in 1 .. Len(ModuleList) |-> pending'[k]]
        BY <1>3
      <3> QED
        BY <2>2, <3>1
    <2> QED
      BY <1>1, <1>7, <2>1, <2>3, SameSetup DEF PendingInv
  <1>9. RuntimeTypeOK'
    BY <1>1, SameSetup DEF RuntimeTypeOK
  <1>10. ActiveInv'
    <2>1. Len(<<>>) = 0 /\ Len(order') \in Nat
      BY <1>4
    <2> QED
      BY <1>1, <2>1 DEF RuntimeInv, ActiveInv
  <1>11. ScheduleInv'
    BY <1>1, SameSetup DEF ScheduleInv
  <1>12. ToldInv' /\ LeftInv'
    BY <1>1, SameTold DEF LeftInv
  <1> QED
    BY <1>5, <1>8, <1>9, <1>10, <1>11, <1>12 DEF RuntimeInv

LEMMA ResolveReturnKeeps ==
  ASSUME RuntimeInv, ResolveReturn
  PROVE  RuntimeInv'
  <1>1. /\ UNCHANGED <<setup, context, modules, order, activeModules, schedule, isInitialized, told,
                       left, hasFailed>>
        /\ setup \in Setups /\ pc = "resolving" /\ activeModules = <<>> /\ modules = ModuleList
        /\ pc' \in {"failed", "initializing"} /\ RuntimeTypeOK /\ ToldInv /\ LeftInv
    BY DEF ResolveReturn, graphVars, pastVars, RuntimeInv, ActiveInv, RuntimeTypeOK
  <1>2. pc' = "initializing" => Len(order) = Len(modules)
    BY DEF ResolveReturn, IsComplete
  <1>3. OrderInv' /\ PendingInv' /\ ScheduleInv'
    BY <1>1, SameOrder
  <1>4. RuntimeTypeOK'
    <2>1. pc' \in RuntimePcs /\ pc' # "down"
      BY <1>1 DEF RuntimePcs
    <2> QED
      BY <1>1, <2>1, SameSetup DEF RuntimeTypeOK
  <1>5. ActiveInv'
    BY <1>1, <1>2, SameSetup DEF RuntimeInv, ActiveInv
  <1>6. ToldInv' /\ LeftInv'
    <2>1. told = left.told
      BY <1>1 DEF LeftInv
    <2> QED
      BY <1>1, <2>1, SameTold, SameLeft
  <1> QED
    BY <1>3, <1>4, <1>5, <1>6 DEF RuntimeInv

-----------------------------------------------------------------------------
(* The active modules are different ones, all of the context.              *)
LEMMA ActiveModules ==
  ASSUME RuntimeInv, NEW o \in Seq(Modules), IsRun(o), order = o,
         NEW act \in Seq(Modules), act = activeModules
  PROVE  /\ Len(act) \in Nat /\ Len(act) <= Len(o) /\ \A i \in 1 .. Len(act) : act[i] = o[i]
         /\ Distinct(act) /\ ToSet(act) = First(o, Len(act)) /\ ToSet(act) \subseteq Wanted
  <1>1. Len(act) \in Nat /\ Len(o) \in Nat /\ Len(act) <= Len(o) /\ \A i \in 1 .. Len(act) : act[i] = o[i]
    BY DEF RuntimeInv, ActiveInv
  <1>2. Distinct(o) /\ ToSet(o) \subseteq Wanted
    BY RunEmits DEF RuntimeInv, RuntimeTypeOK
  <1>3. \A i \in 1 .. Len(act) : i \in 1 .. Len(o)
    BY <1>1
  <1>4. Distinct(act)
    BY <1>1, <1>2, <1>3 DEF Distinct
  <1>5. ToSet(act) = First(o, Len(act))
    BY <1>1 DEF ToSet, First
  <1>6. First(o, Len(act)) \subseteq ToSet(o)
    BY <1>3 DEF First, ToSet
  <1> QED
    BY <1>1, <1>2, <1>4, <1>5, <1>6

(* The module after the active ones comes, in every run, before those that *)
(* are neither active nor it.                                              *)
LEMMA NextIsBefore ==
  ASSUME setup \in Setups, context \in setup.contexts, NEW q \in Seq(Modules), IsRun(q), NEW n \in 0 .. Len(q) - 1,
         NEW m, m \notin First(q, n + 1)
  PROVE  Before(q[n + 1], m)
  <1> SUFFICES ASSUME NEW o \in Seq(Modules), IsRun(o), NEW k \in 1 .. Len(o), o[k] = m
               PROVE  q[n + 1] \in First(o, k - 1)
    BY DEF Before
  <1>1. Len(q) \in Nat /\ Len(o) \in Nat /\ n \in Nat /\ n + 1 \in 1 .. Len(q)
    OBVIOUS
  <1>2. CASE k <= n + 1
    <2>1. k \in 1 .. n + 1 /\ k <= Len(q)
      BY <1>1, <1>2
    <2>2. o[k] = q[k]
      BY <2>1, RunsAgree
    <2> QED
      BY <2>1, <2>2 DEF First
  <1>3. CASE ~(k <= n + 1)
    <2>1. n + 1 \in 1 .. k - 1 /\ n + 1 <= Len(o)
      BY <1>1, <1>3
    <2>2. q[n + 1] = o[n + 1]
      BY <1>1, <2>1, RunsAgree
    <2> QED
      BY <2>1, <2>2 DEF First
  <1> QED
    BY <1>2, <1>3

LEMMA InitializeModuleKeeps ==
  ASSUME RuntimeInv, InitializeModule
  PROVE  RuntimeInv'
  <1>1. /\ UNCHANGED <<setup, context, modules, order, schedule, isInitialized, pc, left, hasFailed>>
        /\ setup \in Setups /\ context \in setup.contexts /\ pc = "initializing" /\ modules = ModuleList
        /\ RuntimeTypeOK /\ ToldInv /\ LeftInv /\ activeModules \in Seq(Modules)
        /\ told \in [Modules -> SUBSET Modules]
    BY DEF InitializeModule, graphVars, pastVars, RuntimeInv, RuntimeTypeOK
  <1>2. PICK o \in Seq(Modules) : IsRun(o) /\ order = o
    BY DEF RuntimeInv, OrderInv
  <1>3. PICK act \in Seq(Modules) : act = activeModules
    BY <1>1
  <1>4. /\ Len(act) \in Nat /\ Len(act) <= Len(o) /\ \A i \in 1 .. Len(act) : act[i] = o[i]
        /\ Distinct(act) /\ ToSet(act) = First(o, Len(act)) /\ ToSet(act) \subseteq Wanted
    BY <1>2, <1>3, ActiveModules
  <1>5. PICK n \in Nat : n = Len(act) /\ n < Len(o) /\ n + 1 \in 1 .. Len(o) /\ n \in 0 .. Len(o) - 1
    <2>1. Len(act) < Len(o)
      BY <1>2, <1>3 DEF InitializeModule
    <2> QED
      BY <1>4, <2>1
  <1>6. PICK x \in Modules : x = o[n + 1] /\ x = NextToInitialize
    BY <1>2, <1>3, <1>5 DEF NextToInitialize
  <1>7. /\ activeModules' = Append(act, x)
        /\ told' = [e \in Modules |-> IF e \in Wanted /\ Declares(e, x) THEN told[e] \cup {x} ELSE told[e]]
    <2>1. ToSet(modules) = Wanted
      BY <1>1, SetupModules
    <2> QED
      BY <1>3, <1>6, <2>1 DEF InitializeModule, NotifyDependentsInitialized, Loaded
  <1>8. x \in Wanted /\ x \notin ToSet(act) /\ Wanted \subseteq Modules /\ First(o, n + 1) = ToSet(act) \cup {x}
    <2>1. Distinct(o) /\ ToSet(o) \subseteq Wanted
      BY <1>1, <1>2, RunEmits
    <2>2. x \in ToSet(o)
      <3>1. o[n + 1] \in {o[i] : i \in 1 .. Len(o)}
        BY <1>5
      <3> QED
        BY <1>6, <3>1 DEF ToSet
    <2>3. \A i \in 1 .. n : i \in 1 .. Len(o) /\ i # n + 1
      BY <1>5
    <2>4. x \notin First(o, n)
      BY <1>5, <1>6, <2>1, <2>3 DEF Distinct, First
    <2>5. 1 .. n + 1 = (1 .. n) \cup {n + 1}
      OBVIOUS
    <2>6. First(o, n + 1) = First(o, n) \cup {x}
      BY <1>6, <2>5 DEF First
    <2> QED
      BY <1>1, <1>4, <1>5, <2>1, <2>2, <2>4, <2>6, SetupModules
  <1>9. PICK A : A = ToSet(act) /\ ToSet(activeModules') = A \cup {x}
    BY <1>3, <1>7, AppendElements
  <1>10. OrderInv' /\ PendingInv' /\ ScheduleInv'
    BY <1>1, SameOrder
  <1>11. RuntimeTypeOK'
    <2>1. activeModules' \in Seq(Modules)
      BY <1>3, <1>7
    <2>2. told' \in [Modules -> SUBSET Modules]
      BY <1>1, <1>7
    <2> QED
      BY <1>1, <2>1, <2>2, SameSetup DEF RuntimeTypeOK
  <1>12. ActiveInv'
    <2>1. Len(activeModules') = n + 1 /\ n + 1 <= Len(o)
      BY <1>5, <1>7
    <2>2. \A i \in 1 .. n + 1 : activeModules'[i] = o[i]
      <3>1. activeModules'[n + 1] = x /\ \A i \in 1 .. n : activeModules'[i] = act[i]
        BY <1>5, <1>7
      <3>2. 1 .. n + 1 = (1 .. n) \cup {n + 1}
        OBVIOUS
      <3> QED
        BY <1>4, <1>5, <1>6, <3>1, <3>2
    <2> QED
      BY <1>1, <1>2, <2>1, <2>2, SameSetup DEF RuntimeInv, ActiveInv
  <1>13. \A m \in A : LET up == {d \in A : Declares(m, d)}
                      IN up \subseteq told[m] /\ told[m] \subseteq up \cup left.told[m]
    BY <1>1, <1>3, <1>9 DEF ToldInv
  <1>14. \A m \in Modules :
            /\ \A d \in A : m \in Wanted /\ Declares(m, d) => d \in told[m]
            /\ \A d \in told[m] : d \in left.told[m] \/ (m \in Wanted /\ d \in A /\ Declares(m, d))
    BY <1>1, <1>3, <1>9 DEF ToldInv
  <1>15. SameModules =>
            /\ \A m \in A : \A d \in told[m] : d \in A /\ Declares(m, d)
            /\ \A m \in Wanted \ A : \A d \in told[m] : Declares(m, d) /\ Before(d, m)
    BY <1>1, <1>3, <1>9 DEF ToldInv
  <1>16. \A m \in Modules :
            told'[m] = IF m \in Wanted /\ Declares(m, x) THEN told[m] \cup {x} ELSE told[m]
    BY <1>7
  <1>17. \A m \in A \cup {x} : LET up == {d \in A \cup {x} : Declares(m, d)}
                             IN up \subseteq told'[m] /\ told'[m] \subseteq up \cup left.told[m]
    <2> SUFFICES ASSUME NEW m \in A \cup {x}
                 PROVE  /\ \A d \in A \cup {x} : Declares(m, d) => d \in told'[m]
                        /\ \A d \in told'[m] : \/ d \in A \cup {x} /\ Declares(m, d)
                                               \/ d \in left.told[m]
      OBVIOUS
    <2>1. m \in Wanted /\ m \in Modules
      BY <1>4, <1>8, <1>9
    <2>2. told'[m] = IF Declares(m, x) THEN told[m] \cup {x} ELSE told[m]
      BY <1>16, <2>1
    <2> QED
      BY <1>14, <2>1, <2>2
  <1>18. \A m \in Modules :
            /\ \A d \in A \cup {x} : m \in Wanted /\ Declares(m, d) => d \in told'[m]
            /\ \A d \in told'[m] : \/ d \in left.told[m]
                                   \/ m \in Wanted /\ d \in A \cup {x} /\ Declares(m, d)
    BY <1>14, <1>16
  <1>19. ASSUME SameModules
         PROVE  /\ \A m \in A \cup {x} : \A d \in told'[m] : d \in A \cup {x} /\ Declares(m, d)
                /\ \A m \in Wanted \ (A \cup {x}) : \A d \in told'[m] : Declares(m, d) /\ Before(d, m)
    <2>1. ASSUME NEW m \in A \cup {x}, NEW d \in told[m] PROVE d \in A /\ Declares(m, d)
      <3>1. CASE m \in A
        BY <1>15, <1>19, <2>1, <3>1
      <3>2. CASE m = x
        <4>1. Declares(x, d) /\ Before(d, x)
          BY <1>8, <1>9, <1>15, <1>19, <2>1, <3>2
        <4>2. d \in First(o, (n + 1) - 1)
          BY <1>2, <1>5, <1>6, <4>1 DEF Before
        <4>3. (n + 1) - 1 = n
          OBVIOUS
        <4> QED
          BY <1>4, <1>5, <1>9, <3>2, <4>1, <4>2, <4>3
      <3> QED
        BY <2>1, <3>1, <3>2
    <2>2. A \cup {x} \subseteq Modules
      BY <1>4, <1>8, <1>9
    <2>3. \A m \in A \cup {x} : \A d \in told'[m] : d \in A \cup {x} /\ Declares(m, d)
      BY <1>16, <2>1, <2>2
    <2>4. ASSUME NEW m \in Wanted \ (A \cup {x}), NEW d \in told'[m]
          PROVE  Declares(m, d) /\ Before(d, m)
      <3>1. d \in told[m] \/ (d = x /\ Declares(m, x))
        BY <1>8, <1>16, <2>4
      <3>2. CASE d \in told[m]
        BY <1>15, <1>19, <2>4, <3>2
      <3>3. CASE d = x /\ Declares(m, x)
        <4>1. Before(x, m)
          BY <1>1, <1>2, <1>5, <1>6, <1>8, <1>9, <2>4, NextIsBefore
        <4> QED
          BY <3>3, <4>1
      <3> QED
        BY <3>1, <3>2, <3>3
    <2> QED
      BY <2>3, <2>4
  <1>20. ToldInv'
    <2>1. \A m, d : Declares(m, d)' <=> Declares(m, d)
      BY <1>1, SameSetup
    <2> QED
      BY <1>1, <1>9, <1>17, <1>18, <1>19, <2>1, SameSetup DEF ToldInv
  <1>21. LeftInv'
    BY <1>1 DEF LeftInv
  <1> QED
    BY <1>10, <1>11, <1>12, <1>20, <1>21 DEF RuntimeInv

LEMMA FailModuleKeeps ==
  ASSUME RuntimeInv, FailModule
  PROVE  RuntimeInv'
  <1>1. /\ UNCHANGED <<setup, context, modules, order, schedule, isInitialized, activeModules, left>>
        /\ setup \in Setups /\ context \in setup.contexts /\ hasFailed' /\ pc = "initializing" /\ pc' = "failed" /\ modules = ModuleList
        /\ RuntimeTypeOK /\ ToldInv /\ activeModules \in Seq(Modules)
        /\ told \in [Modules -> SUBSET Modules]
    BY DEF FailModule, graphVars, pastVars, RuntimeInv, RuntimeTypeOK
  <1>2. PICK o \in Seq(Modules) : IsRun(o) /\ order = o
    BY DEF RuntimeInv, OrderInv
  <1>3. PICK act \in Seq(Modules) : act = activeModules
    BY <1>1
  <1>4. /\ Len(act) \in Nat /\ ToSet(act) = First(o, Len(act)) /\ ToSet(act) \subseteq Wanted
    BY <1>2, <1>3, ActiveModules
  <1>5. PICK n \in Nat : n = Len(act) /\ n + 1 \in 1 .. Len(o)
    <2>1. Len(act) < Len(o)
      BY <1>2, <1>3 DEF FailModule
    <2> QED
      BY <1>4, <2>1
  <1>6. PICK x \in Modules : x = o[n + 1] /\ x = NextToInitialize
    BY <1>2, <1>3, <1>5 DEF NextToInitialize
  <1>7. told' = [told EXCEPT ![x] = {}]
    BY <1>6 DEF FailModule
  <1>8. x \notin ToSet(act)
    <2>1. Distinct(o)
      BY <1>1, <1>2, RunEmits
    <2>2. \A i \in 1 .. n : i \in 1 .. Len(o) /\ i # n + 1
      BY <1>5
    <2>3. x \notin First(o, n)
      BY <1>5, <1>6, <2>1, <2>2 DEF Distinct, First
    <2> QED
      BY <1>4, <1>5, <2>3
  <1>9. OrderInv' /\ PendingInv' /\ ScheduleInv'
    BY <1>1, SameOrder
  <1>10. RuntimeTypeOK'
    <2>1. told' \in [Modules -> SUBSET Modules]
      BY <1>1, <1>7
    <2>2. pc' \in RuntimePcs /\ pc' # "down"
      BY <1>1 DEF RuntimePcs
    <2> QED
      BY <1>1, <2>1, <2>2, SameSetup DEF RuntimeTypeOK
  <1>11. ActiveInv'
    BY <1>1, SameSetup DEF RuntimeInv, ActiveInv
  <1>12. \A m \in Modules : told'[m] = IF m = x THEN {} ELSE told[m]
    BY <1>1, <1>7
  <1>13. Wanted \subseteq Modules
    BY <1>1, SetupModules
  <1>14. ToSet(act) \subseteq Modules /\ (\A m \in ToSet(act) : told'[m] = told[m])
    BY <1>4, <1>8, <1>12, <1>13
  <1>15. \A m \in Modules : told'[m] \subseteq told[m]
    BY <1>12
  <1>16. ToldInv'
    <2>1. /\ \A m, d : Declares(m, d)' <=> Declares(m, d)
          /\ \A m, d : Before(d, m)' <=> Before(d, m)
          /\ Wanted' = Wanted /\ (SameModules' <=> SameModules)
      BY <1>1, SameSetup
    <2>2. \A m \in ToSet(act) : LET up == {d \in ToSet(act) : Declares(m, d)}
                               IN up \subseteq told'[m] /\ told'[m] \subseteq up \cup left.told[m]
      BY <1>1, <1>3, <1>14 DEF ToldInv
    <2>3. SameModules => \A m \in ToSet(act) : \A d \in told'[m] : d \in ToSet(act) /\ Declares(m, d)
      BY <1>1, <1>3, <1>14 DEF ToldInv
    <2>4. SameModules => \A m \in Wanted \ ToSet(act) : \A d \in told'[m] : Declares(m, d) /\ Before(d, m)
      BY <1>1, <1>3, <1>13, <1>15 DEF ToldInv
    <2> QED
      BY <1>1, <1>3, <2>1, <2>2, <2>3, <2>4 DEF ToldInv
  <1>17. LeftInv'
    BY <1>1 DEF LeftInv
  <1> QED
    BY <1>9, <1>10, <1>11, <1>16, <1>17 DEF RuntimeInv

LEMMA InitializeReturnKeeps ==
  ASSUME RuntimeInv, InitializeReturn
  PROVE  RuntimeInv'
  <1>1. /\ UNCHANGED <<setup, context, modules, order, schedule, activeModules, told, left, hasFailed>>
        /\ setup \in Setups /\ context \in setup.contexts /\ pc = "initializing" /\ pc' = "up" /\ isInitialized' = TRUE
        /\ Len(activeModules) = Len(order) /\ RuntimeTypeOK /\ ToldInv /\ LeftInv
    BY DEF InitializeReturn, graphVars, pastVars, RuntimeInv, RuntimeTypeOK
  <1>2. OrderInv' /\ PendingInv' /\ ScheduleInv'
    BY <1>1, SameOrder
  <1>3. RuntimeTypeOK'
    <2>1. pc' \in RuntimePcs /\ pc' # "down"
      BY <1>1 DEF RuntimePcs
    <2>2. isInitialized' \in BOOLEAN
      BY <1>1, Zenon
    <2> QED
      BY <1>1, <2>1, <2>2, SameSetup DEF RuntimeTypeOK
  <1>4. ActiveInv'
    BY <1>1, SameSetup DEF RuntimeInv, ActiveInv
  <1>5. ToldInv'
    BY <1>1, SameTold
  <1>6. LeftInv'
    <2> SUFFICES ASSUME ~hasFailed, NEW m \in Modules
                 PROVE  left.told[m] = {} /\ (m \notin ToSet(activeModules) => told[m] = {})
      BY <1>1 DEF LeftInv
    <2>1. left.told[m] = {}
      BY <1>1 DEF LeftInv
    <2>2. PICK o \in Seq(Modules), act \in Seq(Modules) : IsRun(o) /\ order = o /\ act = activeModules
      BY <1>1 DEF RuntimeInv, OrderInv, RuntimeTypeOK
    <2>3. ToSet(act) = First(o, Len(act)) /\ Len(act) = Len(o) /\ Len(o) = Len(ModuleList)
      BY <1>1, <2>2, ActiveModules DEF RuntimeInv, ActiveInv
    <2>4. ToSet(o) = Wanted /\ First(o, Len(o)) = ToSet(o)
      BY <1>1, <2>2, <2>3, RunEmits DEF First, ToSet
    <2>5. ASSUME m \notin ToSet(activeModules), NEW d \in told[m] PROVE FALSE
      <3>1. m \notin Wanted
        BY <2>2, <2>3, <2>4, <2>5
      <3>2. d \in left.told[m]
        BY <1>1, <2>5, <3>1 DEF ToldInv
      <3> QED
        BY <2>1, <3>2
    <2>6. m \notin ToSet(activeModules) => told[m] = {}
      BY <2>5
    <2> QED
      BY <2>1, <2>6
  <1> QED
    BY <1>2, <1>3, <1>4, <1>5, <1>6 DEF RuntimeInv

LEMMA UpdateKeeps ==
  ASSUME RuntimeInv, Update
  PROVE  RuntimeInv'
  <1>1. /\ UNCHANGED <<setup, context, modules, order, schedule, activeModules, told, pc, isInitialized,
                       left, hasFailed>>
        /\ pc = "up" /\ RuntimeTypeOK /\ ToldInv /\ LeftInv
    BY DEF Update, graphVars, pastVars, RuntimeInv
  <1>2. OrderInv' /\ PendingInv' /\ ScheduleInv'
    BY <1>1, SameOrder
  <1>3. RuntimeTypeOK'
    BY <1>1, SameSetup DEF RuntimeTypeOK
  <1>4. ActiveInv'
    BY <1>1, SameSetup DEF RuntimeInv, ActiveInv
  <1>5. ToldInv' /\ LeftInv'
    BY <1>1, SameTold, SameLeft
  <1> QED
    BY <1>2, <1>3, <1>4, <1>5 DEF RuntimeInv

LEMMA TerminateBeginKeeps ==
  ASSUME RuntimeInv, TerminateBegin
  PROVE  RuntimeInv'
  <1>1. /\ UNCHANGED <<setup, context, modules, order, schedule, activeModules, told, left, hasFailed>>
        /\ pc \in {"up", "failed"} /\ pc' = "terminating" /\ isInitialized' = FALSE
        /\ RuntimeTypeOK /\ ToldInv /\ LeftInv
    BY DEF TerminateBegin, graphVars, pastVars, RuntimeInv
  <1>2. OrderInv' /\ PendingInv' /\ ScheduleInv'
    BY <1>1, SameOrder
  <1>3. RuntimeTypeOK'
    <2>1. pc' \in RuntimePcs /\ pc' # "down" /\ pc # "down"
      BY <1>1 DEF RuntimePcs
    <2>2. isInitialized' \in BOOLEAN
      BY <1>1, Zenon
    <2> QED
      BY <1>1, <2>1, <2>2, SameSetup DEF RuntimeTypeOK
  <1>4. ActiveInv'
    <2>1. ~isInitialized'
      BY <1>1, Zenon
    <2> QED
      BY <1>1, <2>1, SameSetup DEF RuntimeInv, ActiveInv
  <1>5. ToldInv' /\ LeftInv'
    BY <1>1, SameTold, SameLeft
  <1> QED
    BY <1>2, <1>3, <1>4, <1>5 DEF RuntimeInv

LEMMA TerminateReturnKeeps ==
  ASSUME RuntimeInv, TerminateReturn
  PROVE  RuntimeInv'
  <1>1. /\ UNCHANGED <<setup, context, order, schedule, activeModules, told, isInitialized, hasFailed>>
        /\ left' = [schedule |-> schedule, told |-> told]
        /\ pc = "terminating" /\ pc' = "down" /\ modules' = <<>> /\ activeModules = <<>>
        /\ RuntimeTypeOK /\ ScheduleInv /\ LeftInv /\ ToldInv
    BY DEF TerminateReturn, RuntimeInv
  <1>2. left'.schedule = schedule /\ left'.told = told
    BY <1>1
  <1>3. OrderInv' /\ PendingInv'
    BY <1>1, SameSetup DEF RuntimeInv, OrderInv, PendingInv
  <1>4. ScheduleInv'
    BY <1>1, <1>2, SameSetup DEF ScheduleInv
  <1>5. LeftInv'
    <2>1. ToSet(activeModules) = {}
      BY <1>1 DEF ToSet
    <2> QED
      BY <1>1, <1>2, <2>1 DEF LeftInv
  <1>6. RuntimeTypeOK'
    <2>1. pc' \in RuntimePcs
      BY <1>1 DEF RuntimePcs
    <2> QED
      BY <1>1, <2>1, SameSetup DEF RuntimeTypeOK
  <1>7. ActiveInv'
    BY <1>1, SameSetup DEF RuntimeInv, ActiveInv
  <1>8. ToldInv'
    BY <1>1, NoneTold
  <1> QED
    BY <1>3, <1>4, <1>5, <1>6, <1>7, <1>8 DEF RuntimeInv

LEMMA FrontOfDistinct ==
  ASSUME NEW S, NEW s \in Seq(S), Distinct(s), s # <<>>
  PROVE  /\ Front(s) \in Seq(S) /\ Len(Front(s)) = Len(s) - 1 /\ Len(s) \in Nat /\ Len(s) # 0
         /\ \A i \in 1 .. Len(s) - 1 : Front(s)[i] = s[i]
         /\ Last(s) \in ToSet(s) /\ ToSet(Front(s)) = ToSet(s) \ {Last(s)}
  <1>1. Len(s) \in Nat /\ Len(s) # 0
    OBVIOUS
  <1>2. PICK n \in Nat : n = Len(s) - 1
    BY <1>1
  <1>3. PICK f : f = SubSeq(s, 1, n)
    OBVIOUS
  <1>4. f \in Seq(S) /\ Len(f) = n /\ \A i \in 1 .. n : f[i] = s[i]
    BY <1>1, <1>2, <1>3
  <1>5. Front(s) = f /\ Last(s) = s[n + 1] /\ Len(s) = n + 1
    BY <1>1, <1>2, <1>3 DEF Front, Last
  <1>6. Last(s) \in ToSet(s)
    BY <1>5 DEF ToSet
  <1>7. ToSet(f) = ToSet(s) \ {s[n + 1]}
    <2>1. \A i \in 1 .. n : i \in 1 .. n + 1 /\ i # n + 1
      OBVIOUS
    <2>2. \A i \in 1 .. n : s[i] # s[n + 1]
      BY <1>5, <2>1 DEF Distinct
    <2>3. 1 .. n + 1 = (1 .. n) \cup {n + 1}
      OBVIOUS
    <2> QED
      BY <1>4, <1>5, <2>2, <2>3 DEF ToSet
  <1> QED
    BY <1>1, <1>2, <1>4, <1>5, <1>6, <1>7

LEMMA TerminateLastKeeps ==
  ASSUME RuntimeInv, TerminateLast
  PROVE  RuntimeInv'
  <1>1. /\ UNCHANGED <<setup, context, modules, order, schedule, isInitialized, pc, left, hasFailed>>
        /\ setup \in Setups /\ context \in setup.contexts /\ pc = "terminating"
        /\ RuntimeTypeOK /\ ToldInv /\ LeftInv /\ activeModules \in Seq(Modules)
        /\ told \in [Modules -> SUBSET Modules]
    BY DEF TerminateLast, graphVars, pastVars, RuntimeInv, RuntimeTypeOK
  <1>2. PICK o \in Seq(Modules) : IsRun(o) /\ order = o
    BY DEF RuntimeInv, OrderInv
  <1>3. PICK act \in Seq(Modules) : act = activeModules
    BY <1>1
  <1>4. /\ Len(act) \in Nat /\ Len(act) <= Len(o) /\ \A i \in 1 .. Len(act) : act[i] = o[i]
        /\ Distinct(act) /\ ToSet(act) \subseteq Wanted
    BY <1>2, <1>3, ActiveModules
  <1>5. PICK f, x : f = Front(act) /\ x = Last(act) /\ act # <<>>
    BY <1>3 DEF TerminateLast
  <1>6. /\ f \in Seq(Modules) /\ Len(f) = Len(act) - 1 /\ Len(act) # 0
        /\ \A i \in 1 .. Len(act) - 1 : f[i] = act[i]
        /\ x \in ToSet(act) /\ ToSet(f) = ToSet(act) \ {x}
    BY <1>4, <1>5, FrontOfDistinct
  <1>7. /\ activeModules' = f
        /\ told' = [e \in Modules |-> IF e = x THEN {}
                                      ELSE IF e \in ToSet(act) /\ Declares(e, x)
                                           THEN told[e] \ {x} ELSE told[e]]
    BY <1>3, <1>5 DEF TerminateLast
  <1>8. OrderInv' /\ PendingInv' /\ ScheduleInv'
    BY <1>1, SameOrder
  <1>9. RuntimeTypeOK'
    <2>1. told' \in [Modules -> SUBSET Modules]
      BY <1>1, <1>7
    <2> QED
      BY <1>1, <1>6, <1>7, <2>1, SameSetup DEF RuntimeTypeOK
  <1>10. ActiveInv'
    <2>1. Len(f) <= Len(o) /\ \A i \in 1 .. Len(f) : f[i] = o[i]
      BY <1>4, <1>6
    <2> QED
      BY <1>1, <1>2, <1>7, <2>1, SameSetup DEF RuntimeInv, ActiveInv
  <1>11. Wanted \subseteq Modules
    BY <1>1, SetupModules
  <1>12. ToSet(act) \subseteq Modules /\ x \in Modules
    BY <1>4, <1>6, <1>11
  <1>13. \A m \in Modules : told'[m] = IF m = x THEN {}
                                       ELSE IF m \in ToSet(act) /\ Declares(m, x)
                                            THEN told[m] \ {x} ELSE told[m]
    BY <1>7
  <1>14. \A m \in ToSet(f) : LET up == {d \in ToSet(f) : Declares(m, d)}
                            IN up \subseteq told'[m] /\ told'[m] \subseteq up \cup left.told[m]
    <2> SUFFICES ASSUME NEW m \in ToSet(f)
                 PROVE  /\ \A d \in ToSet(f) : Declares(m, d) => d \in told'[m]
                        /\ \A d \in told'[m] : (d \in ToSet(f) /\ Declares(m, d)) \/ d \in left.told[m]
      OBVIOUS
    <2>1. m \in ToSet(act) /\ m # x /\ m \in Modules
      BY <1>6, <1>12
    <2>2. /\ \A d \in ToSet(act) : Declares(m, d) => d \in told[m]
          /\ \A d \in told[m] : (d \in ToSet(act) /\ Declares(m, d)) \/ d \in left.told[m]
      BY <1>1, <1>3, <2>1 DEF ToldInv
    <2>3. told'[m] = IF Declares(m, x) THEN told[m] \ {x} ELSE told[m]
      BY <1>13, <2>1
    <2> QED
      BY <1>6, <2>2, <2>3
  <1>15. SameModules =>
            /\ \A m \in ToSet(f) : \A d \in told'[m] : d \in ToSet(f) /\ Declares(m, d)
            /\ \A m \in Wanted \ ToSet(f) : \A d \in told'[m] : Declares(m, d) /\ Before(d, m)
    <2> SUFFICES ASSUME SameModules
                 PROVE  /\ \A m \in ToSet(f) : \A d \in told'[m] : d \in ToSet(f) /\ Declares(m, d)
                        /\ \A m \in Wanted \ ToSet(f) : \A d \in told'[m] : Declares(m, d) /\ Before(d, m)
      OBVIOUS
    <2>1. /\ \A m \in ToSet(act) : \A d \in told[m] : d \in ToSet(act) /\ Declares(m, d)
          /\ \A m \in Wanted \ ToSet(act) : \A d \in told[m] : Declares(m, d) /\ Before(d, m)
      BY <1>1, <1>3 DEF ToldInv
    <2>2. ASSUME NEW m \in ToSet(f), NEW d \in told'[m] PROVE d \in ToSet(f) /\ Declares(m, d)
      <3>1. m \in ToSet(act) /\ m # x /\ m \in Modules
        BY <1>6, <1>12
      <3>2. told'[m] = IF Declares(m, x) THEN told[m] \ {x} ELSE told[m]
        BY <1>13, <3>1
      <3> QED
        BY <1>6, <2>1, <2>2, <3>1, <3>2
    <2>3. ASSUME NEW m \in Wanted \ ToSet(f), NEW d \in told'[m] PROVE Declares(m, d) /\ Before(d, m)
      BY <1>6, <1>11, <1>13, <2>1, <2>3
    <2> QED
      BY <2>2, <2>3
  <1>16. ToldInv'
    <2>1. /\ \A m, d : Declares(m, d)' <=> Declares(m, d)
          /\ \A m, d : Before(d, m)' <=> Before(d, m)
          /\ Wanted' = Wanted /\ (SameModules' <=> SameModules)
      BY <1>1, SameSetup
    <2> QED
      BY <1>1, <1>7, <1>14, <1>15, <2>1 DEF ToldInv
  <1>17. LeftInv'
    <2>1. ASSUME ~hasFailed, NEW m \in Modules, m \notin ToSet(f) PROVE told'[m] = {}
      BY <1>1, <1>3, <1>6, <1>13, <2>1 DEF LeftInv
    <2> QED
      BY <1>1, <1>7, <2>1 DEF LeftInv
  <1> QED
    BY <1>8, <1>9, <1>10, <1>16, <1>17 DEF RuntimeInv

LEMMA SameRuntime ==
  ASSUME RuntimeInv, UNCHANGED vars
  PROVE  RuntimeInv'
  <1>1. UNCHANGED <<setup, context, modules, order, pending, schedule, activeModules, told, pc,
                  isInitialized, left, hasFailed>>
    BY DEF vars, graphVars, pastVars
  <1>2. OrderInv' /\ ScheduleInv' /\ PendingInv' /\ RuntimeTypeOK' /\ LeftInv'
    BY <1>1, SameSetup DEF RuntimeInv, OrderInv, ScheduleInv, PendingInv, RuntimeTypeOK, LeftInv
  <1>3. ActiveInv'
    BY <1>1, SameSetup DEF RuntimeInv, ActiveInv
  <1>4. ToldInv'
    <2>1. ToldInv
      BY DEF RuntimeInv
    <2>2. pc' = "initializing" => pc = "initializing"
      BY <1>1
    <2>3. UNCHANGED <<setup, context, told, activeModules, left>>
      BY <1>1
    <2>4. pc' = "initializing" => pc = "initializing" \/ (activeModules = <<>> /\ told = left.told)
      BY <2>2
    <2> QED
      BY <2>1, <2>3, <2>4, SameTold, Zenon
  <1> QED
    BY <1>2, <1>3, <1>4 DEF RuntimeInv

LEMMA RuntimeStep == RuntimeInv /\ [Next]_vars => RuntimeInv'
  <1> SUFFICES ASSUME RuntimeInv, [Next]_vars PROVE RuntimeInv'
    OBVIOUS
  <1>1. CASE Initialize
    BY <1>1, InitializeKeeps
  <1>2. CASE ResolveEmit
    BY <1>2, ResolveEmitKeeps
  <1>3. CASE ResolveReturn
    BY <1>3, ResolveReturnKeeps
  <1>4. CASE InitializeModule
    BY <1>4, InitializeModuleKeeps
  <1>5. CASE FailModule
    BY <1>5, FailModuleKeeps
  <1>6. CASE InitializeReturn
    BY <1>6, InitializeReturnKeeps
  <1>7. CASE Update
    BY <1>7, UpdateKeeps
  <1>8. CASE TerminateBegin
    BY <1>8, TerminateBeginKeeps
  <1>9. CASE TerminateLast
    BY <1>9, TerminateLastKeeps
  <1>10. CASE TerminateReturn
    BY <1>10, TerminateReturnKeeps
  <1>11. CASE UNCHANGED vars
    BY <1>11, SameRuntime
  <1> QED
    BY <1>1, <1>2, <1>3, <1>4, <1>5, <1>6, <1>7, <1>8, <1>9, <1>10, <1>11 DEF Next

LEMMA FrameRuntimeStep ==
  ASSUME [FrameNext]_frameVars
  PROVE  [Next]_vars
  <1>1. CASE Only("runtime", <<eventVars, freeListVars, arenaVars, memVars, parallelVars>>) /\ Next
    BY <1>1
  <1>2. CASE Only("events", <<vars, freeListVars, arenaVars, memVars, parallelVars>>) /\ EventNext
    BY <1>2 DEF Only
  <1>3. CASE Only("freeList", <<vars, eventVars, arenaVars, memVars, parallelVars>>) /\ FreeListNext
    BY <1>3 DEF Only
  <1>4. CASE Only("arena", <<vars, eventVars, freeListVars, memVars, parallelVars>>) /\ ArenaNext
    BY <1>4 DEF Only
  <1>5. CASE Only("memory", <<vars, eventVars, freeListVars, arenaVars, parallelVars>>) /\ MemNext
    BY <1>5 DEF Only
  <1>6. CASE Only("parallel", <<vars, eventVars, freeListVars, arenaVars, memVars>>) /\ ParallelNext
    BY <1>6 DEF Only
  <1>7. CASE UNCHANGED frameVars
    BY <1>7 DEF frameVars
  <1> QED
    BY <1>1, <1>2, <1>3, <1>4, <1>5, <1>6, <1>7 DEF FrameNext

(* CRuntime keeps its invariant, from boot to boot with any contexts: what *)
(* is emitted is a run of Resolve on the context's list, pending counts    *)
(* the entries, repeated ones too, that each module is not released from,  *)
(* the active modules are the first of the order, and what is scheduled or *)
(* told is of this boot or left by an earlier one.                         *)
THEOREM RuntimeInvariant == FrameSpec => []RuntimeInv
  <1>1. FrameInit => RuntimeInv
    BY RuntimeInitInv DEF FrameInit
  <1>2. RuntimeInv /\ [FrameNext]_frameVars => RuntimeInv'
    BY FrameRuntimeStep, RuntimeStep
  <1> QED
    BY <1>1, <1>2, PTL DEF FrameSpec

-----------------------------------------------------------------------------
LEMMA PlaceInList ==
  ASSUME setup \in Setups, context \in setup.contexts, NEW p \in 1 .. Len(ModuleList)
  PROVE  Place(ModuleList, ModuleList[p]) = p
  BY SetupModules DEF Place, Distinct

LEMMA InvOrderIsStable == RuntimeInv => OrderIsStable
  <1> SUFFICES ASSUME RuntimeInv, pc \in {"initializing", "up"}
               PROVE  /\ Len(order) = Len(modules) /\ ToSet(order) = Loaded
                      /\ \A i, k \in 1 .. Len(order) :
                           /\ DependsOn(order[i], order[k]) => k < i
                           /\ i < k /\ Place(modules, order[k]) < Place(modules, order[i])
                                => \E l \in i .. k - 1 : DependsOn(order[k], order[l])
    BY DEF OrderIsStable
  <1>1. setup \in Setups /\ context \in setup.contexts /\ modules = ModuleList /\ Len(order) = Len(ModuleList)
    BY DEF RuntimeInv, RuntimeTypeOK, ActiveInv
  <1>2. PICK o \in Seq(Modules) : IsRun(o) /\ order = o
    BY DEF RuntimeInv, OrderInv
  <1>3. /\ Distinct(o) /\ ToSet(o) = Wanted /\ Len(o) \in Nat
        /\ \A n \in 1 .. Len(o) : \A d \in Wanted : DependsOn(o[n], d) => d \in First(o, n - 1)
    BY <1>1, <1>2, RunEmits
  <1>4. ToSet(ModuleList) = Wanted /\ Wanted = {ModuleList[j] : j \in 1 .. Len(ModuleList)}
    BY <1>1, SetupModules
  <1>5. ASSUME NEW i \in 1 .. Len(o), NEW k \in 1 .. Len(o), DependsOn(o[i], o[k])
        PROVE  k < i
    <2>1. o[k] \in Wanted
      BY <1>3 DEF ToSet
    <2>2. PICK l \in 1 .. i - 1 : o[l] = o[k]
      BY <1>3, <1>5, <2>1 DEF First
    <2>3. l \in 1 .. Len(o)
      BY <1>3, <2>2
    <2>4. l = k
      BY <1>3, <2>2, <2>3 DEF Distinct
    <2> QED
      BY <1>3, <2>4
  <1>6. ASSUME NEW i \in 1 .. Len(o), NEW k \in 1 .. Len(o), i < k,
               Place(ModuleList, o[k]) < Place(ModuleList, o[i])
        PROVE  \E l \in i .. k - 1 : DependsOn(o[k], o[l])
    <2>1. o[i] \in Wanted /\ o[k] \in Wanted
      BY <1>3 DEF ToSet
    <2>2. PICK p \in 1 .. Len(ModuleList) : o[i] = ModuleList[p]
      BY <1>4, <2>1
    <2>3. PICK q \in 1 .. Len(ModuleList) : o[k] = ModuleList[q]
      BY <1>4, <2>1
    <2>4. Place(ModuleList, o[i]) = p /\ Place(ModuleList, o[k]) = q
      BY <1>1, <2>2, <2>3, PlaceInList
    <2> QED
      BY <1>1, <1>2, <1>6, <2>2, <2>3, <2>4, RunIsStable
  <1> QED
    BY <1>1, <1>2, <1>3, <1>4, <1>5, <1>6 DEF Loaded

(* What Resolve returns to Initialize is every module of the context once, *)
(* every ordering dependency before its dependent, and ties in the order   *)
(* of the context's list.                                                  *)
THEOREM ResolvedOrder == FrameSpec => []OrderIsStable
  BY RuntimeInvariant, InvOrderIsStable, PTL

LEMMA InvLifeIsOrdered == RuntimeInv => LifeIsOrdered
  <1> SUFFICES ASSUME RuntimeInv PROVE LifeIsOrdered
    OBVIOUS
  <1>1. setup \in Setups /\ context \in setup.contexts /\ activeModules \in Seq(Modules)
    BY DEF RuntimeInv, RuntimeTypeOK
  <1>2. PICK o \in Seq(Modules) : IsRun(o) /\ order = o
    BY DEF RuntimeInv, OrderInv
  <1>3. PICK act \in Seq(Modules) : act = activeModules
    BY <1>1
  <1>4. /\ Len(act) \in Nat /\ Len(act) <= Len(o) /\ \A i \in 1 .. Len(act) : act[i] = o[i]
        /\ ToSet(act) = First(o, Len(act))
    BY <1>2, <1>3, ActiveModules
  <1>5. Loaded \subseteq Wanted
    <2>1. CASE pc = "down"
      <3>1. ToSet(modules) = {}
        BY <2>1 DEF RuntimeInv, RuntimeTypeOK, ToSet
      <3> QED
        BY <3>1 DEF Loaded
    <2>2. CASE pc # "down"
      BY <1>1, <2>2, SetupModules DEF RuntimeInv, RuntimeTypeOK, Loaded
    <2> QED
      BY <2>1, <2>2
  <1>6. DependenciesAreUp
    <2> SUFFICES ASSUME NEW i \in 1 .. Len(act), NEW d \in Loaded, DependsOn(act[i], d)
                 PROVE  \E k \in 1 .. i - 1 : act[k] = d
      BY <1>3 DEF DependenciesAreUp
    <2>1. i \in 1 .. Len(o) /\ o[i] = act[i]
      BY <1>4
    <2>2. d \in First(o, i - 1)
      BY <1>1, <1>2, <1>5, <2>1, RunEmits
    <2>3. PICK k \in 1 .. i - 1 : o[k] = d
      BY <2>2 DEF First
    <2>4. k \in 1 .. Len(act)
      BY <1>4, <2>3
    <2> QED
      BY <1>4, <2>3, <2>4
  <1>7. ToldOfTheActive
    <2> SUFFICES ASSUME NEW m \in ToSet(act)
                 PROVE  LET up == {d \in ToSet(act) : Declares(m, d)}
                        IN /\ up \subseteq told[m]
                           /\ told[m] \subseteq up \cup left.told[m]
                           /\ told[m] # up => hasFailed /\ ~SameModules
      BY <1>3 DEF ToldOfTheActive
    <2>1. PICK up : up = {d \in ToSet(act) : Declares(m, d)}
      OBVIOUS
    <2>2. up \subseteq told[m] /\ told[m] \subseteq up \cup left.told[m]
      BY <1>3, <2>1 DEF RuntimeInv, ToldInv
    <2>3. SameModules => told[m] \subseteq up
      BY <1>3, <2>1 DEF RuntimeInv, ToldInv
    <2>4. m \in Modules
      BY <1>3 DEF ToSet
    <2>5. ~hasFailed => left.told[m] = {}
      BY <2>4 DEF RuntimeInv, LeftInv
    <2>6. ~(hasFailed /\ ~SameModules) => told[m] = up
      BY <2>2, <2>3, <2>5
    <2> QED
      BY <2>1, <2>2, <2>6
  <1>8. TickedAreUp
    <2> SUFFICES ASSUME isInitialized, NEW p \in FramePhases,
                        NEW m \in ToSet(schedule[p]) \ ToSet(activeModules)
                 PROVE  m \in ToSet(left.schedule[p]) /\ ~SameModules
      BY DEF TickedAreUp
    <2>1. pc = "up"
      BY DEF RuntimeInv, ActiveInv
    <2>2. Len(act) = Len(o) /\ Len(o) = Len(ModuleList)
      BY <1>2, <1>3, <2>1 DEF RuntimeInv, ActiveInv
    <2>3. ToSet(o) = Wanted
      BY <1>1, <1>2, <2>2, RunEmits
    <2>4. First(o, Len(o)) = ToSet(o)
      BY DEF First, ToSet
    <2> QED
      BY <1>3, <1>4, <2>2, <2>3, <2>4 DEF RuntimeInv, ScheduleInv
  <1> QED
    BY <1>6, <1>7, <1>8 DEF LifeIsOrdered

(* From a module's Initialize to its Terminate, after a failed boot and in *)
(* a later one with any context: its dependencies are up, it was told of   *)
(* all that is up, and what it was told of or is ticked besides was left   *)
(* by a boot that loaded other modules, or in another order; of nothing    *)
(* besides, if no module has failed.                                       *)
THEOREM ModulesLiveInOrder == FrameSpec => []LifeIsOrdered
  BY RuntimeInvariant, InvLifeIsOrdered, PTL

LEMMA StuckForCause ==
  ASSUME RuntimeInv, pc = "resolving", IsStuck
  PROVE  HasCycle \/ HasDuplicate
  <1>1. /\ setup \in Setups /\ context \in setup.contexts /\ modules = ModuleList
        /\ Len(order) < Len(ModuleList) /\ \A i \in 1 .. Len(ModuleList) : pending[i] # 0
    BY DEF IsStuck, Ready, Indices, RuntimeInv, RuntimeTypeOK
  <1>2. PICK o \in Seq(Modules) : IsRun(o) /\ order = o
    BY DEF RuntimeInv, OrderInv
  <1>3. /\ ToSet(ModuleList) = Wanted /\ Wanted = {ModuleList[j] : j \in 1 .. Len(ModuleList)}
        /\ Cardinality(Wanted) = Len(ModuleList) /\ Len(ModuleList) \in Nat
        /\ Wanted \subseteq Modules
    BY <1>1, SetupModules
  <1>4. PICK S : S = Wanted \ ToSet(o)
    OBVIOUS
  <1>5. Distinct(o) /\ ToSet(o) \subseteq Wanted
    BY <1>1, <1>2, RunEmits
  <1>6. S # {}
    <2> SUFFICES ASSUME S = {} PROVE FALSE
      OBVIOUS
    <2>1. ToSet(o) = Wanted
      BY <1>4, <1>5
    <2>2. Cardinality(ToSet(o)) = Len(o)
      BY <1>5, DistinctLength
    <2> QED
      BY <1>1, <1>2, <1>3, <2>1, <2>2
  <1>7. ASSUME NEW m \in S PROVE Repeats(m) \/ \E d \in S : DependsOn(m, d)
    <2>1. PICK k \in 1 .. Len(ModuleList) : m = ModuleList[k]
      BY <1>3, <1>4
    <2>2. PICK E, P : E = Entries(m) /\ P = {d \in ToSet(o) : DependsOn(m, d)}
      BY Zenon
    <2>3. pending[k] = Cardinality(E) - Cardinality(P)
      BY <1>2, <1>4, <2>1, <2>2 DEF RuntimeInv, PendingInv
    <2>4. m \in Modules
      BY <1>3, <1>4
    <2>5. /\ Cardinality(E) \in Nat /\ Cardinality(P) \in Nat
          /\ Cardinality(P) = Cardinality(E) <=> ~Waits(m, ToSet(o))
      <3>1. ToSet(o) \in SUBSET Wanted
        BY <1>5
      <3> QED
        BY <1>1, <2>2, <2>4, <3>1, EntriesCountModules
    <2>6. pending[k] # 0
      BY <1>1
    <2>7. Waits(m, ToSet(o))
      BY <2>3, <2>5, <2>6
    <2> QED
      BY <1>4, <2>7 DEF Waits
  <1>8. Loaded = Wanted
    BY <1>1, <1>3 DEF Loaded
  <1>9. CASE \E m \in S : Repeats(m)
    BY <1>4, <1>8, <1>9 DEF HasDuplicate, Repeats
  <1>10. CASE ~ \E m \in S : Repeats(m)
    <2>1. \A m \in S : \E d \in S : DependsOn(m, d)
      BY <1>7, <1>10
    <2>2. S \subseteq Wanted
      BY <1>4
    <2>3. S \in (SUBSET Loaded) \ {{}}
      BY <1>6, <1>8, <2>2, Zenon
    <2> QED
      BY <2>1, <2>3 DEF HasCycle
  <1> QED
    BY <1>9, <1>10

LEMMA CompleteWithoutCause ==
  ASSUME RuntimeInv, pc = "resolving", IsComplete
  PROVE  ~HasCycle /\ ~HasDuplicate
  <1>1. /\ setup \in Setups /\ context \in setup.contexts /\ modules = ModuleList
        /\ Len(order) = Len(ModuleList)
    BY DEF IsComplete, RuntimeInv, RuntimeTypeOK
  <1>2. PICK o \in Seq(Modules) : IsRun(o) /\ order = o
    BY DEF RuntimeInv, OrderInv
  <1>3. /\ ToSet(o) = Wanted /\ (\A n \in 1 .. Len(o) : ~Repeats(o[n]))
        /\ \A n \in 1 .. Len(o) : \A d \in Wanted : DependsOn(o[n], d) => d \in First(o, n - 1)
    BY <1>1, <1>2, RunEmits
  <1>4. Loaded = Wanted
    BY <1>1, SetupModules DEF Loaded
  <1>5. \A m \in Wanted : \E n \in 1 .. Len(o) : o[n] = m
    BY <1>3 DEF ToSet
  <1>6. ~HasDuplicate
    BY <1>3, <1>4, <1>5 DEF HasDuplicate, Repeats
  <1>7. ASSUME NEW S \in SUBSET Wanted, S # {}, \A m \in S : \E d \in S : DependsOn(m, d)
        PROVE  FALSE
    <2> DEFINE T == {n \in Nat : n \in 1 .. Len(o) /\ o[n] \in S}
    <2>1. T \in SUBSET Nat /\ T # {}
      BY <1>5, <1>7
    <2>2. PICK n \in T : \A k \in T : n <= k
      <3> HIDE DEF T
      <3> QED
        BY <2>1, LeastNumber
    <2>3. n \in 1 .. Len(o) /\ o[n] \in S
      BY <2>2
    <2>4. PICK d \in S : DependsOn(o[n], d)
      BY <1>7, <2>3
    <2>5. PICK k \in 1 .. n - 1 : o[k] = d
      BY <1>3, <2>3, <2>4 DEF First
    <2>6. k \in T /\ k < n
      BY <2>3, <2>4, <2>5
    <2> QED
      BY <2>2, <2>3, <2>6
  <1>8. ~HasCycle
    <2> SUFFICES ASSUME HasCycle PROVE FALSE
      OBVIOUS
    <2>1. PICK S : /\ S \in (SUBSET Loaded) \ {{}}
                   /\ \A m \in S : \E d \in S : DependsOn(m, d)
      BY DEF HasCycle
    <2>2. S \in SUBSET Wanted /\ S # {}
      BY <1>4, <2>1
    <2> QED
      BY <1>7, <2>1, <2>2, Zenon
  <1> QED
    BY <1>6, <1>8

(* Resolve refuses a valid set of modules exactly if some of them all wait *)
(* for one another, in a cycle of Required and Optional declarations, or   *)
(* if one of them so declares another twice.                               *)
THEOREM RefusalsAreExact == FrameSpec => RefusedForCause
  <1>1. RuntimeInv /\ [FrameNext]_frameVars =>
          [pc = "resolving" =>
             /\ pc' = "failed" => HasCycle \/ HasDuplicate
             /\ pc' = "initializing" => ~HasCycle /\ ~HasDuplicate]_vars
    <2> SUFFICES ASSUME RuntimeInv, [FrameNext]_frameVars, pc = "resolving",
                        pc' \in {"failed", "initializing"}
                 PROVE  /\ pc' = "failed" => HasCycle \/ HasDuplicate
                        /\ pc' = "initializing" => ~HasCycle /\ ~HasDuplicate
      OBVIOUS
    <2>1. Next
      BY FrameRuntimeStep DEF vars
    <2>2. ResolveReturn
      BY <2>1 DEF Next, Initialize, ResolveEmit, ResolveReturn, InitializeModule, FailModule,
           InitializeReturn, Update, TerminateBegin, TerminateLast, TerminateReturn
    <2>3. CASE IsStuck
      BY <2>2, <2>3, StuckForCause DEF ResolveReturn
    <2>4. CASE IsComplete /\ ~IsStuck
      BY <2>2, <2>4, CompleteWithoutCause DEF ResolveReturn
    <2> QED
      BY <2>2, <2>3, <2>4 DEF ResolveReturn
  <1> QED
    BY <1>1, RuntimeInvariant, PTL DEF RefusedForCause, FrameSpec

(***************************************************************************)
(* Events::Impl::CSystem: the lists behind a dispatch, the dispatches      *)
(* under way and the backlog of queued events.                             *)
(***************************************************************************)
\* A dispatch under way, and a queued event.
Frame == [at : {"walk", "call", "handler"}, rest : Seq(Nat), began : Nat]
Event == [id : Nat, type : Types]

EventTypeOK ==
    /\ handlers \in [Types -> Seq(Nat)] /\ snapshot \in [Types -> Seq(Nat)]
    /\ dirty \in [Types -> BOOLEAN]
    /\ numDead \in [Types -> Nat]
    /\ alive \subseteq Nat
    /\ subscriptions \subseteq [handle : Nat, type : Types]
    /\ nextHandle \in Nat
    /\ frames \in [Threads -> Seq(Frame)]
    /\ removedBy \in [Handles -> SUBSET Threads]

\* A list of handles given out before n, in the order they were.
IsList(list, n) == Ascending(list) /\ \A h \in Elements(list) : 1 <= h /\ h < n

\* The lists of a type, of which these are subscribed: what is in them and what is current.
SlotIsRight(hs, snap, isDirty, dead, living, subs, n) ==
    /\ IsList(hs, n) /\ IsList(snap, n)
    /\ ~isDirty => Elements(snap) = subs
    /\ dead = Cardinality(Elements(hs) \ living)
    /\ dead * 2 <= Len(hs)
    /\ Elements(hs) \cap living = subs

HandlersInv ==
    \A t \in Types : SlotIsRight(handlers[t], snapshot[t], dirty[t], numDead[t], alive,
                                 Subscribed(t), nextHandle)

\* A handle has one subscription, while it is alive.
SubscribedInv ==
    /\ 1 <= nextHandle /\ nextHandle <= MaxHandles + 1
    /\ alive = {s.handle : s \in subscriptions}
    /\ \A s, u \in subscriptions : s.handle = u.handle => s = u
    /\ \A h \in alive : 1 <= h /\ h < nextHandle

IsDispatch(f, n) ==
    /\ IsList(f.rest, f.began) /\ f.began <= n
    /\ f.at # "walk" => f.rest # <<>>

\* Only the innermost dispatch of a thread is not in a handler.
FramesInv ==
    \A th \in Threads : \A i \in 1 .. Len(frames[th]) :
       /\ IsDispatch(frames[th][i], nextHandle)
       /\ i < Len(frames[th]) => frames[th][i].at = "handler"

\* Nobody has removed what is alive or not given out.
RemovedInv == \A h \in Handles : h \in alive \/ h >= nextHandle => removedBy[h] = {}

BacklogInv ==
    /\ draining \in Seq(Event) /\ queue \in Seq(Event)
    /\ numQueued \in Nat /\ drainEnd \in Nat /\ lastDrained \in Nat
    /\ \A i \in 1 .. Len(draining) : draining[i].id = lastDrained + i
    /\ \A i \in 1 .. Len(queue) : queue[i].id = lastDrained + Len(draining) + i
    /\ drainEnd = lastDrained + Len(draining)
    /\ numQueued = drainEnd + Len(queue)

EventInv ==
    EventTypeOK /\ HandlersInv /\ SubscribedInv /\ FramesInv /\ RemovedInv
    /\ OwnUnsubscribeIsImmediate /\ BacklogInv

-----------------------------------------------------------------------------
(* What an Append, a compaction and a Tail make of a list.                 *)
LEMMA AppendList ==
  ASSUME NEW list \in Seq(Nat), NEW n \in Nat, 1 <= n, IsList(list, n)
  PROVE  /\ Append(list, n) \in Seq(Nat) /\ IsList(Append(list, n), n + 1)
         /\ Elements(Append(list, n)) = Elements(list) \cup {n}
         /\ Len(Append(list, n)) = Len(list) + 1
  <1>0. Append(list, n) \in Seq(Nat)
    OBVIOUS
  <1>1. PICK r \in Seq(Nat) : r = Append(list, n)
    BY <1>0
  <1>2. /\ Len(list) \in Nat /\ Len(r) = Len(list) + 1
        /\ \A i \in 1 .. Len(list) : r[i] = list[i]
        /\ r[Len(list) + 1] = n
    BY <1>1
  <1>3. 1 .. Len(r) = (1 .. Len(list)) \cup {Len(list) + 1}
    BY <1>2
  <1>4. Elements(r) = Elements(list) \cup {n}
    BY <1>1, AppendElements DEF Elements, ToSet
  <1>5. \A i \in 1 .. Len(list) : list[i] \in Nat /\ list[i] < n
    BY DEF IsList, Elements
  <1>6. Ascending(r)
    <2> SUFFICES ASSUME NEW i \in 1 .. Len(r), NEW j \in 1 .. Len(r), i < j PROVE r[i] < r[j]
      BY DEF Ascending
    <2>1. i \in 1 .. Len(list)
      BY <1>2
    <2>2. CASE j \in 1 .. Len(list)
      BY <1>2, <2>1, <2>2 DEF IsList, Ascending
    <2>3. CASE j = Len(list) + 1
      BY <1>2, <1>5, <2>1, <2>3
    <2> QED
      BY <1>3, <2>2, <2>3
  <1>7. \A h \in Elements(list) : h \in Nat /\ 1 <= h /\ h < n
    BY <1>5 DEF IsList, Elements
  <1>8. \A h \in Elements(r) : 1 <= h /\ h < n + 1
    BY <1>4, <1>7
  <1> QED
    BY <1>1, <1>2, <1>4, <1>6, <1>8 DEF IsList

LEMMA KeepList ==
  ASSUME NEW list \in Seq(Nat), NEW n, NEW S, IsList(list, n)
  PROVE  /\ Keep(list, S) \in Seq(Nat) /\ IsList(Keep(list, S), n)
         /\ Elements(Keep(list, S)) = Elements(list) \cap S
  <1>1. PICK r \in Seq(Nat) : r = Keep(list, S)
    BY KeepIsFilter
  <1>2. Elements(r) = Elements(list) \cap S
    <2>1. ToSet(r) = ToSet(list) \cap S
      BY <1>1, KeepElements, Zenon
    <2> QED
      BY <2>1 DEF Elements, ToSet
  <1>3. PICK f : IsFilter(r, f, list, S, Len(list))
    BY <1>1, KeepIsFilter
  <1>4. Ascending(r)
    <2> SUFFICES ASSUME NEW i \in 1 .. Len(r), NEW j \in 1 .. Len(r), i < j PROVE r[i] < r[j]
      BY DEF Ascending
    <2>1. f[i] \in 1 .. Len(list) /\ f[j] \in 1 .. Len(list) /\ f[i] < f[j]
      BY <1>3 DEF IsFilter
    <2>2. r[i] = list[f[i]] /\ r[j] = list[f[j]]
      BY <1>3 DEF IsFilter
    <2> QED
      BY <2>1, <2>2 DEF IsList, Ascending
  <1> QED
    BY <1>1, <1>2, <1>4 DEF IsList

LEMMA TailList ==
  ASSUME NEW list \in Seq(Nat), NEW n, IsList(list, n), list # <<>>
  PROVE  /\ Tail(list) \in Seq(Nat) /\ IsList(Tail(list), n)
         /\ Head(list) \in Elements(list)
  <1>0. Tail(list) \in Seq(Nat)
    OBVIOUS
  <1>1. PICK r \in Seq(Nat) : r = Tail(list)
    BY <1>0
  <1>2. /\ Len(list) \in Nat /\ Len(list) # 0 /\ Len(r) = Len(list) - 1
        /\ \A i \in 1 .. Len(r) : r[i] = list[i + 1]
    BY <1>1
  <1>3. \A i \in 1 .. Len(r) : i + 1 \in 1 .. Len(list) /\ i \in Nat
    BY <1>2
  <1>4. Ascending(r)
    <2> SUFFICES ASSUME NEW i \in 1 .. Len(r), NEW j \in 1 .. Len(r), i < j PROVE r[i] < r[j]
      BY DEF Ascending
    <2>1. i + 1 \in 1 .. Len(list) /\ j + 1 \in 1 .. Len(list) /\ i + 1 < j + 1
      BY <1>3
    <2> QED
      BY <1>2, <2>1 DEF IsList, Ascending
  <1>5. Elements(r) \subseteq Elements(list)
    BY <1>2, <1>3 DEF Elements
  <1>6. Head(list) = list[1] /\ 1 \in 1 .. Len(list)
    BY <1>2
  <1>7. Head(list) \in Elements(list)
    BY <1>6 DEF Elements
  <1> QED
    BY <1>1, <1>4, <1>5, <1>7 DEF IsList

LEMMA LongerList ==
  ASSUME NEW list \in Seq(Nat), NEW n \in Nat, NEW m \in Nat, IsList(list, n), n <= m
  PROVE  IsList(list, m)
  <1>1. \A h \in Elements(list) : h \in Nat
    BY DEF Elements
  <1> QED
    BY <1>1 DEF IsList

LEMMA ListIsFinite ==
  ASSUME NEW list \in Seq(Nat)
  PROVE  IsFiniteSet(Elements(list)) /\ Elements(list) \subseteq Nat
  <1>1. Elements(list) \subseteq Nat
    BY DEF Elements
  <1>2. IsFiniteSet(1 .. Len(list))
    BY FS_Interval
  <1>3. PICK f : f = [i \in 1 .. Len(list) |-> list[i]]
    OBVIOUS
  <1>4. f \in Surjection(1 .. Len(list), Elements(list))
    BY <1>3 DEF Surjection, Elements
  <1> QED
    BY <1>1, <1>2, <1>4, FS_Surjection

-----------------------------------------------------------------------------
(* What the operations make of the slot of a type.                         *)
LEMMA SlotSubscribed ==
  ASSUME NEW hs \in Seq(Nat), NEW snap \in Seq(Nat), NEW isDirty, NEW dead \in Nat,
         NEW living, NEW subs, NEW n \in Nat, 1 <= n, \A h \in living : h \in Nat /\ h < n,
         SlotIsRight(hs, snap, isDirty, dead, living, subs, n)
  PROVE  SlotIsRight(Append(hs, n), snap, TRUE, dead, living \cup {n}, subs \cup {n}, n + 1)
  <1>1. IsList(hs, n) /\ IsList(snap, n)
    BY DEF SlotIsRight
  <1>2. PICK r \in Seq(Nat) : /\ r = Append(hs, n) /\ IsList(r, n + 1)
                              /\ Elements(r) = Elements(hs) \cup {n} /\ Len(r) = Len(hs) + 1
    BY <1>1, AppendList
  <1>3. IsList(snap, n + 1)
    BY <1>1, LongerList
  <1>4. n \notin Elements(hs) /\ n \notin living
    <2>1. \A h \in Elements(hs) : h < n
      BY <1>1 DEF IsList
    <2> QED
      BY <2>1
  <1>5. /\ Elements(r) \ (living \cup {n}) = Elements(hs) \ living
        /\ Elements(r) \cap (living \cup {n}) = (Elements(hs) \cap living) \cup {n}
    BY <1>2, <1>4
  <1>6. dead * 2 <= Len(r)
    BY <1>2 DEF SlotIsRight
  <1>7. dead = Cardinality(Elements(r) \ (living \cup {n}))
    BY <1>5 DEF SlotIsRight
  <1>8. Elements(r) \cap (living \cup {n}) = subs \cup {n}
    BY <1>5 DEF SlotIsRight
  <1> QED
    BY <1>2, <1>3, <1>6, <1>7, <1>8 DEF SlotIsRight

LEMMA SlotBesideSubscribed ==
  ASSUME NEW hs \in Seq(Nat), NEW snap \in Seq(Nat), NEW isDirty, NEW dead,
         NEW living, NEW subs, NEW n \in Nat,
         SlotIsRight(hs, snap, isDirty, dead, living, subs, n)
  PROVE  SlotIsRight(hs, snap, isDirty, dead, living \cup {n}, subs, n + 1)
  <1>1. IsList(hs, n) /\ IsList(snap, n)
    BY DEF SlotIsRight
  <1>2. IsList(hs, n + 1) /\ IsList(snap, n + 1)
    BY <1>1, LongerList
  <1>3. n \notin Elements(hs)
    <2>1. \A h \in Elements(hs) : h < n
      BY <1>1 DEF IsList
    <2> QED
      BY <2>1
  <1>4. /\ Elements(hs) \ (living \cup {n}) = Elements(hs) \ living
        /\ Elements(hs) \cap (living \cup {n}) = Elements(hs) \cap living
    BY <1>3
  <1> QED
    BY <1>2, <1>4 DEF SlotIsRight

LEMMA SlotBesideUnsubscribed ==
  ASSUME NEW hs, NEW snap, NEW isDirty, NEW dead, NEW living, NEW subs, NEW n,
         NEW h, h \notin Elements(hs),
         SlotIsRight(hs, snap, isDirty, dead, living, subs, n)
  PROVE  SlotIsRight(hs, snap, isDirty, dead, living \ {h}, subs, n)
  <1>1. /\ Elements(hs) \ (living \ {h}) = Elements(hs) \ living
        /\ Elements(hs) \cap (living \ {h}) = Elements(hs) \cap living
    OBVIOUS
  <1> QED
    BY <1>1 DEF SlotIsRight

LEMMA SlotMarked ==
  ASSUME NEW hs \in Seq(Nat), NEW snap, NEW isDirty, NEW dead \in Nat, NEW living, NEW subs, NEW n,
         NEW h \in subs, ~((dead + 1) * 2 > Len(hs)),
         SlotIsRight(hs, snap, isDirty, dead, living, subs, n)
  PROVE  SlotIsRight(hs, snap, TRUE, dead + 1, living \ {h}, subs \ {h}, n)
  <1>1. h \in Elements(hs) /\ h \in living
    BY DEF SlotIsRight
  <1>2. PICK D : D = Elements(hs) \ living
    OBVIOUS
  <1>3. D \in SUBSET Elements(hs) /\ h \notin D
    BY <1>1, <1>2
  <1>4. IsFiniteSet(D)
    BY <1>3, ListIsFinite, FS_Subset
  <1>5. Cardinality(D \cup {h}) = Cardinality(D) + 1
    BY <1>3, <1>4, FS_AddElement
  <1>6. Elements(hs) \ (living \ {h}) = D \cup {h}
    BY <1>1, <1>2
  <1>7. dead + 1 = Cardinality(Elements(hs) \ (living \ {h}))
    BY <1>2, <1>5, <1>6 DEF SlotIsRight
  <1>8. (dead + 1) * 2 <= Len(hs)
    OBVIOUS
  <1>9. Elements(hs) \cap (living \ {h}) = subs \ {h}
    BY DEF SlotIsRight
  <1> QED
    BY <1>7, <1>8, <1>9 DEF SlotIsRight

LEMMA SlotCompacted ==
  ASSUME NEW hs \in Seq(Nat), NEW snap, NEW isDirty, NEW dead, NEW living, NEW subs, NEW n,
         NEW h, SlotIsRight(hs, snap, isDirty, dead, living, subs, n)
  PROVE  SlotIsRight(Keep(hs, living \ {h}), snap, TRUE, 0, living \ {h}, subs \ {h}, n)
  <1>1. IsList(hs, n)
    BY DEF SlotIsRight
  <1>2. PICK r \in Seq(Nat) : /\ r = Keep(hs, living \ {h}) /\ IsList(r, n)
                              /\ Elements(r) = Elements(hs) \cap (living \ {h})
    BY <1>1, KeepList
  <1>3. Elements(r) \ (living \ {h}) = {} /\ Elements(r) \cap (living \ {h}) = Elements(r)
    BY <1>2
  <1>4. Elements(r) = subs \ {h}
    BY <1>2 DEF SlotIsRight
  <1>5. 0 * 2 <= Len(r)
    OBVIOUS
  <1>6. Cardinality({}) = 0
    BY FS_EmptySet
  <1> QED
    BY <1>2, <1>3, <1>4, <1>5, <1>6 DEF SlotIsRight

LEMMA SlotRebuilt ==
  ASSUME NEW hs \in Seq(Nat), NEW snap, NEW isDirty, NEW dead, NEW living, NEW subs, NEW n,
         SlotIsRight(hs, snap, isDirty, dead, living, subs, n)
  PROVE  SlotIsRight(Keep(hs, living), Keep(hs, living), FALSE, 0, living, subs, n)
  <1>1. IsList(hs, n)
    BY DEF SlotIsRight
  <1>2. PICK r \in Seq(Nat) : /\ r = Keep(hs, living) /\ IsList(r, n)
                              /\ Elements(r) = Elements(hs) \cap living
    BY <1>1, KeepList
  <1>3. Elements(r) \ living = {} /\ Elements(r) \cap living = Elements(r)
    BY <1>2
  <1>4. Elements(r) = subs
    BY <1>2 DEF SlotIsRight
  <1>5. 0 * 2 <= Len(r)
    OBVIOUS
  <1>6. Cardinality({}) = 0
    BY FS_EmptySet
  <1> QED
    BY <1>2, <1>3, <1>4, <1>5, <1>6 DEF SlotIsRight

-----------------------------------------------------------------------------
(* What a step makes of a thread's dispatches: the innermost one goes on,  *)
(* a new one begins, or it ends.                                           *)
LEMMA TopChanges ==
  ASSUME EventTypeOK, FramesInv, NEW th \in Threads, frames[th] # <<>>,
         NEW f \in Frame, IsDispatch(f, nextHandle), nextHandle' = nextHandle,
         frames' = WithTop(th, f)
  PROVE  /\ frames' \in [Threads -> Seq(Frame)] /\ FramesInv'
         /\ \A o \in Threads \ {th} : frames'[o] = frames[o]
         /\ frames'[th] # <<>> /\ Len(frames'[th]) \in Nat /\ frames'[th][Len(frames'[th])] = f
  <1>1. PICK s \in Seq(Frame), n \in Nat : s = frames[th] /\ n = Len(s) /\ n # 0
    <2>1. frames[th] \in Seq(Frame)
      BY DEF EventTypeOK
    <2>2. PICK s \in Seq(Frame) : s = frames[th]
      BY <2>1
    <2>3. Len(s) \in Nat /\ Len(s) # 0
      BY <2>2
    <2> QED
      BY <2>2, <2>3
  <1>2. PICK r : r = [s EXCEPT ![n] = f]
    OBVIOUS
  <1>3. r \in Seq(Frame) /\ Len(r) = n /\ r[n] = f /\ \A i \in 1 .. n : i # n => r[i] = s[i]
    BY <1>1, <1>2
  <1>4. frames' = [frames EXCEPT ![th] = r]
    BY <1>1, <1>2 DEF WithTop
  <1>5. /\ frames' \in [Threads -> Seq(Frame)] /\ frames'[th] = r
        /\ \A o \in Threads \ {th} : frames'[o] = frames[o]
    BY <1>3, <1>4 DEF EventTypeOK
  <1>6. ASSUME NEW o \in Threads, NEW i \in 1 .. Len(frames'[o])
        PROVE  /\ IsDispatch(frames'[o][i], nextHandle)
               /\ i < Len(frames'[o]) => frames'[o][i].at = "handler"
    <2>1. CASE o # th
      BY <1>5, <1>6, <2>1 DEF FramesInv
    <2>2. CASE o = th /\ i = n
      BY <1>3, <1>5, <2>2
    <2>3. CASE o = th /\ i # n
      <3>1. i \in 1 .. Len(frames[th]) /\ i < Len(frames[th]) /\ frames'[o][i] = frames[th][i]
        BY <1>1, <1>3, <1>5, <1>6, <2>3
      <3> QED
        BY <3>1 DEF FramesInv
    <2> QED
      BY <2>1, <2>2, <2>3
  <1>7. FramesInv'
    <2>1. \A o \in Threads : \A i \in 1 .. Len(frames'[o]) :
             IsDispatch(frames'[o][i], nextHandle') /\ (i < Len(frames'[o]) => frames'[o][i].at = "handler")
      BY <1>6
    <2> QED
      BY <2>1 DEF FramesInv, IsDispatch, IsList, Ascending, Elements
  <1>8. r # <<>>
    BY <1>1, <1>3
  <1> QED
    BY <1>1, <1>3, <1>5, <1>7, <1>8

LEMMA DispatchBegins ==
  ASSUME EventTypeOK, FramesInv, NEW th \in Threads, frames[th] = <<>> \/ IsAt(th, "handler"),
         NEW f \in Frame, f.at = "walk", IsDispatch(f, nextHandle), nextHandle' = nextHandle,
         frames' = [frames EXCEPT ![th] = Append(@, f)]
  PROVE  /\ frames' \in [Threads -> Seq(Frame)] /\ FramesInv'
         /\ \A o \in Threads \ {th} : frames'[o] = frames[o]
         /\ ~ (frames'[th] # <<>> /\ frames'[th][Len(frames'[th])].at = "call")
  <1>1. PICK s \in Seq(Frame), n \in Nat : s = frames[th] /\ n = Len(s)
    <2>1. frames[th] \in Seq(Frame)
      BY DEF EventTypeOK
    <2>2. PICK s \in Seq(Frame) : s = frames[th]
      BY <2>1
    <2>3. Len(s) \in Nat
      OBVIOUS
    <2> QED
      BY <2>2, <2>3
  <1>2. PICK r : r = Append(s, f)
    OBVIOUS
  <1>3. r \in Seq(Frame) /\ Len(r) = n + 1 /\ r[n + 1] = f /\ \A i \in 1 .. n : r[i] = s[i]
    BY <1>1, <1>2
  <1>4. frames' = [frames EXCEPT ![th] = r]
    BY <1>1, <1>2
  <1>5. /\ frames' \in [Threads -> Seq(Frame)] /\ frames'[th] = r
        /\ \A o \in Threads \ {th} : frames'[o] = frames[o]
    BY <1>3, <1>4 DEF EventTypeOK
  <1>6. n # 0 => s[n].at = "handler"
    BY <1>1 DEF IsAt, Top
  <1>7. ASSUME NEW o \in Threads, NEW i \in 1 .. Len(frames'[o])
        PROVE  /\ IsDispatch(frames'[o][i], nextHandle)
               /\ i < Len(frames'[o]) => frames'[o][i].at = "handler"
    <2>1. CASE o # th
      BY <1>5, <1>7, <2>1 DEF FramesInv
    <2>2. CASE o = th /\ i = n + 1
      BY <1>3, <1>5, <2>2
    <2>3. CASE o = th /\ i # n + 1
      <3>1. i \in 1 .. Len(frames[th]) /\ frames'[o][i] = frames[th][i] /\ i \in 1 .. n
        BY <1>1, <1>3, <1>5, <1>7, <2>3
      <3>2. IsDispatch(frames[th][i], nextHandle) /\ (i < n => frames[th][i].at = "handler")
        BY <1>1, <3>1 DEF FramesInv
      <3>3. i < n \/ i = n
        BY <3>1
      <3>4. frames[th][i].at = "handler"
        BY <1>1, <1>6, <3>1, <3>2, <3>3
      <3> QED
        BY <3>1, <3>2, <3>4
    <2> QED
      BY <2>1, <2>2, <2>3
  <1>8. FramesInv'
    <2>1. \A o \in Threads : \A i \in 1 .. Len(frames'[o]) :
             IsDispatch(frames'[o][i], nextHandle') /\ (i < Len(frames'[o]) => frames'[o][i].at = "handler")
      BY <1>7
    <2> QED
      BY <2>1 DEF FramesInv, IsDispatch, IsList, Ascending, Elements
  <1>9. ~ (frames'[th] # <<>> /\ frames'[th][Len(frames'[th])].at = "call")
    BY <1>3, <1>5
  <1> QED
    BY <1>5, <1>8, <1>9

LEMMA DispatchEnds ==
  ASSUME EventTypeOK, FramesInv, NEW th \in Threads, frames[th] # <<>>, nextHandle' = nextHandle,
         frames' = [frames EXCEPT ![th] = SubSeq(@, 1, Len(@) - 1)]
  PROVE  /\ frames' \in [Threads -> Seq(Frame)] /\ FramesInv'
         /\ \A o \in Threads \ {th} : frames'[o] = frames[o]
         /\ ~ (frames'[th] # <<>> /\ frames'[th][Len(frames'[th])].at = "call")
  <1>1. PICK s \in Seq(Frame), n \in Nat : s = frames[th] /\ Len(s) = n + 1
    <2>1. frames[th] \in Seq(Frame)
      BY DEF EventTypeOK
    <2>2. PICK s \in Seq(Frame) : s = frames[th]
      BY <2>1
    <2>3. Len(s) - 1 \in Nat /\ Len(s) = (Len(s) - 1) + 1
      BY <2>2
    <2> QED
      BY <2>2, <2>3
  <1>2. PICK r : r = SubSeq(s, 1, n)
    OBVIOUS
  <1>3. r \in Seq(Frame) /\ Len(r) = n /\ \A i \in 1 .. n : r[i] = s[i]
    BY <1>1, <1>2
  <1>4. frames' = [frames EXCEPT ![th] = r]
    <2>1. Len(s) - 1 = n
      BY <1>1
    <2> QED
      BY <1>1, <1>2, <2>1
  <1>5. /\ frames' \in [Threads -> Seq(Frame)] /\ frames'[th] = r
        /\ \A o \in Threads \ {th} : frames'[o] = frames[o]
    BY <1>3, <1>4 DEF EventTypeOK
  <1>6. ASSUME NEW i \in 1 .. n
        PROVE  IsDispatch(r[i], nextHandle) /\ r[i].at = "handler"
    <2>1. i \in 1 .. Len(frames[th]) /\ i < Len(frames[th]) /\ r[i] = frames[th][i]
      BY <1>1, <1>3
    <2> QED
      BY <2>1 DEF FramesInv
  <1>7. ASSUME NEW o \in Threads, NEW i \in 1 .. Len(frames'[o])
        PROVE  /\ IsDispatch(frames'[o][i], nextHandle)
               /\ i < Len(frames'[o]) => frames'[o][i].at = "handler"
    <2>1. CASE o # th
      BY <1>5, <1>7, <2>1 DEF FramesInv
    <2>2. CASE o = th
      BY <1>3, <1>5, <1>6, <1>7, <2>2
    <2> QED
      BY <2>1, <2>2
  <1>8. FramesInv'
    <2>1. \A o \in Threads : \A i \in 1 .. Len(frames'[o]) :
             IsDispatch(frames'[o][i], nextHandle') /\ (i < Len(frames'[o]) => frames'[o][i].at = "handler")
      BY <1>7
    <2> QED
      BY <2>1 DEF FramesInv, IsDispatch, IsList, Ascending, Elements
  <1>9. ASSUME r # <<>> PROVE r[Len(r)].at # "call"
    <2>1. n \in 1 .. n
      BY <1>3, <1>9
    <2> QED
      BY <1>3, <1>6, <2>1
  <1> QED
    BY <1>5, <1>8, <1>9

(* A step after which a thread is not about to call leaves the others      *)
(* where they are.                                                         *)
LEMMA NoNewCall ==
  ASSUME OwnUnsubscribeIsImmediate, NEW th \in Threads, removedBy' = removedBy,
         \A o \in Threads \ {th} : frames'[o] = frames[o],
         ~ (frames'[th] # <<>> /\ frames'[th][Len(frames'[th])].at = "call")
  PROVE  OwnUnsubscribeIsImmediate'
  <1> SUFFICES ASSUME NEW o \in Threads, IsAt(o, "call")'
               PROVE  o \notin removedBy'[Head(Top(o)'.rest)]
    BY DEF OwnUnsubscribeIsImmediate
  <1>1. o # th
    BY DEF IsAt, Top
  <1>2. IsAt(o, "call") /\ Top(o)' = Top(o)
    BY <1>1 DEF IsAt, Top
  <1> QED
    BY <1>2 DEF OwnUnsubscribeIsImmediate

(* The innermost dispatch of a thread.                                     *)
LEMMA TopIsDispatch ==
  ASSUME EventTypeOK, FramesInv, NEW th \in Threads, frames[th] # <<>>
  PROVE  Top(th) \in Frame /\ IsDispatch(Top(th), nextHandle)
  <1>1. PICK s \in Seq(Frame) : s = frames[th]
    BY DEF EventTypeOK
  <1>2. Len(s) \in 1 .. Len(s) /\ s[Len(s)] \in Frame
    BY <1>1
  <1> QED
    BY <1>1, <1>2 DEF FramesInv, Top

LEMMA CallIsOfAHandle ==
  ASSUME EventTypeOK, FramesInv, SubscribedInv, NEW th \in Threads, IsAt(th, "call")
  PROVE  Head(Top(th).rest) \in Handles
  <1>1. PICK f \in Frame : f = Top(th) /\ IsDispatch(f, nextHandle) /\ f.at = "call"
    BY TopIsDispatch DEF IsAt
  <1>2. /\ f.rest \in Seq(Nat) /\ f.began \in Nat /\ f.rest # <<>>
        /\ IsList(f.rest, f.began) /\ f.began <= nextHandle
    BY <1>1 DEF Frame, IsDispatch
  <1>3. Head(f.rest) \in Elements(f.rest)
    BY <1>2, TailList
  <1>4. Elements(f.rest) \subseteq Nat
    BY <1>2 DEF Elements
  <1>5. 1 <= Head(f.rest) /\ Head(f.rest) < f.began /\ Head(f.rest) \in Nat
    BY <1>2, <1>3, <1>4 DEF IsList
  <1>6. nextHandle <= MaxHandles + 1 /\ nextHandle \in Nat /\ MaxHandles \in Nat
    BY EventAssumption DEF SubscribedInv, EventTypeOK
  <1> QED
    BY <1>1, <1>2, <1>5, <1>6 DEF Handles

-----------------------------------------------------------------------------
LEMMA SameBacklog ==
  ASSUME BacklogInv, UNCHANGED <<queue, draining, numQueued, drainEnd, lastDrained>>
  PROVE  BacklogInv'
  BY DEF BacklogInv

LEMMA SubscribeKeeps ==
  ASSUME EventInv, NEW th \in Threads, NEW t \in Types, Subscribe(th, t)
  PROVE  EventInv'
  <1>1. /\ EventTypeOK /\ HandlersInv /\ SubscribedInv /\ FramesInv /\ RemovedInv
        /\ OwnUnsubscribeIsImmediate /\ BacklogInv
        /\ nextHandle' = nextHandle + 1 /\ alive' = alive \cup {nextHandle}
        /\ handlers' = [handlers EXCEPT ![t] = Append(@, nextHandle)]
        /\ dirty' = [dirty EXCEPT ![t] = TRUE]
        /\ subscriptions' = subscriptions \cup {[handle |-> nextHandle, type |-> t]}
        /\ UNCHANGED <<snapshot, numDead, queue, draining, frames, numQueued, drainEnd,
                       lastDrained, removedBy>>
    BY DEF Subscribe, EventInv
  <1>2. PICK n \in Nat : n = nextHandle /\ 1 <= n /\ n <= MaxHandles
    BY <1>1 DEF Subscribe, EventTypeOK, SubscribedInv
  <1>3. \A h \in alive : h \in Nat /\ h < n
    BY <1>1, <1>2 DEF EventTypeOK, SubscribedInv
  <1>4. /\ Subscribed(t)' = Subscribed(t) \cup {n}
        /\ \A u \in Types \ {t} : Subscribed(u)' = Subscribed(u)
    <2>0. PICK x : x = [handle |-> n, type |-> t]
      OBVIOUS
    <2>1. x = [handle |-> n, type |-> t] /\ x.handle = n /\ x.type = t
      BY <2>0
    <2>2. subscriptions' = subscriptions \cup {x}
      BY <1>1, <1>2, <2>1
    <2> QED
      BY <2>1, <2>2 DEF Subscribed
  <1>5. EventTypeOK'
    <2>1. handlers' \in [Types -> Seq(Nat)]
      <3>1. Append(handlers[t], nextHandle) \in Seq(Nat)
        BY <1>1 DEF EventTypeOK
      <3> QED
        BY <1>1, <3>1 DEF EventTypeOK
    <2>2. dirty' \in [Types -> BOOLEAN]
      BY <1>1 DEF EventTypeOK
    <2>3. subscriptions' \subseteq [handle : Nat, type : Types]
      BY <1>1 DEF EventTypeOK
    <2>4. nextHandle' \in Nat /\ alive' \subseteq Nat
      BY <1>1 DEF EventTypeOK
    <2> QED
      BY <1>1, <2>1, <2>2, <2>3, <2>4 DEF EventTypeOK
  <1>6. HandlersInv'
    <2> SUFFICES ASSUME NEW u \in Types
                 PROVE  SlotIsRight(handlers'[u], snapshot'[u], dirty'[u], numDead'[u], alive',
                                    Subscribed(u)', nextHandle')
      BY DEF HandlersInv, SlotIsRight, IsList, Ascending, Elements
    <2>1. PICK hs \in Seq(Nat), snap \in Seq(Nat), isDirty \in BOOLEAN, dead \in Nat,
               living \in {alive}, subs \in {Subscribed(u)} :
            /\ hs = handlers[u] /\ snap = snapshot[u] /\ isDirty = dirty[u] /\ dead = numDead[u]
            /\ living = alive /\ subs = Subscribed(u)
      BY <1>1 DEF EventTypeOK
    <2>2. SlotIsRight(hs, snap, isDirty, dead, living, subs, n)
      BY <1>1, <1>2, <2>1 DEF HandlersInv
    <2>3. CASE u = t
      <3>1. SlotIsRight(Append(hs, n), snap, TRUE, dead, living \cup {n}, subs \cup {n}, n + 1)
        BY <1>2, <1>3, <2>1, <2>2, SlotSubscribed
      <3>2. /\ handlers'[u] = Append(hs, n) /\ snapshot'[u] = snap /\ dirty'[u] = TRUE
            /\ numDead'[u] = dead /\ alive' = living \cup {n} /\ Subscribed(u)' = subs \cup {n}
            /\ nextHandle' = n + 1
        BY <1>1, <1>2, <1>4, <2>1, <2>3 DEF EventTypeOK
      <3> QED
        BY <3>1, <3>2, Zenon
    <2>4. CASE u # t
      <3>1. SlotIsRight(hs, snap, isDirty, dead, living \cup {n}, subs, n + 1)
        BY <2>2, SlotBesideSubscribed
      <3>2. /\ handlers'[u] = hs /\ snapshot'[u] = snap /\ dirty'[u] = isDirty
            /\ numDead'[u] = dead /\ alive' = living \cup {n} /\ Subscribed(u)' = subs
            /\ nextHandle' = n + 1
        BY <1>1, <1>2, <1>4, <2>1, <2>4 DEF EventTypeOK
      <3> QED
        BY <3>1, <3>2, Zenon
    <2> QED
      BY <2>3, <2>4
  <1>7. SubscribedInv'
    <2>0. PICK x : x = [handle |-> n, type |-> t]
      OBVIOUS
    <2>1. x = [handle |-> n, type |-> t] /\ x.handle = n
      BY <2>0
    <2>2. subscriptions' = subscriptions \cup {x}
      BY <1>1, <1>2, <2>1
    <2>3. alive' = {s.handle : s \in subscriptions'}
      BY <1>1, <1>2, <2>1, <2>2 DEF SubscribedInv
    <2>4. \A s \in subscriptions : s.handle # n
      <3>1. \A s \in subscriptions : s.handle \in alive
        BY <1>1 DEF SubscribedInv
      <3>2. n \notin alive
        BY <1>3
      <3> QED
        BY <3>1, <3>2
    <2>5. \A s, u \in subscriptions' : s.handle = u.handle => s = u
      BY <1>1, <2>1, <2>2, <2>4 DEF SubscribedInv
    <2>6. 1 <= nextHandle' /\ nextHandle' <= MaxHandles + 1
      BY <1>1, <1>2, EventAssumption
    <2>7. \A h \in alive : 1 <= h
      BY <1>1 DEF SubscribedInv
    <2>8. \A h \in alive' : 1 <= h /\ h < nextHandle'
      BY <1>1, <1>2, <1>3, <2>7
    <2> QED
      BY <2>3, <2>5, <2>6, <2>8 DEF SubscribedInv
  <1>8. FramesInv'
    <2>1. ASSUME NEW o \in Threads, NEW i \in 1 .. Len(frames[o])
          PROVE  IsDispatch(frames[o][i], n + 1)
      <3>1. IsDispatch(frames[o][i], n)
        BY <1>1, <1>2 DEF FramesInv
      <3>2. frames[o][i].began \in Nat
        <4>1. frames[o] \in Seq(Frame)
          BY <1>1 DEF EventTypeOK
        <4>2. frames[o][i] \in Frame
          BY <4>1
        <4> QED
          BY <4>2 DEF Frame
      <3> QED
        BY <3>1, <3>2 DEF IsDispatch
    <2>2. \A o \in Threads : \A i \in 1 .. Len(frames[o]) :
             IsDispatch(frames[o][i], n + 1) /\ (i < Len(frames[o]) => frames[o][i].at = "handler")
      BY <1>1, <2>1 DEF FramesInv
    <2>3. \A o \in Threads : \A i \in 1 .. Len(frames'[o]) :
             IsDispatch(frames'[o][i], nextHandle') /\ (i < Len(frames'[o]) => frames'[o][i].at = "handler")
      BY <1>1, <1>2, <2>2
    <2> QED
      BY <2>3 DEF FramesInv, IsDispatch, IsList, Ascending, Elements
  <1>9. RemovedInv'
    <2> SUFFICES ASSUME NEW h \in Handles, h \in alive' \/ h >= nextHandle'
                 PROVE  removedBy'[h] = {}
      BY DEF RemovedInv
    <2>1. h \in Nat
      BY EventAssumption DEF Handles
    <2>2. h \in alive \/ h >= nextHandle
      BY <1>1, <1>2, <2>1
    <2> QED
      BY <1>1, <2>2 DEF RemovedInv
  <1>10. OwnUnsubscribeIsImmediate'
    BY <1>1 DEF OwnUnsubscribeIsImmediate, IsAt, Top
  <1>11. BacklogInv'
    BY <1>1, SameBacklog
  <1> QED
    BY <1>5, <1>6, <1>7, <1>8, <1>9, <1>10, <1>11 DEF EventInv

LEMMA UnsubscribeKeeps ==
  ASSUME EventInv, NEW th \in Threads, NEW s \in subscriptions, Unsubscribe(th, s)
  PROVE  EventInv'
  <1>1. /\ EventTypeOK /\ HandlersInv /\ SubscribedInv /\ FramesInv /\ RemovedInv
        /\ OwnUnsubscribeIsImmediate /\ BacklogInv /\ CanCall(th)
        /\ alive' = alive \ {s.handle}
        /\ dirty' = [dirty EXCEPT ![s.type] = TRUE]
        /\ subscriptions' = subscriptions \ {s}
        /\ removedBy' = [removedBy EXCEPT ![s.handle] = {th}]
        /\ UNCHANGED <<snapshot, nextHandle, queue, draining, frames, numQueued, drainEnd,
                       lastDrained>>
    BY DEF Unsubscribe, EventInv
  <1>2. PICK h \in Nat, t \in Types, n \in Nat : h = s.handle /\ t = s.type /\ n = nextHandle
    BY <1>1 DEF EventTypeOK
  <1>3. h \in alive /\ h < n /\ h \in Handles
    <2>1. h \in alive
      BY <1>1, <1>2 DEF SubscribedInv
    <2>2. 1 <= h /\ h < n /\ n <= MaxHandles + 1
      BY <1>1, <1>2, <2>1 DEF SubscribedInv
    <2> QED
      BY <2>1, <2>2, EventAssumption DEF Handles
  <1>4. /\ Subscribed(t)' = Subscribed(t) \ {h} /\ h \in Subscribed(t)
        /\ \A u \in Types \ {t} : Subscribed(u)' = Subscribed(u) /\ h \notin Subscribed(u)
    <2>1. \A u \in subscriptions : u.handle = h => u = s
      BY <1>1, <1>2 DEF SubscribedInv
    <2> QED
      BY <1>1, <1>2, <2>1 DEF Subscribed
  <1>5. \/ /\ (numDead[t] + 1) * 2 > Len(handlers[t])
           /\ handlers' = [handlers EXCEPT ![t] = Keep(handlers[t], alive \ {h})]
           /\ numDead' = [numDead EXCEPT ![t] = 0]
        \/ /\ ~((numDead[t] + 1) * 2 > Len(handlers[t]))
           /\ numDead' = [numDead EXCEPT ![t] = numDead[t] + 1]
           /\ handlers' = handlers
    BY <1>1, <1>2 DEF Unsubscribe, Compact
  <1>6. EventTypeOK'
    <2>1. handlers' \in [Types -> Seq(Nat)] /\ numDead' \in [Types -> Nat]
      <3>1. Keep(handlers[t], alive \ {h}) \in Seq(Nat)
        BY <1>1, KeepIsFilter DEF EventTypeOK
      <3>2. numDead[t] + 1 \in Nat
        BY <1>1 DEF EventTypeOK
      <3>3. handlers' \in [Types -> Seq(Nat)]
        BY <1>1, <1>5, <3>1 DEF EventTypeOK
      <3>4. numDead' \in [Types -> Nat]
        <4>1. PICK d \in Nat : numDead' = [numDead EXCEPT ![t] = d]
          BY <1>5, <3>2
        <4>2. numDead \in [Types -> Nat]
          BY <1>1 DEF EventTypeOK
        <4> QED
          BY <4>1, <4>2
      <3> QED
        BY <3>3, <3>4
    <2>2. dirty' \in [Types -> BOOLEAN]
      BY <1>1 DEF EventTypeOK
    <2>3. removedBy' \in [Handles -> SUBSET Threads]
      BY <1>1 DEF EventTypeOK
    <2> QED
      BY <1>1, <2>1, <2>2, <2>3 DEF EventTypeOK
  <1>7. HandlersInv'
    <2> SUFFICES ASSUME NEW u \in Types
                 PROVE  SlotIsRight(handlers'[u], snapshot'[u], dirty'[u], numDead'[u], alive',
                                    Subscribed(u)', nextHandle')
      BY DEF HandlersInv, SlotIsRight, IsList, Ascending, Elements
    <2>1. PICK hs \in Seq(Nat), snap \in Seq(Nat), isDirty \in BOOLEAN, dead \in Nat,
               living \in {alive}, subs \in {Subscribed(u)} :
            /\ hs = handlers[u] /\ snap = snapshot[u] /\ isDirty = dirty[u] /\ dead = numDead[u]
            /\ living = alive /\ subs = Subscribed(u)
      BY <1>1 DEF EventTypeOK
    <2>2. SlotIsRight(hs, snap, isDirty, dead, living, subs, n)
      BY <1>1, <1>2, <2>1 DEF HandlersInv
    <2>3. alive' = living \ {h} /\ nextHandle' = n /\ snapshot'[u] = snap
      BY <1>1, <1>2, <2>1
    <2>4. CASE u = t
      <3>1. dirty'[u] = TRUE /\ Subscribed(u)' = subs \ {h} /\ h \in subs
        BY <1>1, <1>2, <1>4, <2>1, <2>4 DEF EventTypeOK
      <3>2. CASE (dead + 1) * 2 > Len(hs)
        <4>1. SlotIsRight(Keep(hs, living \ {h}), snap, TRUE, 0, living \ {h}, subs \ {h}, n)
          BY <2>2, SlotCompacted
        <4>2. handlers'[u] = Keep(hs, living \ {h}) /\ numDead'[u] = 0
          BY <1>1, <1>5, <2>1, <2>4, <3>2 DEF EventTypeOK
        <4> QED
          BY <2>3, <3>1, <4>1, <4>2, Zenon
      <3>3. CASE ~((dead + 1) * 2 > Len(hs))
        <4>1. SlotIsRight(hs, snap, TRUE, dead + 1, living \ {h}, subs \ {h}, n)
          BY <2>2, <3>1, <3>3, SlotMarked
        <4>2. handlers'[u] = hs /\ numDead'[u] = dead + 1
          BY <1>1, <1>5, <2>1, <2>4, <3>3 DEF EventTypeOK
        <4> QED
          BY <2>3, <3>1, <4>1, <4>2, Zenon
      <3> QED
        BY <3>2, <3>3
    <2>5. CASE u # t
      <3>1. h \notin Elements(hs)
        <4>1. h \notin subs /\ h \in living
          BY <1>3, <1>4, <2>1, <2>5
        <4> QED
          BY <2>2, <4>1 DEF SlotIsRight
      <3>2. SlotIsRight(hs, snap, isDirty, dead, living \ {h}, subs, n)
        BY <2>2, <3>1, SlotBesideUnsubscribed
      <3>3. dirty'[u] = isDirty /\ Subscribed(u)' = subs /\ handlers'[u] = hs /\ numDead'[u] = dead
        BY <1>1, <1>2, <1>4, <1>5, <2>1, <2>5 DEF EventTypeOK
      <3> QED
        BY <2>3, <3>2, <3>3, Zenon
    <2> QED
      BY <2>4, <2>5
  <1>8. SubscribedInv'
    <2>1. \A u \in subscriptions : u.handle = h => u = s
      BY <1>1, <1>2 DEF SubscribedInv
    <2>2. alive' = {u.handle : u \in subscriptions'}
      BY <1>1, <1>2, <2>1 DEF SubscribedInv
    <2> QED
      BY <1>1, <2>2 DEF SubscribedInv
  <1>9. FramesInv'
    BY <1>1 DEF FramesInv
  <1>10. \A g \in Handles : removedBy'[g] = IF g = h THEN {th} ELSE removedBy[g]
    BY <1>1, <1>2 DEF EventTypeOK
  <1>11. RemovedInv'
    <2> SUFFICES ASSUME NEW g \in Handles, g \in alive' \/ g >= nextHandle'
                 PROVE  removedBy'[g] = {}
      BY DEF RemovedInv
    <2>1. g # h /\ (g \in alive \/ g >= nextHandle)
      BY <1>1, <1>2, <1>3
    <2> QED
      BY <1>1, <1>10, <2>1 DEF RemovedInv
  <1>12. OwnUnsubscribeIsImmediate'
    <2> SUFFICES ASSUME NEW o \in Threads, IsAt(o, "call")'
                 PROVE  o \notin removedBy'[Head(Top(o)'.rest)]
      BY DEF OwnUnsubscribeIsImmediate
    <2>1. IsAt(o, "call") /\ Top(o)' = Top(o)
      BY <1>1 DEF IsAt, Top
    <2>2. o # th
      BY <1>1, <2>1 DEF CanCall, IsAt
    <2>3. o \notin removedBy[Head(Top(o).rest)]
      BY <1>1, <2>1 DEF OwnUnsubscribeIsImmediate
    <2>4. Head(Top(o).rest) \in Handles
      BY <1>1, <2>1, CallIsOfAHandle
    <2> QED
      BY <1>10, <2>1, <2>2, <2>3, <2>4
  <1>13. BacklogInv'
    BY <1>1, SameBacklog
  <1> QED
    BY <1>6, <1>7, <1>8, <1>9, <1>11, <1>12, <1>13 DEF EventInv

(* EmitErased begins on a thread that may call it.                         *)
LEMMA BeginDispatchKeeps ==
  ASSUME EventInv, NEW th \in Threads, NEW t \in Types, frames[th] = <<>> \/ IsAt(th, "handler"),
         BeginDispatch(th, t), UNCHANGED <<alive, subscriptions, nextHandle, removedBy>>
  PROVE  EventTypeOK' /\ HandlersInv' /\ SubscribedInv' /\ FramesInv' /\ RemovedInv'
         /\ OwnUnsubscribeIsImmediate'
  <1>1. /\ EventTypeOK /\ HandlersInv /\ SubscribedInv /\ FramesInv /\ RemovedInv
        /\ OwnUnsubscribeIsImmediate
    BY DEF EventInv
  <1>2. PICK n \in Nat, hs \in Seq(Nat), snap \in Seq(Nat) :
           n = nextHandle /\ hs = handlers[t] /\ snap = snapshot[t]
    BY <1>1 DEF EventTypeOK
  <1>3. IsList(hs, n) /\ IsList(snap, n)
    BY <1>1, <1>2 DEF HandlersInv, SlotIsRight
  <1>4. PICK kept : kept = Keep(hs, alive)
    OBVIOUS
  <1>5. kept \in Seq(Nat) /\ IsList(kept, n)
    BY <1>2, <1>3, <1>4, KeepList
  <1>6. \/ /\ handlers' = [handlers EXCEPT ![t] = kept] /\ snapshot' = [snapshot EXCEPT ![t] = kept]
           /\ dirty' = [dirty EXCEPT ![t] = FALSE] /\ numDead' = [numDead EXCEPT ![t] = 0]
        \/ UNCHANGED <<handlers, snapshot, dirty, numDead>>
    <2>1. CASE dirty[t]
      <3>1. handlers' = [handlers EXCEPT ![t] = kept]
        BY <1>2, <1>4, <2>1 DEF BeginDispatch, GetSnapshot, Compact
      <3>2. handlers'[t] = kept
        BY <1>1, <3>1 DEF EventTypeOK
      <3> QED
        BY <2>1, <3>1, <3>2 DEF BeginDispatch, GetSnapshot
    <2>2. CASE ~dirty[t]
      BY <2>2 DEF BeginDispatch, GetSnapshot
    <2> QED
      BY <2>1, <2>2
  <1>7. PICK now : now = snapshot'[t]
    OBVIOUS
  <1>8. now \in {kept, snap}
    BY <1>1, <1>2, <1>6, <1>7 DEF EventTypeOK
  <1>9. now \in Seq(Nat) /\ IsList(now, n)
    BY <1>3, <1>5, <1>8
  <1>10. PICK f : f = [at |-> "walk", rest |-> now, began |-> n]
    OBVIOUS
  <1>11. f \in Frame /\ f.at = "walk" /\ f.rest = now /\ f.began = n
    BY <1>9, <1>10 DEF Frame
  <1>12. IsDispatch(f, nextHandle)
    BY <1>2, <1>9, <1>11 DEF IsDispatch
  <1>13. frames' = [frames EXCEPT ![th] = Append(@, f)]
    BY <1>2, <1>7, <1>10 DEF BeginDispatch
  <1>14. /\ frames' \in [Threads -> Seq(Frame)] /\ FramesInv'
         /\ \A o \in Threads \ {th} : frames'[o] = frames[o]
         /\ ~ (frames'[th] # <<>> /\ frames'[th][Len(frames'[th])].at = "call")
    BY <1>1, <1>11, <1>12, <1>13, DispatchBegins
  <1>15. OwnUnsubscribeIsImmediate'
    BY <1>1, <1>14, NoNewCall
  <1>16. EventTypeOK'
    <2>1. handlers' \in [Types -> Seq(Nat)] /\ snapshot' \in [Types -> Seq(Nat)]
      <3>1. handlers \in [Types -> Seq(Nat)] /\ snapshot \in [Types -> Seq(Nat)]
        BY <1>1 DEF EventTypeOK
      <3>2. handlers' \in {handlers, [handlers EXCEPT ![t] = kept]}
        BY <1>6
      <3>3. snapshot' \in {snapshot, [snapshot EXCEPT ![t] = kept]}
        BY <1>6
      <3>4. handlers' \in [Types -> Seq(Nat)]
        BY <1>5, <3>1, <3>2
      <3>5. snapshot' \in [Types -> Seq(Nat)]
        BY <1>5, <3>1, <3>3
      <3> QED
        BY <3>4, <3>5
    <2>2. dirty' \in [Types -> BOOLEAN]
      BY <1>1, <1>6 DEF EventTypeOK
    <2>3. numDead' \in [Types -> Nat]
      <3>1. numDead' \in {numDead, [numDead EXCEPT ![t] = 0]}
        BY <1>6
      <3>2. numDead \in [Types -> Nat]
        BY <1>1 DEF EventTypeOK
      <3> QED
        BY <3>1, <3>2
    <2> QED
      BY <1>1, <1>14, <2>1, <2>2, <2>3 DEF EventTypeOK
  <1>17. HandlersInv'
    <2> SUFFICES ASSUME NEW u \in Types
                 PROVE  SlotIsRight(handlers'[u], snapshot'[u], dirty'[u], numDead'[u], alive',
                                    Subscribed(u)', nextHandle')
      BY DEF HandlersInv, SlotIsRight, IsList, Ascending, Elements
    <2>1. SlotIsRight(handlers[u], snapshot[u], dirty[u], numDead[u], alive, Subscribed(u), nextHandle)
      BY <1>1 DEF HandlersInv
    <2>2. Subscribed(u)' = Subscribed(u) /\ alive' = alive /\ nextHandle' = nextHandle
      BY DEF Subscribed
    <2>3. CASE handlers'[u] = handlers[u] /\ snapshot'[u] = snapshot[u] /\ dirty'[u] = dirty[u]
               /\ numDead'[u] = numDead[u]
      BY <2>1, <2>2, <2>3, Zenon
    <2>4. CASE u = t /\ handlers'[u] = kept /\ snapshot'[u] = kept /\ dirty'[u] = FALSE /\ numDead'[u] = 0
      <3>1. PICK isDirty, dead, living, subs : isDirty = dirty[t] /\ dead = numDead[t] /\ living = alive
                                               /\ subs = Subscribed(t)
        OBVIOUS
      <3>2. SlotIsRight(hs, snap, isDirty, dead, living, subs, n)
        BY <1>2, <2>1, <2>4, <3>1
      <3>3. SlotIsRight(kept, kept, FALSE, 0, living, subs, n)
        BY <1>4, <3>1, <3>2, SlotRebuilt
      <3> QED
        BY <1>2, <2>2, <2>4, <3>1, <3>3, Zenon
    <2>5. \/ handlers'[u] = handlers[u] /\ snapshot'[u] = snapshot[u] /\ dirty'[u] = dirty[u]
             /\ numDead'[u] = numDead[u]
          \/ u = t /\ handlers'[u] = kept /\ snapshot'[u] = kept /\ dirty'[u] = FALSE /\ numDead'[u] = 0
      BY <1>1, <1>6 DEF EventTypeOK
    <2> QED
      BY <2>3, <2>4, <2>5
  <1>18. SubscribedInv' /\ RemovedInv'
    BY <1>1 DEF SubscribedInv, RemovedInv
  <1> QED
    BY <1>14, <1>15, <1>16, <1>17, <1>18

LEMMA EmitKeeps ==
  ASSUME EventInv, NEW th \in Threads, NEW t \in Types, Emit(th, t)
  PROVE  EventInv'
  <1>1. /\ frames[th] = <<>> \/ IsAt(th, "handler")
        /\ BeginDispatch(th, t) /\ UNCHANGED <<alive, subscriptions, nextHandle, removedBy>>
        /\ UNCHANGED <<queue, draining, numQueued, drainEnd, lastDrained>>
    BY DEF Emit, CanCall
  <1>2. EventTypeOK' /\ HandlersInv' /\ SubscribedInv' /\ FramesInv' /\ RemovedInv'
        /\ OwnUnsubscribeIsImmediate'
    BY <1>1, BeginDispatchKeeps
  <1>3. BacklogInv'
    BY <1>1, SameBacklog DEF EventInv
  <1> QED
    BY <1>2, <1>3 DEF EventInv

(* What a step of a dispatch leaves alone.                                 *)
LEMMA OnlyFrames ==
  ASSUME EventInv, frames' \in [Threads -> Seq(Frame)], FramesInv', OwnUnsubscribeIsImmediate',
         UNCHANGED <<handlers, snapshot, dirty, numDead, alive, subscriptions, nextHandle, queue,
                     draining, numQueued, drainEnd, lastDrained, removedBy>>
  PROVE  EventInv'
  <1>1. EventTypeOK'
    BY DEF EventInv, EventTypeOK
  <1>2. HandlersInv'
    <2>1. \A u : Subscribed(u)' = Subscribed(u)
      BY DEF Subscribed
    <2> SUFFICES ASSUME NEW u \in Types
                 PROVE  SlotIsRight(handlers'[u], snapshot'[u], dirty'[u], numDead'[u], alive',
                                    Subscribed(u)', nextHandle')
      BY DEF HandlersInv, SlotIsRight, IsList, Ascending, Elements
    <2> QED
      BY <2>1, Zenon DEF EventInv, HandlersInv
  <1>3. SubscribedInv' /\ RemovedInv'
    BY DEF EventInv, SubscribedInv, RemovedInv
  <1>4. BacklogInv'
    BY SameBacklog DEF EventInv
  <1> QED
    BY <1>1, <1>2, <1>3, <1>4 DEF EventInv

LEMMA TestAliveKeeps ==
  ASSUME EventInv, NEW th \in Threads, TestAlive(th)
  PROVE  EventInv'
  <1>1. EventTypeOK /\ FramesInv /\ RemovedInv /\ SubscribedInv /\ OwnUnsubscribeIsImmediate
    BY DEF EventInv
  <1>2. PICK f \in Frame : f = Top(th) /\ f.at = "walk" /\ f.rest # <<>> /\ IsDispatch(f, nextHandle)
    BY <1>1, TopIsDispatch DEF TestAlive, IsAt
  <1>3. /\ f.rest \in Seq(Nat) /\ f.began \in Nat /\ IsList(f.rest, f.began) /\ f.began <= nextHandle
        /\ frames[th] # <<>>
    BY <1>2 DEF Frame, IsDispatch, TestAlive, IsAt
  <1>4. /\ Tail(f.rest) \in Seq(Nat) /\ IsList(Tail(f.rest), f.began) /\ Head(f.rest) \in Elements(f.rest)
    BY <1>2, <1>3, TailList
  <1>5. UNCHANGED <<handlers, snapshot, dirty, numDead, alive, subscriptions, nextHandle, queue,
                    draining, numQueued, drainEnd, lastDrained, removedBy>>
    BY DEF TestAlive
  <1>6. CASE Head(f.rest) \in alive
    <2>1. PICK g : g = [f EXCEPT !.at = "call"]
      OBVIOUS
    <2>2. g \in Frame /\ g.at = "call" /\ g.rest = f.rest /\ g.began = f.began
      BY <2>1 DEF Frame
    <2>3. IsDispatch(g, nextHandle)
      BY <1>2, <1>3, <2>2 DEF IsDispatch
    <2>4. frames' = WithTop(th, g)
      BY <1>2, <1>6, <2>1 DEF TestAlive
    <2>5. /\ frames' \in [Threads -> Seq(Frame)] /\ FramesInv'
          /\ \A o \in Threads \ {th} : frames'[o] = frames[o]
          /\ frames'[th] # <<>> /\ frames'[th][Len(frames'[th])] = g
      BY <1>1, <1>3, <1>5, <2>2, <2>3, <2>4, TopChanges
    <2>6. OwnUnsubscribeIsImmediate'
      <3> SUFFICES ASSUME NEW o \in Threads, IsAt(o, "call")'
                   PROVE  o \notin removedBy'[Head(Top(o)'.rest)]
        BY DEF OwnUnsubscribeIsImmediate
      <3>1. CASE o = th
        <4>1. Top(o)' = g
          BY <2>5, <3>1 DEF Top
        <4>2. Head(f.rest) \in Handles
          <5>1. Head(f.rest) \in Nat /\ 1 <= Head(f.rest) /\ Head(f.rest) < nextHandle
            BY <1>1, <1>6 DEF SubscribedInv, EventTypeOK
          <5> QED
            BY <1>1, <5>1, EventAssumption DEF SubscribedInv, EventTypeOK, Handles
        <4>3. removedBy[Head(f.rest)] = {}
          BY <1>1, <1>6, <4>2 DEF RemovedInv
        <4> QED
          BY <1>5, <2>2, <4>1, <4>3
      <3>2. CASE o # th
        <4>1. IsAt(o, "call") /\ Top(o)' = Top(o)
          BY <2>5, <3>2 DEF IsAt, Top
        <4> QED
          BY <1>1, <1>5, <4>1 DEF OwnUnsubscribeIsImmediate
      <3> QED
        BY <3>1, <3>2
    <2> QED
      BY <1>5, <2>5, <2>6, OnlyFrames
  <1>7. CASE Head(f.rest) \notin alive
    <2>1. PICK g : g = [f EXCEPT !.rest = Tail(f.rest)]
      OBVIOUS
    <2>2. g \in Frame /\ g.at = "walk" /\ g.rest = Tail(f.rest) /\ g.began = f.began
      BY <1>2, <1>4, <2>1 DEF Frame
    <2>3. IsDispatch(g, nextHandle)
      BY <1>3, <1>4, <2>2 DEF IsDispatch
    <2>4. frames' = WithTop(th, g)
      BY <1>2, <1>7, <2>1 DEF TestAlive
    <2>5. /\ frames' \in [Threads -> Seq(Frame)] /\ FramesInv'
          /\ \A o \in Threads \ {th} : frames'[o] = frames[o]
          /\ frames'[th] # <<>> /\ frames'[th][Len(frames'[th])] = g
      BY <1>1, <1>3, <1>5, <2>2, <2>3, <2>4, TopChanges
    <2>6. OwnUnsubscribeIsImmediate'
      BY <1>1, <1>5, <2>2, <2>5, NoNewCall
    <2> QED
      BY <1>5, <2>5, <2>6, OnlyFrames
  <1> QED
    BY <1>6, <1>7

LEMMA CallHandlerKeeps ==
  ASSUME EventInv, NEW th \in Threads, CallHandler(th)
  PROVE  EventInv'
  <1>1. EventTypeOK /\ FramesInv /\ OwnUnsubscribeIsImmediate
    BY DEF EventInv
  <1>2. PICK f \in Frame : f = Top(th) /\ f.at = "call" /\ IsDispatch(f, nextHandle)
    BY <1>1, TopIsDispatch DEF CallHandler, IsAt
  <1>3. frames[th] # <<>>
    BY DEF CallHandler, IsAt
  <1>4. UNCHANGED <<handlers, snapshot, dirty, numDead, alive, subscriptions, nextHandle, queue,
                    draining, numQueued, drainEnd, lastDrained, removedBy>>
    BY DEF CallHandler
  <1>5. PICK g : g = [f EXCEPT !.at = "handler"]
    OBVIOUS
  <1>6. g \in Frame /\ g.at = "handler" /\ g.rest = f.rest /\ g.began = f.began
    BY <1>5 DEF Frame
  <1>7. IsDispatch(g, nextHandle)
    BY <1>2, <1>6 DEF IsDispatch
  <1>8. frames' = WithTop(th, g)
    BY <1>2, <1>5 DEF CallHandler
  <1>9. /\ frames' \in [Threads -> Seq(Frame)] /\ FramesInv'
        /\ \A o \in Threads \ {th} : frames'[o] = frames[o]
        /\ frames'[th] # <<>> /\ frames'[th][Len(frames'[th])] = g
    BY <1>1, <1>3, <1>4, <1>6, <1>7, <1>8, TopChanges
  <1>10. OwnUnsubscribeIsImmediate'
    BY <1>1, <1>4, <1>6, <1>9, NoNewCall
  <1> QED
    BY <1>4, <1>9, <1>10, OnlyFrames

LEMMA HandlerReturnsKeeps ==
  ASSUME EventInv, NEW th \in Threads, HandlerReturns(th)
  PROVE  EventInv'
  <1>1. EventTypeOK /\ FramesInv /\ OwnUnsubscribeIsImmediate
    BY DEF EventInv
  <1>2. PICK f \in Frame : f = Top(th) /\ f.at = "handler" /\ IsDispatch(f, nextHandle)
    BY <1>1, TopIsDispatch DEF HandlerReturns, IsAt
  <1>3. /\ f.rest \in Seq(Nat) /\ f.began \in Nat /\ IsList(f.rest, f.began) /\ f.began <= nextHandle
        /\ frames[th] # <<>> /\ f.rest # <<>>
    BY <1>2 DEF Frame, IsDispatch, HandlerReturns, IsAt
  <1>4. Tail(f.rest) \in Seq(Nat) /\ IsList(Tail(f.rest), f.began)
    BY <1>3, TailList
  <1>5. UNCHANGED <<handlers, snapshot, dirty, numDead, alive, subscriptions, nextHandle, queue,
                    draining, numQueued, drainEnd, lastDrained, removedBy>>
    BY DEF HandlerReturns
  <1>6. PICK g : g = [f EXCEPT !.at = "walk", !.rest = Tail(f.rest)]
    OBVIOUS
  <1>7. g \in Frame /\ g.at = "walk" /\ g.rest = Tail(f.rest) /\ g.began = f.began
    BY <1>4, <1>6 DEF Frame
  <1>8. IsDispatch(g, nextHandle)
    BY <1>3, <1>4, <1>7 DEF IsDispatch
  <1>9. frames' = WithTop(th, g)
    BY <1>2, <1>6 DEF HandlerReturns
  <1>10. /\ frames' \in [Threads -> Seq(Frame)] /\ FramesInv'
         /\ \A o \in Threads \ {th} : frames'[o] = frames[o]
         /\ frames'[th] # <<>> /\ frames'[th][Len(frames'[th])] = g
    BY <1>1, <1>3, <1>5, <1>7, <1>8, <1>9, TopChanges
  <1>11. OwnUnsubscribeIsImmediate'
    BY <1>1, <1>5, <1>7, <1>10, NoNewCall
  <1> QED
    BY <1>5, <1>10, <1>11, OnlyFrames

LEMMA EmitReturnsKeeps ==
  ASSUME EventInv, NEW th \in Threads, EmitReturns(th)
  PROVE  EventInv'
  <1>1. EventTypeOK /\ FramesInv /\ OwnUnsubscribeIsImmediate
    BY DEF EventInv
  <1>2. UNCHANGED <<handlers, snapshot, dirty, numDead, alive, subscriptions, nextHandle, queue,
                    draining, numQueued, drainEnd, lastDrained, removedBy>>
    BY DEF EmitReturns
  <1>3. /\ frames' \in [Threads -> Seq(Frame)] /\ FramesInv'
        /\ \A o \in Threads \ {th} : frames'[o] = frames[o]
        /\ ~ (frames'[th] # <<>> /\ frames'[th][Len(frames'[th])].at = "call")
    BY <1>1, DispatchEnds DEF EmitReturns, IsAt
  <1>4. OwnUnsubscribeIsImmediate'
    BY <1>1, <1>2, <1>3, NoNewCall
  <1> QED
    BY <1>2, <1>3, <1>4, OnlyFrames

-----------------------------------------------------------------------------
LEMMA OnlyBacklog ==
  ASSUME EventInv, BacklogInv',
         UNCHANGED <<handlers, snapshot, dirty, numDead, alive, subscriptions, nextHandle, frames,
                     removedBy>>
  PROVE  EventInv'
  <1>1. EventTypeOK'
    BY DEF EventInv, EventTypeOK
  <1>2. HandlersInv'
    <2>1. \A u : Subscribed(u)' = Subscribed(u)
      BY DEF Subscribed
    <2> SUFFICES ASSUME NEW u \in Types
                 PROVE  SlotIsRight(handlers'[u], snapshot'[u], dirty'[u], numDead'[u], alive',
                                    Subscribed(u)', nextHandle')
      BY DEF HandlersInv, SlotIsRight, IsList, Ascending, Elements
    <2> QED
      BY <2>1, Zenon DEF EventInv, HandlersInv
  <1>3. SubscribedInv' /\ RemovedInv'
    BY DEF EventInv, SubscribedInv, RemovedInv
  <1>4. FramesInv'
    BY DEF EventInv, FramesInv
  <1>5. OwnUnsubscribeIsImmediate'
    BY DEF EventInv, OwnUnsubscribeIsImmediate, IsAt, Top
  <1> QED
    BY <1>1, <1>2, <1>3, <1>4, <1>5 DEF EventInv

LEMMA QueueEmitKeeps ==
  ASSUME EventInv, NEW th \in Threads, NEW t \in Types, QueueEmit(th, t)
  PROVE  EventInv'
  <1>1. /\ BacklogInv /\ numQueued' = numQueued + 1
        /\ queue' = Append(queue, [id |-> numQueued + 1, type |-> t])
        /\ UNCHANGED <<draining, drainEnd, lastDrained>>
        /\ UNCHANGED <<handlers, snapshot, dirty, numDead, alive, subscriptions, nextHandle, frames,
                       removedBy>>
    BY DEF QueueEmit, EventInv
  <1>2. PICK q \in Seq(Event), n \in Nat : q = queue /\ n = Len(q)
    <2>1. queue \in Seq(Event) /\ Len(queue) \in Nat
      BY <1>1 DEF BacklogInv
    <2> QED
      BY <2>1
  <1>3. PICK e : e = [id |-> numQueued + 1, type |-> t]
    OBVIOUS
  <1>4. e \in Event /\ e.id = numQueued + 1
    BY <1>1, <1>3 DEF Event, BacklogInv
  <1>5. PICK r : r = Append(q, e)
    OBVIOUS
  <1>6. r \in Seq(Event) /\ Len(r) = n + 1 /\ r[n + 1] = e /\ \A i \in 1 .. n : r[i] = q[i]
    BY <1>2, <1>4, <1>5
  <1>7. queue' = r
    BY <1>1, <1>2, <1>3, <1>5
  <1>8. PICK last \in Nat, k \in Nat : last = lastDrained /\ k = Len(draining)
    <2>1. lastDrained \in Nat /\ Len(draining) \in Nat
      BY <1>1 DEF BacklogInv
    <2> QED
      BY <2>1
  <1>9. numQueued = last + k + n /\ \A i \in 1 .. n : q[i].id = last + k + i
    BY <1>1, <1>2, <1>8 DEF BacklogInv
  <1>10. ASSUME NEW i \in 1 .. n + 1 PROVE r[i].id = last + k + i
    <2>1. CASE i \in 1 .. n
      BY <1>6, <1>9, <2>1
    <2>2. CASE i = n + 1
      BY <1>4, <1>6, <1>9, <2>2
    <2> QED
      BY <2>1, <2>2
  <1>11. BacklogInv'
    <2>1. \A i \in 1 .. Len(queue') : queue'[i].id = lastDrained' + Len(draining') + i
      BY <1>1, <1>6, <1>7, <1>8, <1>10
    <2>2. numQueued' = drainEnd' + Len(queue') /\ numQueued' \in Nat
      BY <1>1, <1>2, <1>6, <1>7 DEF BacklogInv
    <2>3. queue' \in Seq(Event)
      BY <1>6, <1>7
    <2> QED
      BY <1>1, <2>1, <2>2, <2>3 DEF BacklogInv
  <1> QED
    BY <1>1, <1>11, OnlyBacklog

LEMMA DispatchQueuedKeeps ==
  ASSUME EventInv, DispatchQueued
  PROVE  EventInv'
  <1>1. /\ BacklogInv /\ draining = <<>> /\ draining' = queue /\ queue' = <<>> /\ drainEnd' = numQueued
        /\ UNCHANGED <<numQueued, lastDrained>>
        /\ UNCHANGED <<handlers, snapshot, dirty, numDead, alive, subscriptions, nextHandle, frames,
                       removedBy>>
    BY DEF DispatchQueued, EventInv
  <1>2. PICK last \in Nat, n \in Nat : last = lastDrained /\ n = Len(queue)
    <2>1. lastDrained \in Nat /\ Len(queue) \in Nat
      BY <1>1 DEF BacklogInv
    <2> QED
      BY <2>1
  <1>3. Len(<<>>) = 0 /\ <<>> \in Seq(Event)
    OBVIOUS
  <1>4. \A i \in 1 .. n : queue[i].id = last + i
    BY <1>1, <1>2, <1>3 DEF BacklogInv
  <1>5. numQueued = last + n /\ numQueued = numQueued + 0
    BY <1>1, <1>2, <1>3 DEF BacklogInv
  <1>6. BacklogInv'
    BY <1>1, <1>2, <1>3, <1>4, <1>5 DEF BacklogInv
  <1> QED
    BY <1>1, <1>6, OnlyBacklog

(* The next event of the drain is the next that was queued.                *)
LEMMA NextOfDrain ==
  ASSUME BacklogInv, draining # <<>>
  PROVE  /\ Head(draining) \in Event /\ Head(draining).id = lastDrained + 1
         /\ lastDrained + 1 <= drainEnd
         /\ Tail(draining) \in Seq(Event) /\ Len(Tail(draining)) + 1 = Len(draining)
         /\ Len(Tail(draining)) \in Nat
         /\ \A i \in 1 .. Len(Tail(draining)) : Tail(draining)[i].id = (lastDrained + 1) + i
  <1>1. PICK q \in Seq(Event), last \in Nat : q = draining /\ last = lastDrained
    BY DEF BacklogInv
  <1>2. PICK r : r = Tail(q)
    OBVIOUS
  <1>3. /\ Len(q) \in Nat /\ Len(q) # 0 /\ r \in Seq(Event) /\ Len(r) \in Nat /\ Len(r) + 1 = Len(q)
        /\ Head(q) = q[1] /\ 1 \in 1 .. Len(q) /\ Head(q) \in Event
    BY <1>1, <1>2
  <1>4. \A i \in 1 .. Len(r) : i \in Nat /\ i + 1 \in 1 .. Len(q) /\ r[i] = q[i + 1]
    BY <1>2, <1>3
  <1>5. \A i \in 1 .. Len(q) : q[i].id = last + i
    BY <1>1 DEF BacklogInv
  <1>6. \A i \in 1 .. Len(r) : r[i].id = (last + 1) + i
    <2> SUFFICES ASSUME NEW i \in 1 .. Len(r) PROVE r[i].id = (last + 1) + i
      OBVIOUS
    <2>1. r[i].id = last + (i + 1)
      BY <1>4, <1>5
    <2> QED
      BY <1>4, <2>1
  <1>7. Head(q).id = last + 1
    BY <1>3, <1>5
  <1>8. drainEnd = last + Len(q)
    BY <1>1 DEF BacklogInv
  <1>9. last + 1 <= drainEnd
    BY <1>3, <1>8
  <1> QED
    BY <1>1, <1>2, <1>3, <1>6, <1>7, <1>9

LEMMA DispatchNextKeeps ==
  ASSUME EventInv, DispatchNext
  PROVE  EventInv'
  <1>1. /\ BacklogInv /\ draining # <<>> /\ frames[Main] = <<>>
        /\ BeginDispatch(Main, Head(draining).type)
        /\ lastDrained' = Head(draining).id /\ draining' = Tail(draining)
        /\ UNCHANGED <<alive, subscriptions, nextHandle, removedBy>>
        /\ UNCHANGED <<queue, numQueued, drainEnd>>
    BY DEF DispatchNext, EventInv
  <1>2. PICK e \in Event, r \in Seq(Event), n \in Nat, last \in Nat :
           /\ e = Head(draining) /\ r = Tail(draining) /\ n = Len(r) /\ last = lastDrained
           /\ e.id = last + 1 /\ n + 1 = Len(draining)
           /\ \A i \in 1 .. n : r[i].id = (last + 1) + i
    <2>1. lastDrained \in Nat
      BY <1>1 DEF BacklogInv
    <2> QED
      BY <1>1, <2>1, NextOfDrain
  <1>3. e.type \in Types /\ Main \in Threads
    BY <1>2, EventAssumption DEF Event
  <1>4. EventTypeOK' /\ HandlersInv' /\ SubscribedInv' /\ FramesInv' /\ RemovedInv'
        /\ OwnUnsubscribeIsImmediate'
    BY <1>1, <1>2, <1>3, BeginDispatchKeeps
  <1>5. BacklogInv'
    <2>1. lastDrained' = last + 1 /\ draining' = r /\ Len(draining') = n
      BY <1>1, <1>2
    <2>2. drainEnd = last + (n + 1) /\ drainEnd = (last + 1) + n
      BY <1>1, <1>2 DEF BacklogInv
    <2>3. \A i \in 1 .. Len(queue) : queue[i].id = last + (n + 1) + i
      BY <1>1, <1>2 DEF BacklogInv
    <2>4. \A i \in 1 .. Len(queue) : queue[i].id = (last + 1) + n + i
      <3> SUFFICES ASSUME NEW i \in 1 .. Len(queue) PROVE queue[i].id = (last + 1) + n + i
        OBVIOUS
      <3> QED
        BY <2>3
    <2>5. \A i \in 1 .. Len(queue') : queue'[i].id = lastDrained' + Len(draining') + i
      BY <1>1, <2>1, <2>4
    <2>6. \A i \in 1 .. Len(draining') : draining'[i].id = lastDrained' + i
      BY <1>2, <2>1
    <2>7. drainEnd' = lastDrained' + Len(draining') /\ lastDrained' \in Nat /\ draining' \in Seq(Event)
      BY <1>1, <1>2, <2>1, <2>2
    <2> QED
      BY <1>1, <2>5, <2>6, <2>7 DEF BacklogInv
  <1> QED
    BY <1>4, <1>5 DEF EventInv

LEMMA EventInitInv == EventInit => EventInv
  <1> SUFFICES ASSUME EventInit PROVE EventInv
    OBVIOUS
  <1> USE DEF EventInit
  <1>1. Len(<<>>) = 0 /\ Elements(<<>>) = {} /\ Cardinality({}) = 0 /\ {} \ {} = {}
    BY FS_EmptySet DEF Elements
  <1>2. EventTypeOK
    <2>1. dirty \in [Types -> BOOLEAN]
      OBVIOUS
    <2>2. /\ handlers \in [Types -> Seq(Nat)] /\ snapshot \in [Types -> Seq(Nat)]
          /\ numDead \in [Types -> Nat] /\ frames \in [Threads -> Seq(Frame)]
          /\ removedBy \in [Handles -> SUBSET Threads]
      OBVIOUS
    <2> QED
      BY <2>1, <2>2 DEF EventTypeOK
  <1>3. HandlersInv
    <2> SUFFICES ASSUME NEW t \in Types
                 PROVE  SlotIsRight(handlers[t], snapshot[t], dirty[t], numDead[t], alive,
                                    Subscribed(t), nextHandle)
      BY DEF HandlersInv
    <2>1. handlers[t] = <<>> /\ snapshot[t] = <<>> /\ numDead[t] = 0 /\ alive = {}
      OBVIOUS
    <2>2. Subscribed(t) = {}
      BY DEF Subscribed
    <2>3. IsList(<<>>, nextHandle)
      BY <1>1 DEF IsList, Ascending
    <2>4. 0 * 2 <= Len(<<>>) /\ Elements(<<>>) \cap {} = {} /\ 0 = Cardinality(Elements(<<>>) \ {})
      <3>1. 0 * 2 <= 0
        OBVIOUS
      <3>2. Elements(<<>>) \cap {} = {} /\ Elements(<<>>) \ {} = {}
        BY <1>1
      <3> QED
        BY <1>1, <3>1, <3>2
    <2>5. SlotIsRight(<<>>, <<>>, dirty[t], 0, {}, {}, nextHandle)
      BY <1>1, <2>3, <2>4 DEF SlotIsRight
    <2> QED
      BY <2>1, <2>2, <2>5, Zenon
  <1>4. SubscribedInv /\ RemovedInv
    BY EventAssumption DEF SubscribedInv, RemovedInv
  <1>5. FramesInv /\ OwnUnsubscribeIsImmediate
    BY <1>1 DEF FramesInv, OwnUnsubscribeIsImmediate, IsAt
  <1>6. BacklogInv
    BY <1>1 DEF BacklogInv
  <1> QED
    BY <1>2, <1>3, <1>4, <1>5, <1>6 DEF EventInv

LEMMA EventStep == EventInv /\ [EventNext]_eventVars => EventInv'
  <1> SUFFICES ASSUME EventInv, [EventNext]_eventVars PROVE EventInv'
    OBVIOUS
  <1>1. ASSUME NEW th \in Threads, NEW t \in Types, Subscribe(th, t) PROVE EventInv'
    BY <1>1, SubscribeKeeps
  <1>2. ASSUME NEW th \in Threads, NEW t \in Types, Emit(th, t) PROVE EventInv'
    BY <1>2, EmitKeeps
  <1>3. ASSUME NEW th \in Threads, NEW t \in Types, QueueEmit(th, t) PROVE EventInv'
    BY <1>3, QueueEmitKeeps
  <1>4. ASSUME NEW th \in Threads, NEW s \in subscriptions, Unsubscribe(th, s) PROVE EventInv'
    BY <1>4, UnsubscribeKeeps
  <1>5. ASSUME NEW th \in Threads, DispatchStep(th) PROVE EventInv'
    BY <1>5, TestAliveKeeps, CallHandlerKeeps, HandlerReturnsKeeps, EmitReturnsKeeps DEF DispatchStep
  <1>6. CASE DispatchQueued
    BY <1>6, DispatchQueuedKeeps
  <1>7. CASE DispatchNext
    BY <1>7, DispatchNextKeeps
  <1>8. CASE UNCHANGED eventVars
    <2>1. BacklogInv'
      BY <1>8, SameBacklog DEF eventVars, EventInv
    <2> QED
      BY <1>8, <2>1, OnlyBacklog DEF eventVars
  <1> QED
    BY <1>1, <1>2, <1>3, <1>4, <1>5, <1>6, <1>7, <1>8 DEF EventNext

LEMMA FrameEventStep ==
  ASSUME [FrameNext]_frameVars
  PROVE  [EventNext]_eventVars
  <1>1. CASE Only("runtime", <<eventVars, freeListVars, arenaVars, memVars, parallelVars>>) /\ Next
    BY <1>1 DEF Only
  <1>2. CASE Only("events", <<vars, freeListVars, arenaVars, memVars, parallelVars>>) /\ EventNext
    BY <1>2
  <1>3. CASE Only("freeList", <<vars, eventVars, arenaVars, memVars, parallelVars>>) /\ FreeListNext
    BY <1>3 DEF Only
  <1>4. CASE Only("arena", <<vars, eventVars, freeListVars, memVars, parallelVars>>) /\ ArenaNext
    BY <1>4 DEF Only
  <1>5. CASE Only("memory", <<vars, eventVars, freeListVars, arenaVars, parallelVars>>) /\ MemNext
    BY <1>5 DEF Only
  <1>6. CASE Only("parallel", <<vars, eventVars, freeListVars, arenaVars, memVars>>) /\ ParallelNext
    BY <1>6 DEF Only
  <1>7. CASE UNCHANGED frameVars
    BY <1>7 DEF frameVars
  <1> QED
    BY <1>1, <1>2, <1>3, <1>4, <1>5, <1>6, <1>7 DEF FrameNext

(* CSystem keeps its invariant: the lists of every type hold handles in    *)
(* the order they were given out and an exact count of the dead, a handle  *)
(* has one subscription while it is alive, dispatches nest in handlers,    *)
(* and queued events are numbered in the order of the drain and the queue. *)
THEOREM EventInvariant == FrameSpec => []EventInv
  <1>1. FrameInit => EventInv
    BY EventInitInv DEF FrameInit
  <1>2. EventInv /\ [FrameNext]_frameVars => EventInv'
    BY FrameEventStep, EventStep
  <1> QED
    BY <1>1, <1>2, PTL DEF FrameSpec

-----------------------------------------------------------------------------
LEMMA InvListsAreRight == EventInv => ListsAreRight
  <1> SUFFICES ASSUME EventInv PROVE ListsAreRight
    OBVIOUS
  <1>1. DispatchInOrder
    BY DEF EventInv, FramesInv, IsDispatch, IsList, DispatchInOrder
  <1>2. SnapshotIsCurrent
    BY DEF EventInv, HandlersInv, SlotIsRight, SnapshotIsCurrent
  <1>3. DeadAreCounted
    BY DEF EventInv, HandlersInv, SlotIsRight, DeadAreCounted
  <1>4. BacklogIsComplete
    <2>1. BacklogInv
      BY DEF EventInv
    <2>2. PICK d \in Seq(Event), q \in Seq(Event), last \in Nat :
             d = draining /\ q = queue /\ last = lastDrained
      BY <2>1 DEF BacklogInv
    <2>3. PICK m \in Nat, n \in Nat : m = Len(d) /\ n = Len(q)
      OBVIOUS
    <2>4. /\ \A i \in 1 .. m : d[i].id = last + i
          /\ \A i \in 1 .. n : q[i].id = last + m + i
          /\ numQueued = last + m + n
      BY <2>1, <2>2, <2>3 DEF BacklogInv
    <2>5. PICK r : r = d \o q
      OBVIOUS
    <2>6. /\ Len(r) = m + n /\ \A i \in 1 .. m : r[i] = d[i]
          /\ \A i \in m + 1 .. m + n : r[i] = q[i - m]
      BY <2>2, <2>3, <2>5
    <2>7. ASSUME NEW i \in 1 .. m + n PROVE r[i].id = last + i
      <3>1. CASE i \in 1 .. m
        BY <2>4, <2>6, <3>1
      <3>2. CASE i \notin 1 .. m
        <4>1. i \in m + 1 .. m + n /\ i - m \in 1 .. n /\ last + m + (i - m) = last + i
          BY <3>2
        <4> QED
          BY <2>4, <2>6, <4>1
      <3> QED
        BY <3>1, <3>2
    <2>8. Len(r) = numQueued - last
      BY <2>4, <2>6
    <2> QED
      BY <2>2, <2>5, <2>6, <2>7, <2>8 DEF BacklogIsComplete
  <1> QED
    BY <1>1, <1>2, <1>3, <1>4 DEF ListsAreRight

(* Whatever threads and handlers subscribe, unsubscribe, emit and queue:   *)
(* a dispatch calls handlers in the order of their subscriptions and none  *)
(* made since it began, a clean snapshot is current, the dead are counted  *)
(* exactly and never outnumber the living, and no queued event is lost.    *)
THEOREM DispatchListsAreRight == FrameSpec => []ListsAreRight
  BY EventInvariant, InvListsAreRight, PTL

(* A thread never calls a handler that it has itself unsubscribed, however *)
(* its dispatches nest.                                                    *)
THEOREM UnsubscribeIsImmediate == FrameSpec => []OwnUnsubscribeIsImmediate
  <1>1. EventInv => OwnUnsubscribeIsImmediate
    BY DEF EventInv
  <1> QED
    BY <1>1, EventInvariant, PTL

LEMMA DrainStep ==
  ASSUME EventInv, EventNext, lastDrained' # lastDrained
  PROVE  lastDrained' = lastDrained + 1 /\ lastDrained' <= drainEnd
  <1>1. DispatchNext
    BY DEF EventNext, Subscribe, Emit, QueueEmit, Unsubscribe, DispatchStep, TestAlive, CallHandler,
           HandlerReturns, EmitReturns, DispatchQueued
  <1>2. BacklogInv /\ draining # <<>> /\ lastDrained' = Head(draining).id
    BY <1>1 DEF DispatchNext, EventInv
  <1> QED
    BY <1>2, NextOfDrain

(* DispatchQueued dispatches events in the order they were queued, each    *)
(* once, and none that was queued after it swapped the queue out.          *)
THEOREM QueuedEventsInOrder == FrameSpec => DrainInOrder
  <1>1. EventInv /\ [FrameNext]_frameVars =>
          [lastDrained' # lastDrained =>
             lastDrained' = lastDrained + 1 /\ lastDrained' <= drainEnd]_eventVars
    <2> SUFFICES ASSUME EventInv, [FrameNext]_frameVars, lastDrained' # lastDrained
                 PROVE  lastDrained' = lastDrained + 1 /\ lastDrained' <= drainEnd
      OBVIOUS
    <2>1. EventNext
      BY FrameEventStep DEF eventVars
    <2> QED
      BY <2>1, DrainStep
  <1> QED
    BY <1>1, EventInvariant, PTL DEF DrainInOrder, FrameSpec

(***************************************************************************)
(* ParallelFor: the bounds of the chunks and what is called of the range.  *)
(***************************************************************************)
ParallelTypeOK ==
    /\ pfBegin \in Uint /\ pfEnd \in Uint /\ pfBegin <= pfEnd
    /\ grainSize \in Nat /\ numThreads \in Nat
    /\ pfPc \in {"call", "submit", "serial", "returned"}
    /\ numChunks \in Nat /\ numSubmitted \in Nat
    /\ runs \in [Uint -> {0, 1}]
    /\ isCancelled \in BOOLEAN

\* The chunks are cut, each with an index at least.
IsCut == numChunks > 1 /\ numChunks <= NumItems

\* func was called with the indices of the chunks that ran.
RanInv == \A i \in Uint : runs[i] = 1 <=> \E k \in ran : i \in Chunk(k)

ParallelInv ==
    /\ ParallelTypeOK
    /\ ran \subseteq 0 .. numChunks - 1
    /\ skipped # {} => isCancelled
    /\ pfPc \in {"call", "serial"} => ran = {} /\ \A i \in Uint : runs[i] = 0
    /\ pfPc = "submit" => IsCut /\ RanInv
    /\ pfPc = "returned" => \/ \A i \in Uint : runs[i] = 1 <=> InRange(i)
                            \/ IsCut /\ RanInv /\ 0 .. numChunks - 1 \subseteq ran \cup skipped

-----------------------------------------------------------------------------
(* Integer division and products.                                          *)
LEMMA DivBounds ==
  ASSUME NEW x \in Nat, NEW d \in Nat, d > 0
  PROVE  /\ x \div d \in Nat
         /\ d * (x \div d) <= x /\ x < d * ((x \div d) + 1)
  OBVIOUS

LEMMA ModLess ==
  ASSUME NEW x \in Nat, NEW d \in Nat, d > 0
  PROVE  x % d \in Nat /\ x % d <= x
  OBVIOUS

LEMMA MulLess ==
  ASSUME NEW u \in Nat, NEW v \in Nat, NEW d \in Nat, d > 0, d * u < d * v
  PROVE  u < v
  OBVIOUS

LEMMA MulLeq ==
  ASSUME NEW u \in Nat, NEW v \in Nat, NEW d \in Nat, u <= v
  PROVE  d * u <= d * v
  OBVIOUS

LEMMA MulSum ==
  ASSUME NEW u \in Nat, NEW v \in Nat, NEW d \in Nat
  PROVE  d * (u + v) = d * u + d * v /\ d * u \in Nat /\ d * v \in Nat
  OBVIOUS

(* The greatest number whose product with d is not above x.                *)
LEMMA DivLeq ==
  ASSUME NEW x \in Nat, NEW y \in Nat, NEW d \in Nat, d > 0, x <= y
  PROVE  x \div d <= y \div d
  <1>1. PICK u \in Nat, v \in Nat : u = x \div d /\ v = y \div d
    BY DivBounds
  <1>2. d * u <= x /\ y < d * (v + 1)
    BY <1>1, DivBounds
  <1>3. d * u \in Nat /\ d * (v + 1) \in Nat
    BY MulSum
  <1>4. d * u < d * (v + 1)
    BY <1>2, <1>3
  <1>5. v + 1 \in Nat
    OBVIOUS
  <1>6. u < v + 1
    BY <1>4, <1>5, MulLess
  <1> QED
    BY <1>1, <1>6

LEMMA DivLess ==
  ASSUME NEW x \in Nat, NEW y \in Nat, NEW d \in Nat, d > 0, x + d <= y
  PROVE  x \div d < y \div d
  <1>1. PICK u \in Nat, v \in Nat : u = x \div d /\ v = y \div d
    BY DivBounds
  <1>2. d * u <= x /\ y < d * (v + 1)
    BY <1>1, DivBounds
  <1>3. d * u \in Nat /\ d * (v + 1) \in Nat /\ d * (u + 1) = d * u + d
    BY MulSum
  <1>4. d * (u + 1) < d * (v + 1)
    BY <1>2, <1>3
  <1>5. u + 1 \in Nat /\ v + 1 \in Nat
    OBVIOUS
  <1>6. u + 1 < v + 1
    BY <1>4, <1>5, MulLess
  <1> QED
    BY <1>1, <1>6

(* No more chunks than items, also where the sum wraps.                    *)
LEMMA FewChunks ==
  ASSUME NEW n \in Nat, NEW grain \in Nat, NEW threads \in Nat
  PROVE  /\ ComputeParallelChunkCount(n, grain, threads) \in Nat
         /\ ComputeParallelChunkCount(n, grain, threads) <= n
  <1>1. PICK g \in Nat : g = EffectiveGrain(grain) /\ g > 0
    BY DEF EffectiveGrain
  <1>2. PICK x \in Nat : x = n + g - 1
    BY <1>1
  <1>3. PICK w \in Nat : w = x % UintRange /\ w <= x
    BY ParallelAssumption, ModLess
  <1>4. PICK l \in Nat : l = w \div g /\ g * l <= w
    BY <1>1, DivBounds
  <1>5. l = ChunkLimit(n, grain)
    BY <1>1, <1>2, <1>3, <1>4 DEF ChunkLimit
  <1>6. l <= n
    <2> SUFFICES ASSUME n < l PROVE FALSE
      OBVIOUS
    <2>1. n + 1 \in Nat /\ n + 1 <= l
      OBVIOUS
    <2>2. g * (n + 1) <= g * l
      BY <2>1, MulLeq
    <2>3. g * (n + 1) = g * n + g /\ g * n \in Nat /\ g * l \in Nat
      BY MulSum
    <2>4. g * n + g <= n + g - 1
      BY <1>2, <1>3, <1>4, <2>2, <2>3
    <2>5. n <= g * n
      BY <1>1
    <2> QED
      BY <2>3, <2>4, <2>5
  <1>7. ComputeParallelChunkCount(n, grain, threads) = IF threads = 0 THEN 0 ELSE IF threads <= l THEN threads ELSE l
    BY <1>5 DEF ComputeParallelChunkCount
  <1> QED
    BY <1>6, <1>7

(* The bounds rise from the beginning of the range to its end.             *)
LEMMA BoundsRise ==
  ASSUME ParallelTypeOK, IsCut
  PROVE  /\ \A k \in 0 .. numChunks : Bound(k) \in Nat
         /\ Bound(0) = pfBegin /\ Bound(numChunks) = pfEnd
         /\ \A k, j \in 0 .. numChunks : k <= j => Bound(k) <= Bound(j)
         /\ \A k \in 0 .. numChunks - 1 : Bound(k) < Bound(k + 1)
  <1>1. PICK n \in Nat, m \in Nat, from \in Nat :
           n = NumItems /\ m = numChunks /\ from = pfBegin /\ m > 1 /\ m <= n /\ pfEnd = from + n
    <2>1. pfBegin \in Nat /\ pfEnd \in Nat /\ pfBegin <= pfEnd
      BY ParallelAssumption DEF ParallelTypeOK, Uint
    <2>2. NumItems \in Nat /\ pfEnd = pfBegin + NumItems
      BY <2>1 DEF NumItems
    <2> QED
      BY <2>1, <2>2 DEF ParallelTypeOK, IsCut
  <1>2. \A k : Bound(k) = from + (n * k) \div m
    BY <1>1 DEF Bound
  <1>3. ASSUME NEW k \in Nat PROVE n * k \in Nat /\ (n * k) \div m \in Nat
    <2>1. n * k \in Nat
      BY MulSum
    <2> QED
      BY <1>1, <2>1, DivBounds
  <1>4. ASSUME NEW k \in Nat, NEW j \in Nat, k <= j PROVE (n * k) \div m <= (n * j) \div m
    BY <1>1, <1>3, <1>4, MulLeq, DivLeq
  <1>5. ASSUME NEW k \in Nat PROVE (n * k) \div m < (n * (k + 1)) \div m
    <2>1. n * (k + 1) = n * k + n /\ n * k \in Nat
      BY MulSum
    <2>2. n * k + m <= n * (k + 1) /\ n * (k + 1) \in Nat
      BY <1>1, <2>1
    <2> QED
      BY <1>1, <2>1, <2>2, DivLess
  <1>6. (n * 0) \div m = 0
    <2>1. n * 0 = 0
      OBVIOUS
    <2> QED
      BY <1>1, <2>1
  <1>7. (n * m) \div m = n
    <2>1. PICK x \in Nat, q \in Nat : x = n * m /\ q = x \div m
      BY <1>1, <1>3
    <2>2. m * q <= x /\ x < m * (q + 1) /\ x = m * n
      BY <1>1, <2>1, DivBounds
    <2>3. n < q + 1
      BY <1>1, <2>2, MulLess
    <2>4. m * q < m * (n + 1)
      <3>1. m * (n + 1) = m * n + m /\ m * n \in Nat /\ m * q \in Nat
        BY MulSum
      <3> QED
        BY <1>1, <2>2, <3>1
    <2>5. n + 1 \in Nat
      OBVIOUS
    <2>6. q < n + 1
      BY <1>1, <2>4, <2>5, MulLess
    <2> QED
      BY <2>1, <2>3, <2>6
  <1>8. \A k \in 0 .. m : k \in Nat /\ Bound(k) \in Nat
    BY <1>2, <1>3
  <1>9. Bound(0) = pfBegin /\ Bound(m) = pfEnd
    BY <1>1, <1>2, <1>6, <1>7
  <1>10. ASSUME NEW k \in 0 .. m, NEW j \in 0 .. m, k <= j PROVE Bound(k) <= Bound(j)
    <2>0. k \in Nat /\ j \in Nat
      BY <1>1
    <2>1. (n * k) \div m <= (n * j) \div m
      BY <1>4, <1>10, <2>0
    <2>2. (n * k) \div m \in Nat /\ (n * j) \div m \in Nat
      BY <1>3, <2>0
    <2> QED
      BY <1>2, <2>1, <2>2
  <1>11. ASSUME NEW k \in 0 .. m - 1 PROVE Bound(k) < Bound(k + 1)
    <2>1. (n * k) \div m < (n * (k + 1)) \div m
      BY <1>5
    <2>2. (n * k) \div m \in Nat /\ (n * (k + 1)) \div m \in Nat
      BY <1>3
    <2> QED
      BY <1>2, <2>1, <2>2
  <1> QED
    BY <1>1, <1>8, <1>9, <1>10, <1>11

(* Every index of the range is in one chunk, and no other index is in any. *)
LEMMA ChunksPartition ==
  ASSUME ParallelTypeOK, IsCut, NEW i \in Uint
  PROVE  /\ \A k \in 0 .. numChunks - 1 : i \in Chunk(k) => InRange(i)
         /\ InRange(i) => \E k \in 0 .. numChunks - 1 : i \in Chunk(k)
         /\ \A k, j \in 0 .. numChunks - 1 : i \in Chunk(k) /\ i \in Chunk(j) => k = j
  <1>1. PICK m \in Nat : m = numChunks /\ m > 1
    BY DEF ParallelTypeOK, IsCut
  <1>2. i \in Nat /\ pfBegin \in Nat /\ pfEnd \in Nat
    BY ParallelAssumption DEF ParallelTypeOK, Uint
  <1>3. /\ \A k \in 0 .. m : Bound(k) \in Nat
        /\ Bound(0) = pfBegin /\ Bound(m) = pfEnd
        /\ \A k, j \in 0 .. m : k <= j => Bound(k) <= Bound(j)
    BY <1>1, BoundsRise
  <1>4. \A k : i \in Chunk(k) <=> Bound(k) <= i /\ i < Bound(k + 1)
    BY DEF Chunk
  <1>5. ASSUME NEW k \in 0 .. m - 1, i \in Chunk(k) PROVE InRange(i)
    <2>1. k \in 0 .. m /\ k + 1 \in 0 .. m /\ 0 \in 0 .. m /\ m \in 0 .. m /\ 0 <= k /\ k + 1 <= m
      BY <1>1
    <2>2. Bound(0) <= Bound(k) /\ Bound(k + 1) <= Bound(m) /\ Bound(k) \in Nat /\ Bound(k + 1) \in Nat
      BY <1>3, <2>1
    <2>3. Bound(k) <= i /\ i < Bound(k + 1)
      BY <1>4, <1>5
    <2> QED
      BY <1>2, <1>3, <2>2, <2>3 DEF InRange
  <1>6. ASSUME InRange(i) PROVE \E k \in 0 .. m - 1 : i \in Chunk(k)
    <2> DEFINE T == {k \in Nat : k <= m /\ i < Bound(k)}
    <2>1. T \in SUBSET Nat
      OBVIOUS
    <2>2. m \in T
      BY <1>3, <1>6 DEF InRange
    <2>3. PICK k \in T : \A j \in T : k <= j
      <3> HIDE DEF T
      <3> QED
        BY <2>1, <2>2, LeastNumber
    <2>4. k \in Nat /\ k <= m /\ i < Bound(k)
      BY <2>3
    <2>5. k # 0
      BY <1>2, <1>3, <1>6, <2>4 DEF InRange
    <2>6. k - 1 \in Nat /\ k - 1 <= m /\ k - 1 \notin T /\ (k - 1) + 1 = k /\ k - 1 \in 0 .. m - 1
      BY <1>1, <2>3, <2>4, <2>5
    <2>7. ~(i < Bound(k - 1)) /\ Bound(k - 1) \in Nat
      BY <1>3, <2>6
    <2>8. i \in Chunk(k - 1)
      BY <1>2, <1>4, <2>4, <2>6, <2>7
    <2> QED
      BY <2>6, <2>8
  <1>7. ASSUME NEW k \in 0 .. m - 1, NEW j \in 0 .. m - 1, i \in Chunk(k), i \in Chunk(j), k < j PROVE FALSE
    <2>1. k + 1 \in 0 .. m /\ j \in 0 .. m /\ k + 1 <= j
      BY <1>1, <1>7
    <2>2. Bound(k + 1) <= Bound(j) /\ Bound(k + 1) \in Nat /\ Bound(j) \in Nat
      BY <1>3, <2>1
    <2>3. i < Bound(k + 1) /\ Bound(j) <= i
      BY <1>4, <1>7
    <2> QED
      BY <1>2, <2>2, <2>3
  <1>8. \A k, j \in 0 .. m - 1 : i \in Chunk(k) /\ i \in Chunk(j) => k = j
    <2> SUFFICES ASSUME NEW k \in 0 .. m - 1, NEW j \in 0 .. m - 1, i \in Chunk(k), i \in Chunk(j), k # j
                 PROVE  FALSE
      OBVIOUS
    <2>1. k < j \/ j < k
      BY <1>1
    <2> QED
      BY <1>7, <2>1
  <1> QED
    BY <1>1, <1>5, <1>6, <1>8

-----------------------------------------------------------------------------
LEMMA ParallelInitInv == ParallelInit => ParallelInv
  <1> SUFFICES ASSUME ParallelInit PROVE ParallelInv
    OBVIOUS
  <1> USE DEF ParallelInit
  <1>1. ParallelTypeOK
    <2>1. isCancelled \in BOOLEAN
      BY Zenon
    <2>2. runs \in [Uint -> {0, 1}]
      OBVIOUS
    <2>3. grainSize \in Nat /\ numThreads \in Nat
      BY ParallelAssumption DEF Uint
    <2> QED
      BY <2>1, <2>2, <2>3 DEF ParallelTypeOK
  <1> QED
    BY <1>1 DEF ParallelInv

(* What is defined of the arguments and of the chunks stays.               *)
LEMMA SameChunks ==
  ASSUME UNCHANGED <<pfArguments, numChunks>>
  PROVE  /\ UNCHANGED <<pfBegin, pfEnd, grainSize, numThreads>> /\ NumItems' = NumItems
         /\ (IsCut' <=> IsCut) /\ \A k : Chunk(k)' = Chunk(k)
         /\ \A i : InRange(i)' <=> InRange(i)
  <1>1. UNCHANGED <<pfBegin, pfEnd, grainSize, numThreads>> /\ NumItems' = NumItems
    BY DEF pfArguments, NumItems
  <1>2. \A k : Bound(k)' = Bound(k)
    BY <1>1 DEF Bound
  <1>3. \A k : Chunk(k)' = Chunk(k)
    BY <1>2 DEF Chunk
  <1>4. \A i : InRange(i)' <=> InRange(i)
    BY <1>1 DEF InRange
  <1> QED
    BY <1>1, <1>3, <1>4 DEF IsCut

LEMMA CallKeeps ==
  ASSUME ParallelInv, Call
  PROVE  ParallelInv'
  <1>1. /\ ParallelTypeOK /\ pfPc = "call" /\ ran = {} /\ \A i \in Uint : runs[i] = 0
        /\ UNCHANGED <<pfBegin, pfEnd, grainSize, numThreads, numSubmitted, ran, skipped, runs, isCancelled>>
        /\ skipped # {} => isCancelled
    BY DEF Call, ParallelInv, pfArguments
  <1>2. NumItems \in Nat /\ grainSize \in Nat /\ numThreads \in Nat
    BY <1>1, ParallelAssumption DEF ParallelTypeOK, NumItems, Uint
  <1>3. numChunks' \in Nat /\ numChunks' <= NumItems
    BY <1>2, FewChunks DEF Call
  <1>4. pfPc' = IF numChunks' > 1 THEN "submit" ELSE "serial"
    BY DEF Call
  <1>5. ParallelTypeOK'
    BY <1>1, <1>3, <1>4 DEF ParallelTypeOK
  <1>6. RanInv'
    BY <1>1 DEF RanInv
  <1>7. pfPc' = "submit" => IsCut'
    BY <1>1, <1>3, <1>4 DEF IsCut, NumItems
  <1>8. pfPc' # "returned" /\ ran' = {} /\ \A i \in Uint : runs'[i] = 0
    BY <1>1, <1>4
  <1>9. skipped' # {} => isCancelled'
    BY <1>1
  <1> QED
    BY <1>5, <1>6, <1>7, <1>8, <1>9 DEF ParallelInv

LEMMA SubmitChunkKeeps ==
  ASSUME ParallelInv, SubmitChunk
  PROVE  ParallelInv'
  <1>1. /\ ParallelTypeOK /\ pfPc = "submit" /\ numSubmitted' = numSubmitted + 1
        /\ UNCHANGED <<pfArguments, numChunks>> /\ UNCHANGED <<pfPc, ran, skipped, runs, isCancelled>>
    BY DEF SubmitChunk, ParallelInv
  <1>2. ParallelTypeOK'
    BY <1>1, SameChunks DEF ParallelTypeOK
  <1> QED
    BY <1>1, <1>2, SameChunks DEF ParallelInv, RanInv

LEMMA RunChunkKeeps ==
  ASSUME ParallelInv, NEW k \in 0 .. numChunks - 1, RunChunk(k)
  PROVE  ParallelInv'
  <1>1. /\ ParallelTypeOK /\ pfPc = "submit" /\ IsCut /\ RanInv /\ ran \subseteq 0 .. numChunks - 1
        /\ k \notin ran /\ ran' = ran \cup {k}
        /\ runs' = [i \in Uint |-> IF i \in Chunk(k) THEN runs[i] + 1 ELSE runs[i]]
        /\ UNCHANGED <<pfArguments, numChunks>> /\ UNCHANGED <<pfPc, numSubmitted, skipped, isCancelled>>
        /\ skipped # {} => isCancelled
    BY DEF RunChunk, ParallelInv
  <1>2. runs \in [Uint -> {0, 1}]
    BY <1>1 DEF ParallelTypeOK
  <1>3. ASSUME NEW i \in Uint
        PROVE  runs'[i] \in {0, 1} /\ (runs'[i] = 1 <=> \E j \in ran \cup {k} : i \in Chunk(j))
    <2>1. runs[i] \in {0, 1} /\ (runs[i] = 1 <=> \E j \in ran : i \in Chunk(j))
      BY <1>1, <1>2 DEF RanInv
    <2>2. CASE i \in Chunk(k)
      <3>1. \A j \in ran : i \notin Chunk(j)
        BY <1>1, <2>2, ChunksPartition
      <3>2. runs[i] = 0
        BY <2>1, <3>1
      <3>3. runs'[i] = 1
        BY <1>1, <2>2, <3>2
      <3> QED
        BY <2>2, <3>3
    <2>3. CASE i \notin Chunk(k)
      <3>1. runs'[i] = runs[i]
        BY <1>1, <2>3
      <3> QED
        BY <2>1, <2>3, <3>1
    <2> QED
      BY <2>2, <2>3
  <1>4. ParallelTypeOK'
    <2>1. runs' \in [Uint -> {0, 1}]
      <3>1. runs' = [i \in Uint |-> runs'[i]]
        BY <1>1
      <3> QED
        BY <1>3, <3>1
    <2> QED
      BY <1>1, <2>1, SameChunks DEF ParallelTypeOK
  <1>5. RanInv'
    BY <1>1, <1>3, SameChunks DEF RanInv
  <1>6. IsCut' /\ ran' \subseteq 0 .. numChunks' - 1
    BY <1>1, SameChunks
  <1>7. skipped' # {} => isCancelled'
    BY <1>1
  <1> QED
    BY <1>1, <1>4, <1>5, <1>6, <1>7 DEF ParallelInv

LEMMA SkipChunkKeeps ==
  ASSUME ParallelInv, NEW k, SkipChunk(k)
  PROVE  ParallelInv'
  <1>1. /\ ParallelTypeOK /\ pfPc = "submit" /\ IsCut /\ RanInv /\ ran \subseteq 0 .. numChunks - 1
        /\ UNCHANGED <<pfArguments, numChunks>> /\ UNCHANGED <<pfPc, numSubmitted, ran, runs, isCancelled>>
        /\ isCancelled
    BY DEF SkipChunk, ParallelInv
  <1>2. ParallelTypeOK'
    BY <1>1, SameChunks DEF ParallelTypeOK
  <1>3. isCancelled'
    BY <1>1, Zenon
  <1>4. RanInv' /\ IsCut'
    BY <1>1, SameChunks DEF RanInv
  <1> QED
    BY <1>1, <1>2, <1>3, <1>4 DEF ParallelInv

LEMMA WaitReturnsKeeps ==
  ASSUME ParallelInv, WaitReturns
  PROVE  ParallelInv'
  <1>1. /\ ParallelTypeOK /\ IsCut /\ RanInv /\ ran \subseteq 0 .. numChunks - 1
        /\ UNCHANGED <<pfArguments, numChunks>> /\ UNCHANGED <<numSubmitted, ran, skipped, runs, isCancelled>>
        /\ 0 .. numChunks - 1 \subseteq ran \cup skipped /\ pfPc' = "returned"
        /\ skipped # {} => isCancelled
    BY DEF WaitReturns, ParallelInv
  <1>2. ParallelTypeOK'
    BY <1>1, SameChunks DEF ParallelTypeOK
  <1>3. RanInv' /\ IsCut'
    BY <1>1, SameChunks DEF RanInv
  <1>4. skipped' # {} => isCancelled'
    BY <1>1
  <1> QED
    BY <1>1, <1>2, <1>3, <1>4 DEF ParallelInv

LEMMA RunSeriallyKeeps ==
  ASSUME ParallelInv, RunSerially
  PROVE  ParallelInv'
  <1>1. /\ ParallelTypeOK /\ ran = {} /\ \A i \in Uint : runs[i] = 0
        /\ runs' = [i \in Uint |-> IF InRange(i) THEN runs[i] + 1 ELSE runs[i]]
        /\ UNCHANGED <<pfArguments, numChunks>> /\ UNCHANGED <<numSubmitted, ran, skipped, isCancelled>>
        /\ pfPc' = "returned" /\ (skipped # {} => isCancelled)
    BY DEF RunSerially, ParallelInv, InRange
  <1>2. \A i \in Uint : runs'[i] = IF InRange(i) THEN 1 ELSE 0
    BY <1>1
  <1>3. ParallelTypeOK'
    <2>1. runs' \in [Uint -> {0, 1}]
      BY <1>1, <1>2
    <2> QED
      BY <1>1, <2>1, SameChunks DEF ParallelTypeOK
  <1>4. \A i \in Uint : runs'[i] = 1 <=> InRange(i)'
    BY <1>1, <1>2, SameChunks
  <1>5. skipped' # {} => isCancelled'
    BY <1>1
  <1> QED
    BY <1>1, <1>3, <1>4, <1>5 DEF ParallelInv

LEMMA CancelEnclosingKeeps ==
  ASSUME ParallelInv, CancelEnclosing
  PROVE  ParallelInv'
  <1>1. /\ ParallelTypeOK /\ pfPc = "submit" /\ IsCut /\ RanInv /\ ran \subseteq 0 .. numChunks - 1
        /\ UNCHANGED <<pfArguments, numChunks>> /\ UNCHANGED <<pfPc, numSubmitted, ran, skipped, runs>>
        /\ isCancelled' = TRUE
    BY DEF CancelEnclosing, ParallelInv
  <1>2. isCancelled' \in BOOLEAN /\ isCancelled'
    BY <1>1, Zenon
  <1>3. ParallelTypeOK'
    BY <1>1, <1>2, SameChunks DEF ParallelTypeOK
  <1>4. RanInv' /\ IsCut'
    BY <1>1, SameChunks DEF RanInv
  <1> QED
    BY <1>1, <1>2, <1>3, <1>4 DEF ParallelInv

LEMMA ParallelStep == ParallelInv /\ [ParallelNext]_parallelVars => ParallelInv'
  <1> SUFFICES ASSUME ParallelInv, [ParallelNext]_parallelVars PROVE ParallelInv'
    OBVIOUS
  <1>1. CASE Call
    BY <1>1, CallKeeps
  <1>2. CASE SubmitChunk
    BY <1>2, SubmitChunkKeeps
  <1>3. CASE WaitReturns
    BY <1>3, WaitReturnsKeeps
  <1>4. CASE RunSerially
    BY <1>4, RunSeriallyKeeps
  <1>5. CASE CancelEnclosing
    BY <1>5, CancelEnclosingKeeps
  <1>6. ASSUME NEW k \in 0 .. numChunks - 1, RunChunk(k) PROVE ParallelInv'
    BY <1>6, RunChunkKeeps
  <1>7. ASSUME NEW k \in 0 .. numChunks - 1, SkipChunk(k) PROVE ParallelInv'
    BY <1>7, SkipChunkKeeps
  <1>8. CASE UNCHANGED parallelVars
    <2>1. UNCHANGED <<pfArguments, numChunks>> /\ UNCHANGED <<pfPc, numSubmitted, ran, skipped, runs, isCancelled>>
      BY <1>8 DEF parallelVars, pfArguments
    <2>2. ParallelTypeOK' /\ (RanInv' <=> RanInv)
      BY <2>1, SameChunks DEF ParallelInv, ParallelTypeOK, RanInv
    <2> QED
      BY <2>1, <2>2, SameChunks DEF ParallelInv
  <1> QED
    BY <1>1, <1>2, <1>3, <1>4, <1>5, <1>6, <1>7, <1>8 DEF ParallelNext

LEMMA FrameParallelStep ==
  ASSUME [FrameNext]_frameVars
  PROVE  [ParallelNext]_parallelVars
  <1>1. CASE Only("runtime", <<eventVars, freeListVars, arenaVars, memVars, parallelVars>>) /\ Next
    BY <1>1 DEF Only
  <1>2. CASE Only("events", <<vars, freeListVars, arenaVars, memVars, parallelVars>>) /\ EventNext
    BY <1>2 DEF Only
  <1>3. CASE Only("freeList", <<vars, eventVars, arenaVars, memVars, parallelVars>>) /\ FreeListNext
    BY <1>3 DEF Only
  <1>4. CASE Only("arena", <<vars, eventVars, freeListVars, memVars, parallelVars>>) /\ ArenaNext
    BY <1>4 DEF Only
  <1>5. CASE Only("memory", <<vars, eventVars, freeListVars, arenaVars, parallelVars>>) /\ MemNext
    BY <1>5 DEF Only
  <1>6. CASE Only("parallel", <<vars, eventVars, freeListVars, arenaVars, memVars>>) /\ ParallelNext
    BY <1>6
  <1>7. CASE UNCHANGED frameVars
    BY <1>7 DEF frameVars
  <1> QED
    BY <1>1, <1>2, <1>3, <1>4, <1>5, <1>6, <1>7 DEF FrameNext

LEMMA InvRangeIsPartitioned == ParallelInv => RangeIsPartitioned
  <1> SUFFICES ASSUME ParallelInv PROVE EachIndexOnce /\ NoEmptyChunk
    BY DEF RangeIsPartitioned
  <1>1. /\ ParallelTypeOK /\ ran \subseteq 0 .. numChunks - 1 /\ (skipped # {} => isCancelled)
        /\ runs \in [Uint -> {0, 1}]
    BY DEF ParallelInv, ParallelTypeOK
  <1>2. EachIndexOnce
    <2> SUFFICES ASSUME NEW i \in Uint
                 PROVE  /\ runs[i] \in {0, 1}
                        /\ runs[i] = 1 => InRange(i)
                        /\ pfPc = "returned" /\ ~isCancelled /\ InRange(i) => runs[i] = 1
      BY DEF EachIndexOnce
    <2>1. runs[i] \in {0, 1}
      BY <1>1
    <2>2. ASSUME runs[i] = 1 PROVE InRange(i)
      <3>1. CASE IsCut /\ RanInv
        BY <1>1, <2>2, <3>1, ChunksPartition DEF RanInv
      <3>2. CASE \A j \in Uint : runs[j] = 1 <=> InRange(j)
        BY <2>2, <3>2
      <3>3. CASE \A j \in Uint : runs[j] = 0
        BY <2>2, <3>3
      <3>4. pfPc \in {"call", "submit", "serial", "returned"}
        BY <1>1 DEF ParallelTypeOK
      <3> QED
        BY <3>1, <3>2, <3>3, <3>4 DEF ParallelInv
    <2>3. ASSUME pfPc = "returned", ~isCancelled, InRange(i) PROVE runs[i] = 1
      <3>1. CASE IsCut /\ RanInv /\ 0 .. numChunks - 1 \subseteq ran \cup skipped
        <4>1. skipped = {}
          BY <1>1, <2>3
        <4>2. PICK k \in 0 .. numChunks - 1 : i \in Chunk(k)
          BY <1>1, <2>3, <3>1, ChunksPartition
        <4>3. k \in ran
          BY <3>1, <4>1
        <4> QED
          BY <3>1, <4>2, <4>3 DEF RanInv
      <3>2. CASE \A j \in Uint : runs[j] = 1 <=> InRange(j)
        BY <2>3, <3>2
      <3> QED
        BY <2>3, <3>1, <3>2 DEF ParallelInv
    <2> QED
      BY <2>1, <2>2, <2>3
  <1>3. NoEmptyChunk
    BY <1>1, BoundsRise DEF NoEmptyChunk, ParallelInv
  <1> QED
    BY <1>2, <1>3

(* ParallelFor calls func once with every index of the range and with no   *)
(* other, for every range, grain, number of workers and order of the jobs, *)
(* and submits no empty chunk, also where the 32-bit sum wraps.            *)
THEOREM ParallelForPartitions == FrameSpec => []RangeIsPartitioned
  <1>1. FrameInit => ParallelInv
    BY ParallelInitInv DEF FrameInit
  <1>2. ParallelInv /\ [FrameNext]_frameVars => ParallelInv'
    BY FrameParallelStep, ParallelStep
  <1> QED
    BY <1>1, <1>2, InvRangeIsPartitioned, PTL DEF FrameSpec

(***************************************************************************)
(* CFreeListAllocator: blocks and free blocks share no word.               *)
(***************************************************************************)
Block == [addr : Nat, size : Nat]

End(f) == f.addr + f.size

\* In the buffer from lo to hi, in ascending order, with and without a gap after each.
Fitting(f, lo, hi) == f.addr >= lo /\ f.size >= FreeBlockSize /\ End(f) <= hi
Within(list, lo, hi) == \A i \in 1 .. Len(list) : Fitting(list[i], lo, hi)
Sorted(list) == \A i, j \in 1 .. Len(list) : i < j => End(list[i]) <= list[j].addr
Gapped(list) == \A i, j \in 1 .. Len(list) : i < j => End(list[i]) < list[j].addr

\* No word from x to y is the block's, or one of the list's.
ClearOf(f, x, y) == y <= f.addr \/ End(f) <= x
Clear(list, x, y) == \A i \in 1 .. Len(list) : ClearOf(list[i], x, y)

FreeListInv ==
    /\ flBase \in Nat
    /\ flFree \in Seq(Block) /\ Gapped(flFree) /\ Within(flFree, flBase, flBase + FlCapacity)
    /\ flBlocks \subseteq [ptr : Nat, size : Nat, padding : Nat]
    /\ \A x \in flBlocks : /\ Extent(x) \in Block
                           /\ Fitting(Extent(x), flBase, flBase + FlCapacity)
                           /\ Clear(flFree, Extent(x).addr, End(Extent(x)))
    /\ \A x, y \in flBlocks : x # y => ClearOf(Extent(x), Extent(y).addr, End(Extent(y)))

-----------------------------------------------------------------------------
(* A list whose part from n + 1 to m - 1 is replaced by others.            *)
IsSplice(T, r, s, n, t, m) ==
    /\ r \in Seq(T)
    /\ Len(r) = n + Len(t) + (Len(s) + 1 - m)
    /\ \A i \in 1 .. n : r[i] = s[i]
    /\ \A i \in n + 1 .. n + Len(t) : r[i] = t[i - n]
    /\ \A i \in n + Len(t) + 1 .. Len(r) : r[i] = s[i - n - Len(t) + m - 1]

LEMMA Spliced ==
  ASSUME NEW T, NEW s \in Seq(T), NEW n \in 0 .. Len(s), NEW m \in 1 .. Len(s) + 1, n < m,
         NEW t \in Seq(T)
  PROVE  IsSplice(T, SubSeq(s, 1, n) \o t \o SubSeq(s, m, Len(s)), s, n, t, m)
  <1>1. PICK k \in Nat, l \in Nat : k = Len(s) /\ l = Len(t)
    OBVIOUS
  <1>0. n \in Nat /\ m \in Nat /\ n <= k /\ 1 <= m /\ m <= k + 1
    BY <1>1
  <1>2. PICK p : p = SubSeq(s, 1, n)
    OBVIOUS
  <1>a. p \in Seq(T) /\ Len(p) = n /\ \A i \in 1 .. n : p[i] = s[i]
    BY <1>0, <1>1, <1>2
  <1>3. PICK q : q = SubSeq(s, m, Len(s))
    OBVIOUS
  <1>b. q \in Seq(T) /\ Len(q) = k + 1 - m /\ \A i \in 1 .. k + 1 - m : q[i] = s[i + m - 1]
    BY <1>0, <1>1, <1>3
  <1>4. PICK u : u = p \o t
    OBVIOUS
  <1>c. /\ u \in Seq(T) /\ Len(u) = n + l
        /\ \A i \in 1 .. n : u[i] = p[i]
        /\ \A i \in n + 1 .. n + l : u[i] = t[i - n]
    <2>1. /\ p \o t \in Seq(T) /\ Len(p \o t) = Len(p) + Len(t)
          /\ \A i \in 1 .. Len(p) + Len(t) : (p \o t)[i] = IF i <= Len(p) THEN p[i] ELSE t[i - Len(p)]
      BY <1>a, ConcatProperties
    <2>2. /\ u \in Seq(T) /\ Len(u) = n + l
          /\ \A i \in 1 .. n + l : u[i] = IF i <= n THEN p[i] ELSE t[i - n]
      BY <1>1, <1>4, <1>a, <2>1, Zenon
    <2> QED
      BY <1>0, <1>1, <2>2
  <1>5. PICK r : r = u \o q
    OBVIOUS
  <1>d. /\ r \in Seq(T) /\ Len(r) = n + l + (k + 1 - m)
        /\ \A i \in 1 .. n + l : r[i] = u[i]
        /\ \A i \in n + l + 1 .. n + l + (k + 1 - m) : r[i] = q[i - (n + l)]
    <2>1. /\ u \o q \in Seq(T) /\ Len(u \o q) = Len(u) + Len(q)
          /\ \A i \in 1 .. Len(u) + Len(q) : (u \o q)[i] = IF i <= Len(u) THEN u[i] ELSE q[i - Len(u)]
      BY <1>b, <1>c, ConcatProperties
    <2>2. /\ r \in Seq(T) /\ Len(r) = (n + l) + (k + 1 - m)
          /\ \A i \in 1 .. (n + l) + (k + 1 - m) : r[i] = IF i <= n + l THEN u[i] ELSE q[i - (n + l)]
      BY <1>5, <1>b, <1>c, <2>1, Zenon
    <2>3. PICK v \in Nat, w \in Nat : v = k + 1 - m /\ w = n + l
      BY <1>0, <1>1
    <2>4. /\ r \in Seq(T) /\ Len(r) = w + v
          /\ \A i \in 1 .. w + v : r[i] = IF i <= w THEN u[i] ELSE q[i - w]
      BY <2>2, <2>3
    <2>5. /\ \A i \in 1 .. w : r[i] = u[i]
          /\ \A i \in w + 1 .. w + v : r[i] = q[i - w]
      BY <2>4
    <2> QED
      BY <2>3, <2>4, <2>5
  <1>6. ASSUME NEW i \in n + l + 1 .. Len(r) PROVE r[i] = s[i - n - l + m - 1]
    <2>1. r[i] = q[i - (n + l)] /\ i - (n + l) \in 1 .. k + 1 - m
      BY <1>0, <1>1, <1>d
    <2>2. q[i - (n + l)] = s[(i - (n + l)) + m - 1]
      BY <1>b, <2>1
    <2>3. (i - (n + l)) + m - 1 = i - n - l + m - 1
      BY <1>0, <1>1
    <2> QED
      BY <2>1, <2>2, <2>3
  <1>8. ASSUME NEW i \in 1 .. n PROVE r[i] = s[i]
    <2>1. i \in 1 .. n + l
      BY <1>0
    <2> QED
      BY <1>a, <1>c, <1>d, <2>1, Zenon
  <1>9. ASSUME NEW i \in n + 1 .. n + l PROVE r[i] = t[i - n]
    <2>1. i \in 1 .. n + l
      BY <1>0
    <2> QED
      BY <1>c, <1>d, <2>1, Zenon
  <1>10. IsSplice(T, r, s, n, t, m)
    BY <1>1, <1>d, <1>6, <1>8, <1>9 DEF IsSplice
  <1> QED
    BY <1>2, <1>3, <1>4, <1>5, <1>10

LEMMA AlignUpAbove ==
  ASSUME NEW x \in Nat, NEW d \in Nat, d > 0
  PROVE  AlignUp(x, d) \in Nat /\ AlignUp(x, d) >= x
  <1>1. PICK y \in Nat : y = x + d - 1
    OBVIOUS
  <1>2. PICK q \in Nat : q = y \div d /\ y < d * (q + 1)
    BY DivBounds
  <1>3. d * (q + 1) = q * d + d /\ q * d \in Nat
    OBVIOUS
  <1>4. AlignUp(x, d) = q * d
    BY <1>1, <1>2 DEF AlignUp
  <1> QED
    BY <1>1, <1>2, <1>3, <1>4

LEMMA JoinedList ==
  ASSUME NEW g \in Seq(Block), NEW f \in Block, NEW lo \in Nat, NEW hi \in Nat,
         Gapped(g), Within(g, lo, hi), Fitting(f, lo, hi),
         Len(g) > 0 => End(g[Len(g)]) <= f.addr
  PROVE  \E r \in Seq(Block) :
            /\ r = Joined(g, f) /\ Gapped(r) /\ Within(r, lo, hi)
            /\ Len(r) > 0 /\ End(r[Len(r)]) = End(f)
            /\ \A x, y \in Nat : x < y /\ Clear(g, x, y) /\ ClearOf(f, x, y) => Clear(r, x, y)
  <1>1. PICK n \in Nat : n = Len(g)
    OBVIOUS
  <1>2. \A i \in 1 .. n : g[i] \in [addr : Nat, size : Nat]
    <2>1. \A i \in 1 .. n : g[i] \in Block
      BY <1>1
    <2> QED
      BY <2>1 DEF Block
  <1>3. f \in [addr : Nat, size : Nat]
    BY DEF Block
  <1>4. CASE n > 0 /\ g[n].addr + g[n].size = f.addr
    <2>0. n \in 1 .. n /\ g[n] \in [addr : Nat, size : Nat]
      BY <1>2, <1>4
    <2>1. PICK e : e = [addr |-> g[n].addr, size |-> g[n].size + f.size]
      OBVIOUS
    <2>2. e \in Block /\ e.addr = g[n].addr /\ e.size = g[n].size + f.size
      BY <2>0, <2>1, <1>3 DEF Block
    <2>3. PICK r : r = [g EXCEPT ![n] = e]
      OBVIOUS
    <2>a. r \in Seq(Block) /\ Len(r) = n /\ r[n] = e /\ \A i \in 1 .. n : i # n => r[i] = g[i]
      BY <1>1, <2>0, <2>2, <2>3
    <2>4. r = Joined(g, f)
      BY <1>1, <1>4, <2>1, <2>3 DEF Joined
    <2>5. End(e) = End(f)
      BY <1>3, <1>4, <2>0, <2>2 DEF End
    <2>6. Gapped(r)
      <3> SUFFICES ASSUME NEW i \in 1 .. n, NEW j \in 1 .. n, i < j
                   PROVE  End(r[i]) < r[j].addr
        BY <2>a DEF Gapped
      <3>1. r[i] = g[i] /\ r[j].addr = g[j].addr
        BY <2>2, <2>a
      <3> QED
        BY <1>1, <3>1 DEF Gapped
    <2>7. Within(r, lo, hi)
      <3>1. Fitting(g[n], lo, hi)
        BY <1>1, <2>0 DEF Within
      <3>2. Fitting(e, lo, hi)
        BY <1>3, <2>0, <2>2, <2>5, <3>1 DEF Fitting, FreeBlockSize
      <3> QED
        BY <1>1, <2>a, <3>2 DEF Within
    <2>8. ASSUME NEW x \in Nat, NEW y \in Nat, x < y, Clear(g, x, y), ClearOf(f, x, y)
          PROVE  Clear(r, x, y)
      <3>1. ClearOf(g[n], x, y)
        BY <1>1, <2>0, <2>8 DEF Clear
      <3>2. ClearOf(e, x, y)
        BY <1>3, <1>4, <2>0, <2>2, <2>8, <3>1 DEF ClearOf, End
      <3> QED
        BY <1>1, <2>a, <2>8, <3>2 DEF Clear
    <2> QED
      BY <1>4, <2>a, <2>4, <2>5, <2>6, <2>7, <2>8
  <1>5. CASE ~(n > 0 /\ g[n].addr + g[n].size = f.addr)
    <2>1. PICK r : r = Append(g, f)
      OBVIOUS
    <2>a. /\ r \in Seq(Block) /\ Len(r) = n + 1 /\ r[n + 1] = f
          /\ \A i \in 1 .. n : r[i] = g[i]
      BY <1>1, <2>1
    <2>2. r = Joined(g, f)
      BY <1>1, <1>5, <2>1 DEF Joined
    <2>3. \A i \in 1 .. n : End(g[i]) < f.addr
      <3> SUFFICES ASSUME NEW i \in 1 .. n PROVE End(g[i]) < f.addr
        OBVIOUS
      <3>1. n > 0 /\ n \in 1 .. n /\ g[n] \in [addr : Nat, size : Nat] /\ g[i] \in [addr : Nat, size : Nat]
        BY <1>2
      <3>2. End(g[n]) < f.addr
        BY <1>1, <1>3, <1>5, <3>1 DEF End
      <3>3. i < n => End(g[i]) < g[n].addr
        BY <1>1, <3>1 DEF Gapped
      <3> QED
        BY SMTT(30), <1>3, <3>1, <3>2, <3>3 DEF End
    <2>4. Gapped(r)
      BY <1>1, <2>a, <2>3 DEF Gapped
    <2>5. Within(r, lo, hi)
      BY <1>1, <2>a DEF Within
    <2>6. \A x, y \in Nat : x < y /\ Clear(g, x, y) /\ ClearOf(f, x, y) => Clear(r, x, y)
      BY <1>1, <2>a DEF Clear
    <2> QED
      BY <2>a, <2>2, <2>4, <2>5, <2>6
  <1> QED
    BY <1>4, <1>5

(* The function that CoalesceFreeBlocks computes, on the first n blocks.   *)
IsJoined(G, list, n) ==
    G = [k \in 0 .. n |-> IF k = 0 THEN <<>> ELSE Joined(G[k - 1], list[k])]

LEMMA JoinedExists ==
  ASSUME NEW list, NEW n \in Nat
  PROVE  \E G : IsJoined(G, list, n)
  <1> DEFINE T == {k \in Nat : ~ \E G : IsJoined(G, list, k)}
  <1> SUFFICES ASSUME T # {} PROVE FALSE
    OBVIOUS
  <1>1. PICK k \in T : \A m \in T : k <= m
    BY LeastNumber
  <1>2. k \in Nat /\ ~ \E G : IsJoined(G, list, k)
    BY <1>1
  <1>3. CASE k = 0
    <2>1. IsJoined([m \in 0 .. 0 |-> <<>>], list, 0)
      BY DEF IsJoined
    <2> QED
      BY <2>1, <1>2, <1>3
  <1>4. CASE k # 0
    <2>1. k - 1 \in Nat /\ k - 1 \notin T
      BY <1>1, <1>2, <1>4
    <2>2. PICK G : IsJoined(G, list, k - 1)
      BY <2>1
    <2> DEFINE last == Joined(G[k - 1], list[k])
               H == [m \in 0 .. k |-> IF m = k THEN last ELSE G[m]]
    <2>3. ASSUME NEW m \in 0 .. k, m # k, m # 0
          PROVE  H[m] = Joined(H[m - 1], list[m])
      <3>1. m \in 0 .. (k - 1) /\ m - 1 \in 0 .. k /\ m - 1 # k
        BY <1>2, <2>3
      <3>2. G[m] = Joined(G[m - 1], list[m])
        BY <2>2, <3>1, <2>3 DEF IsJoined
      <3> QED
        BY <3>1, <3>2, <2>3
    <2>4. H[k] = Joined(H[k - 1], list[k])
      BY <1>2, <1>4
    <2>5. H[0] = <<>>
      BY <1>2, <1>4, <2>1, <2>2 DEF IsJoined
    <2> HIDE DEF last
    <2>6. IsJoined(H, list, k)
      <3>1. H = [m \in 0 .. k |-> H[m]]
        OBVIOUS
      <3> HIDE DEF H
      <3> DEFINE K == [m \in 0 .. k |-> IF m = 0 THEN <<>> ELSE Joined(H[m - 1], list[m])]
      <3>2. \A m \in 0 .. k : H[m] = K[m]
        BY <2>3, <2>4, <2>5, <1>4
      <3>3. K = [m \in 0 .. k |-> K[m]]
        OBVIOUS
      <3> HIDE DEF K
      <3>4. [m \in 0 .. k |-> H[m]] = [m \in 0 .. k |-> K[m]]
        BY <3>2
      <3>5. H = K
        BY <3>1, <3>3, <3>4
      <3> QED
        BY <3>5 DEF K, IsJoined
    <2> QED
      BY <2>6, <1>2
  <1> QED
    BY <1>3, <1>4

(* Blocks that touch become one, and no word is gained.                    *)
LEMMA CoalescedList ==
  ASSUME NEW list \in Seq(Block), NEW lo \in Nat, NEW hi \in Nat,
         Sorted(list), Within(list, lo, hi)
  PROVE  \E r \in Seq(Block) :
            /\ r = CoalesceFreeBlocks(list) /\ Gapped(r) /\ Within(r, lo, hi)
            /\ \A x, y \in Nat : x < y /\ Clear(list, x, y) => Clear(r, x, y)
  <1>0. Len(list) \in Nat
    OBVIOUS
  <1> DEFINE F == CHOOSE G : IsJoined(G, list, Len(list))
  <1>1. IsJoined(F, list, Len(list))
    BY <1>0, JoinedExists
  <1>2. CoalesceFreeBlocks(list) = F[Len(list)]
    BY DEF CoalesceFreeBlocks, IsJoined
  <1>3. F[0] = <<>> /\ \A k \in 1 .. Len(list) : F[k] = Joined(F[k - 1], list[k])
    <2>1. PICK G : G = F
      OBVIOUS
    <2>2. G = [k \in 0 .. Len(list) |-> IF k = 0 THEN <<>> ELSE Joined(G[k - 1], list[k])]
      BY <1>1, <2>1 DEF IsJoined
    <2>3. \A k \in 0 .. Len(list) : G[k] = IF k = 0 THEN <<>> ELSE Joined(G[k - 1], list[k])
      BY <2>2
    <2> HIDE DEF F
    <2> QED
      BY <1>0, <2>1, <2>3
  <1> HIDE DEF F
  <1> DEFINE Part(k) == \A x, y \in Nat :
                x < y /\ (\A i \in 1 .. k : ClearOf(list[i], x, y)) => Clear(F[k], x, y)
             Good(k) == /\ F[k] \in Seq(Block) /\ Gapped(F[k]) /\ Within(F[k], lo, hi)
                        /\ Len(F[k]) > 0 => k > 0 /\ End(F[k][Len(F[k])]) = End(list[k])
                        /\ Part(k)
             T == {k \in 0 .. Len(list) : ~Good(k)}
  <1>4. T = {}
    <2> SUFFICES ASSUME T # {} PROVE FALSE
      OBVIOUS
    <2>0. T \in SUBSET Nat
      BY <1>0
    <2>1. PICK k \in T : \A m \in T : k <= m
      <3> HIDE DEF T
      <3> QED
        BY <2>0, LeastNumber
    <2>2. CASE k = 0
      <3>1. Good(0)
        BY <1>3 DEF Gapped, Within, Clear
      <3> QED
        BY <2>1, <2>2, <3>1
    <2>3. CASE k # 0
      <3>1. k - 1 \in 0 .. Len(list) /\ k \in 1 .. Len(list) /\ k - 1 \notin T
        BY <1>0, <2>1, <2>3
      <3>2. Good(k - 1)
        BY <3>1
      <3>3. PICK g \in Seq(Block), f \in Block : g = F[k - 1] /\ f = list[k]
        BY <3>1, <3>2
      <3>4. F[k] = Joined(g, f)
        BY <1>3, <3>1, <3>3
      <3>5. Gapped(g) /\ Within(g, lo, hi) /\ Fitting(f, lo, hi)
        BY <3>1, <3>2, <3>3 DEF Within
      <3>6. Len(g) > 0 => End(g[Len(g)]) <= f.addr
        <4>1. ASSUME Len(g) > 0 PROVE k - 1 \in 1 .. Len(list) /\ End(g[Len(g)]) = End(list[k - 1])
          BY <3>1, <3>2, <3>3, <4>1
        <4> QED
          BY <3>1, <3>3, <4>1 DEF Sorted
      <3>7. PICK r \in Seq(Block) :
              /\ r = F[k] /\ Gapped(r) /\ Within(r, lo, hi) /\ Len(r) > 0 /\ End(r[Len(r)]) = End(f)
              /\ \A x, y \in Nat : x < y /\ Clear(g, x, y) /\ ClearOf(f, x, y) => Clear(r, x, y)
        BY <3>4, <3>5, <3>6, JoinedList
      <3>8. Part(k)
        <4> SUFFICES ASSUME NEW x \in Nat, NEW y \in Nat, x < y,
                            \A i \in 1 .. k : ClearOf(list[i], x, y)
                     PROVE  Clear(F[k], x, y)
          OBVIOUS
        <4>1. k \in 1 .. k /\ \A i \in 1 .. k - 1 : i \in 1 .. k
          BY <3>1
        <4>2. Clear(g, x, y)
          BY <3>2, <3>3, <4>1
        <4>3. ClearOf(f, x, y)
          BY <3>3, <4>1
        <4> QED
          BY <3>7, <4>2, <4>3
      <3>9. Good(k)
        BY <3>1, <3>3, <3>7, <3>8
      <3> QED
        BY <2>1, <3>9
    <2> QED
      BY <2>2, <2>3
  <1>5. Good(Len(list))
    BY <1>0, <1>4
  <1> QED
    BY <1>2, <1>5 DEF Clear

(* A block enters before the first that is not below it.                   *)
LEMMA InsertedList ==
  ASSUME NEW list \in Seq(Block), NEW f \in Block, NEW lo \in Nat, NEW hi \in Nat,
         Gapped(list), Within(list, lo, hi), Fitting(f, lo, hi), Clear(list, f.addr, End(f))
  PROVE  \E r \in Seq(Block) :
            /\ r = InsertSorted(list, f) /\ Sorted(r) /\ Within(r, lo, hi)
            /\ \A x, y \in Nat : Clear(list, x, y) /\ ClearOf(f, x, y) => Clear(r, x, y)
  <1>1. PICK k \in Nat : k = Len(list)
    OBVIOUS
  <1>2. \A i \in 1 .. k : list[i] \in [addr : Nat, size : Nat]
    <2>1. \A i \in 1 .. k : list[i] \in Block
      BY <1>1
    <2> QED
      BY <2>1 DEF Block
  <1>3. f \in [addr : Nat, size : Nat]
    BY DEF Block
  <1> DEFINE IsPlace(n) == /\ \A i \in 1 .. n : list[i].addr < f.addr
                           /\ n < Len(list) => list[n + 1].addr >= f.addr
             T == {n \in 0 .. k : n < k => list[n + 1].addr >= f.addr}
  <1>4. \E n \in 0 .. Len(list) : IsPlace(n)
    <2>1. k \in T /\ T \in SUBSET Nat
      OBVIOUS
    <2>2. PICK n \in T : \A m \in T : n <= m
      <3> HIDE DEF T
      <3> QED
        BY <2>1, LeastNumber
    <2>3. ASSUME NEW i \in 1 .. n PROVE list[i].addr < f.addr
      <3>0. n \in 0 .. k
        BY <2>2
      <3>a. i - 1 \in 0 .. k /\ ~(n <= i - 1) /\ (i - 1) + 1 = i /\ i \in 1 .. k
        BY <3>0
      <3>1. i - 1 \in 0 .. k /\ i - 1 \notin T /\ (i - 1) + 1 = i /\ i \in 1 .. k
        <4> HIDE DEF T
        <4> QED
          BY <2>2, <3>a
      <3>2. ~(list[i].addr >= f.addr) /\ list[i].addr \in Nat
        BY <1>2, <3>0, <3>1
      <3> QED
        BY <1>3, <3>2
    <2> QED
      BY <1>1, <2>2, <2>3
  <1>5. PICK n \in 0 .. Len(list) :
          IsPlace(n) /\ InsertSorted(list, f) = SubSeq(list, 1, n) \o <<f>> \o SubSeq(list, n + 1, Len(list))
    BY <1>4 DEF InsertSorted
  <1>6. PICK r \in Seq(Block) :
          /\ r = InsertSorted(list, f) /\ Len(r) = k + 1
          /\ \A i \in 1 .. n : r[i] = list[i]
          /\ r[n + 1] = f
          /\ \A i \in n + 2 .. k + 1 : r[i] = list[i - 1]
    <2>1. PICK t, m : t = <<f>> /\ m = n + 1
      OBVIOUS
    <2>a. t \in Seq(Block) /\ Len(t) = 1 /\ t[1] = f /\ m \in 1 .. Len(list) + 1 /\ n < m
      BY <1>1, <2>1
    <2>b. PICK r : r = SubSeq(list, 1, n) \o t \o SubSeq(list, m, Len(list))
      OBVIOUS
    <2>c. IsSplice(Block, r, list, n, t, m)
      BY <2>a, <2>b, Spliced
    <2>2. /\ r \in Seq(Block)
          /\ Len(r) = n + Len(t) + (Len(list) + 1 - m)
          /\ \A i \in 1 .. n : r[i] = list[i]
          /\ \A i \in n + 1 .. n + Len(t) : r[i] = t[i - n]
          /\ \A i \in n + Len(t) + 1 .. Len(r) : r[i] = list[i - n - Len(t) + m - 1]
      BY <2>c DEF IsSplice
    <2>3. Len(r) = k + 1 /\ r[n + 1] = f
      <3>1. n + 1 \in n + 1 .. n + Len(t) /\ (n + 1) - n = 1
        BY <1>1, <2>a
      <3>2. r[n + 1] = t[(n + 1) - n]
        BY <2>2, <3>1
      <3> QED
        BY <1>1, <2>1, <2>a, <2>2, <3>1, <3>2
    <2>4. ASSUME NEW i \in n + 2 .. k + 1 PROVE r[i] = list[i - 1]
      <3>1. i \in n + Len(t) + 1 .. Len(r) /\ i - n - Len(t) + m - 1 = i - 1
        BY <1>1, <2>1, <2>a, <2>3
      <3> QED
        BY <2>2, <3>1
    <2> QED
      BY <1>5, <2>1, <2>b, <2>2, <2>3, <2>4
  <1>7. \A i \in 1 .. n : End(list[i]) <= f.addr
    <2> SUFFICES ASSUME NEW i \in 1 .. n PROVE End(list[i]) <= f.addr
      OBVIOUS
    <2>1. i \in 1 .. k /\ list[i] \in [addr : Nat, size : Nat] /\ list[i].addr < f.addr
      BY <1>1, <1>2, <1>5
    <2>2. ClearOf(list[i], f.addr, End(f))
      BY <1>1, <2>1 DEF Clear
    <2> QED
      BY <1>3, <2>1, <2>2 DEF ClearOf, End
  <1>8. \A i \in n + 1 .. k : End(f) <= list[i].addr
    <2> SUFFICES ASSUME NEW i \in n + 1 .. k PROVE End(f) <= list[i].addr
      OBVIOUS
    <2>1. i \in 1 .. k /\ n + 1 \in 1 .. k /\ n < k
      BY <1>1
    <2>2. list[n + 1].addr >= f.addr /\ (n + 1 < i => End(list[n + 1]) < list[i].addr)
      BY <1>1, <1>5, <2>1 DEF Gapped
    <2>3. ClearOf(list[n + 1], f.addr, End(f)) /\ list[n + 1].size >= FreeBlockSize
      BY <1>1, <2>1 DEF Clear, Within, Fitting
    <2>4. list[n + 1] \in [addr : Nat, size : Nat] /\ list[i] \in [addr : Nat, size : Nat]
      BY <1>2, <2>1
    <2>5. End(f) <= list[n + 1].addr
      <3>1. PICK e \in [addr : Nat, size : Nat] : e = list[n + 1]
        BY <2>4
      <3>2. e.addr >= f.addr /\ ClearOf(e, f.addr, End(f)) /\ e.size >= 2
        BY <2>2, <2>3, <3>1 DEF FreeBlockSize
      <3> QED
        BY <1>3, <3>1, <3>2 DEF ClearOf, End
    <2>6. CASE i = n + 1
      BY <2>5, <2>6
    <2>7. CASE n + 1 < i
      <3>1. PICK e \in [addr : Nat, size : Nat], d \in [addr : Nat, size : Nat] :
              e = list[n + 1] /\ d = list[i]
        BY <2>4
      <3>2. End(f) <= e.addr /\ End(e) < d.addr
        BY <2>2, <2>5, <2>7, <3>1
      <3>3. e.addr \in Nat /\ e.size \in Nat /\ d.addr \in Nat /\ End(f) \in Nat
        BY SMTT(30), <1>3, <3>1 DEF End
      <3>4. End(f) <= d.addr
        BY <3>2, <3>3 DEF End
      <3> QED
        BY <3>1, <3>4
    <2> QED
      BY <1>1, <2>6, <2>7
  <1>9. Sorted(r)
    <2> SUFFICES ASSUME NEW i \in 1 .. k + 1, NEW j \in 1 .. k + 1, i < j
                 PROVE  End(r[i]) <= r[j].addr
      BY <1>6 DEF Sorted
    <2>0. \A p, q \in 1 .. k : p < q => End(list[p]) <= list[q].addr
      BY <1>1, <1>2 DEF Gapped, End
    <2>1. CASE j <= n
      BY <1>1, <1>6, <2>0, <2>1
    <2>2. CASE j = n + 1
      BY <1>1, <1>6, <1>7, <2>2
    <2>3. CASE j > n + 1 /\ i <= n
      BY SMTT(30), <1>1, <1>6, <2>0, <2>3
    <2>4. CASE j > n + 1 /\ i = n + 1
      BY <1>1, <1>6, <1>8, <2>4
    <2>5. CASE i > n + 1
      <3>1. i - 1 \in 1 .. k /\ j - 1 \in 1 .. k /\ i - 1 < j - 1
        BY <1>1, <2>5
      <3>2. r[i] = list[i - 1] /\ r[j] = list[j - 1]
        BY SMTT(30), <1>1, <1>6, <2>5
      <3> QED
        BY <2>0, <3>1, <3>2
    <2> QED
      BY <2>1, <2>2, <2>3, <2>4, <2>5
  <1>10. \A i \in 1 .. k + 1 : r[i] = f \/ \E j \in 1 .. k : r[i] = list[j]
    <2> SUFFICES ASSUME NEW i \in 1 .. k + 1 PROVE r[i] = f \/ \E j \in 1 .. k : r[i] = list[j]
      OBVIOUS
    <2>1. CASE i <= n
      BY <1>1, <1>6, <2>1
    <2>2. CASE i > n + 1
      <3>1. i - 1 \in 1 .. k /\ r[i] = list[i - 1]
        BY <1>1, <1>6, <2>2
      <3> QED
        BY <3>1
    <2> QED
      BY <1>6, <2>1, <2>2
  <1>11. Within(r, lo, hi)
    BY <1>1, <1>6, <1>10 DEF Within
  <1>12. ASSUME NEW x \in Nat, NEW y \in Nat, Clear(list, x, y), ClearOf(f, x, y)
         PROVE  Clear(r, x, y)
    BY <1>1, <1>6, <1>10, <1>12 DEF Clear
  <1> QED
    BY <1>6, <1>9, <1>11, <1>12

-----------------------------------------------------------------------------
LEMMA FreeListInitInv ==
  ASSUME FreeListInit
  PROVE  FreeListInv
  <1>1. PICK f : f = [addr |-> flBase, size |-> FlCapacity]
    OBVIOUS
  <1>2. flBase \in Nat /\ flBlocks = {} /\ flFree = <<f>>
    BY <1>1 DEF FreeListInit
  <1>3. f \in Block /\ Fitting(f, flBase, flBase + FlCapacity)
    BY <1>1, <1>2, FreeListAssumption DEF Block, Fitting, End
  <1>4. flFree \in Seq(Block) /\ Len(flFree) = 1 /\ flFree[1] = f
    BY <1>2, <1>3
  <1>5. Gapped(flFree) /\ Within(flFree, flBase, flBase + FlCapacity)
    BY <1>3, <1>4 DEF Gapped, Within
  <1> QED
    BY <1>2, <1>4, <1>5 DEF FreeListInv

LEMMA FreeStep ==
  ASSUME FreeListInv, NEW z \in flBlocks, FlDeallocate(z)
  PROVE  FreeListInv'
  <1> DEFINE lo == flBase
             hi == flBase + FlCapacity
  <1>1. lo \in Nat /\ hi \in Nat
    BY FreeListAssumption DEF FreeListInv
  <1>2. PICK f \in Block : f = Extent(z) /\ Fitting(f, lo, hi) /\ Clear(flFree, f.addr, End(f))
    BY DEF FreeListInv
  <1>3. flFree \in Seq(Block) /\ Gapped(flFree) /\ Within(flFree, lo, hi)
    BY DEF FreeListInv
  <1> HIDE DEF lo, hi
  <1>4. PICK s \in Seq(Block) :
          /\ s = InsertSorted(flFree, f) /\ Sorted(s) /\ Within(s, lo, hi)
          /\ \A x, y \in Nat : Clear(flFree, x, y) /\ ClearOf(f, x, y) => Clear(s, x, y)
    BY <1>1, <1>2, <1>3, InsertedList
  <1>5. PICK r \in Seq(Block) :
          /\ r = CoalesceFreeBlocks(s) /\ Gapped(r) /\ Within(r, lo, hi)
          /\ \A x, y \in Nat : x < y /\ Clear(s, x, y) => Clear(r, x, y)
    BY <1>1, <1>4, CoalescedList
  <1>6. flFree' = r /\ flBlocks' = flBlocks \ {z} /\ flBase' = flBase
    BY <1>2, <1>4, <1>5 DEF FlDeallocate
  <1>7. ASSUME NEW w \in flBlocks, w # z
        PROVE  Clear(r, Extent(w).addr, End(Extent(w)))
    <2>1. PICK e \in Block : e = Extent(w) /\ Fitting(e, lo, hi) /\ Clear(flFree, e.addr, End(e))
      BY DEF FreeListInv, lo, hi
    <2>2. ClearOf(f, e.addr, End(e))
      BY <1>2, <1>7, <2>1 DEF FreeListInv
    <2>3. e.addr \in Nat /\ End(e) \in Nat /\ e.addr < End(e)
      BY <1>1, <2>1 DEF Block, End, Fitting, FreeBlockSize
    <2> QED
      BY <1>4, <1>5, <2>1, <2>2, <2>3
  <1>8. \A w \in flBlocks' : Extent(w) \in Block /\ Fitting(Extent(w), lo, hi)
    BY <1>6 DEF FreeListInv, lo, hi
  <1>9. /\ flBlocks' \subseteq [ptr : Nat, size : Nat, padding : Nat]
        /\ \A w, v \in flBlocks' : w # v => ClearOf(Extent(w), Extent(v).addr, End(Extent(v)))
    BY <1>6 DEF FreeListInv
  <1>10. flBase' \in Nat /\ flFree' \in Seq(Block) /\ Gapped(flFree') /\ Within(flFree', flBase', flBase' + FlCapacity)
    BY <1>1, <1>5, <1>6 DEF lo, hi
  <1>11. \A w \in flBlocks' : Clear(flFree', Extent(w).addr, End(Extent(w)))
    BY <1>6, <1>7
  <1> QED
    BY <1>6, <1>8, <1>9, <1>10, <1>11 DEF FreeListInv, lo, hi, Gapped, Within, Clear

(* The first block that fits is used from its beginning, and the rest of   *)
(* it, if any, keeps its place.                                            *)
LEMMA TakenList ==
  ASSUME NEW list \in Seq(Block), NEW lo \in Nat, NEW hi \in Nat, NEW i \in 1 .. Len(list),
         NEW total \in Nat, Gapped(list), Within(list, lo, hi), total <= list[i].size
  PROVE  \E r \in Seq(Block) :
            /\ r = SubSeq(list, 1, i - 1) \o Split(list[i], total) \o SubSeq(list, i + 1, Len(list))
            /\ Gapped(r) /\ Within(r, lo, hi)
            /\ Clear(r, list[i].addr, list[i].addr + total)
            /\ \A x, y \in Nat : Clear(list, x, y) => Clear(r, x, y)
  <1>1. PICK k \in Nat : k = Len(list)
    OBVIOUS
  <1>2. \A j \in 1 .. k : list[j] \in [addr : Nat, size : Nat]
    <2>1. \A j \in 1 .. k : list[j] \in Block
      BY <1>1
    <2> QED
      BY <2>1 DEF Block
  <1>3. PICK g \in [addr : Nat, size : Nat] : g = list[i]
    BY <1>1, <1>2
  <1>4. PICK e : e = [addr |-> g.addr + total, size |-> g.size - total]
    OBVIOUS
  <1>5. PICK t, m, n : t = Split(g, total) /\ m = i + 1 /\ n = i - 1
    OBVIOUS
  <1>6. m \in 1 .. Len(list) + 1 /\ n \in 0 .. Len(list) /\ n < m /\ n \in Nat /\ m = n + 2 /\ i = n + 1
    BY <1>1, <1>5
  <1>7. g.addr \in Nat /\ g.size \in Nat /\ total <= g.size /\ Fitting(g, lo, hi)
    BY <1>1, <1>3 DEF Within
  <1>8. PICK r : r = SubSeq(list, 1, n) \o t \o SubSeq(list, m, Len(list))
    OBVIOUS
  \* Whatever is left of it, each block is one of the list, or what is left, at the place it had.
  <1>9. /\ \A j \in 1 .. n : list[j] \in [addr : Nat, size : Nat] /\ End(list[j]) < g.addr
        /\ \A j \in n + 2 .. k : list[j] \in [addr : Nat, size : Nat] /\ End(g) < list[j].addr
    <2>1. \A p, q \in 1 .. k : p < q => End(list[p]) < list[q].addr
      BY <1>1 DEF Gapped
    <2>0. k \in Nat /\ n \in Nat /\ i = n + 1 /\ i <= k /\ i \in 1 .. k
      BY <1>1, <1>6
    <2>2. ASSUME NEW j \in 1 .. n PROVE j \in 1 .. k /\ j < i
      BY <2>0
    <2>3. ASSUME NEW j \in n + 2 .. k PROVE j \in 1 .. k /\ i < j
      BY <2>0
    <2> QED
      BY <1>2, <1>3, <2>0, <2>1, <2>2, <2>3
  <1>10. CASE g.size - total > FreeBlockSize
    <2>1. e \in Block /\ e.addr = g.addr + total /\ e.size = g.size - total /\ e.addr \in Nat /\ e.size \in Nat
      BY SMTT(30), <1>4, <1>7, <1>10 DEF Block, FreeBlockSize
    <2>2. t = <<e>>
      BY <1>4, <1>5, <1>10 DEF Split
    <2>3. t \in Seq(Block) /\ Len(t) = 1 /\ t[1] = e
      BY <2>1, <2>2
    <2>4. IsSplice(Block, r, list, n, t, m)
      BY <1>6, <1>8, <2>3, Spliced
    <2>5. /\ r \in Seq(Block) /\ Len(r) = k
          /\ \A j \in 1 .. n : r[j] = list[j]
      BY <1>1, <1>6, <2>3, <2>4 DEF IsSplice
    <2>6. r[n + 1] = e
      <3>1. n + 1 \in n + 1 .. n + Len(t) /\ (n + 1) - n = 1
        BY <1>6, <2>3
      <3>2. r[n + 1] = t[(n + 1) - n]
        BY <2>4, <3>1 DEF IsSplice
      <3> QED
        BY <2>3, <3>1, <3>2
    <2>7. ASSUME NEW j \in n + 2 .. k PROVE r[j] = list[j]
      <3>1. j \in n + Len(t) + 1 .. Len(r) /\ j - n - Len(t) + m - 1 = j
        BY <1>1, <1>6, <2>3, <2>5
      <3>2. r[j] = list[j - n - Len(t) + m - 1]
        BY <2>4, <3>1 DEF IsSplice
      <3> QED
        BY <3>1, <3>2
    <2>8. End(e) = End(g) /\ g.addr <= e.addr /\ Fitting(e, lo, hi)
      <3>1. End(e) = End(g) /\ g.addr <= e.addr
        BY <1>7, <2>1 DEF End
      <3>2. e.size >= FreeBlockSize
        BY <1>7, <1>10, <2>1 DEF FreeBlockSize
      <3>3. lo <= g.addr /\ End(g) <= hi
        BY <1>7 DEF Fitting
      <3> QED
        BY <1>7, <2>1, <3>1, <3>2, <3>3 DEF Fitting
    <2>9. Gapped(r)
      <3> SUFFICES ASSUME NEW p \in 1 .. k, NEW q \in 1 .. k, p < q
                   PROVE  End(r[p]) < r[q].addr
        BY <2>5 DEF Gapped
      <3>0. End(list[p]) < list[q].addr
        BY <1>1 DEF Gapped
      <3>1. CASE p # n + 1 /\ q # n + 1
        BY <1>6, <2>5, <2>7, <3>0, <3>1
      <3>2. CASE p = n + 1
        <4>1. q \in n + 2 .. k
          BY <1>6, <3>2
        <4> QED
          BY <1>9, <2>6, <2>7, <2>8, <3>2, <4>1
      <3>3. CASE q = n + 1
        <4>1. p \in 1 .. n /\ End(list[p]) < g.addr /\ End(list[p]) \in Nat
          BY SMTT(30), <1>6, <1>9, <3>3 DEF End
        <4> QED
          BY SMTT(30), <1>7, <2>1, <2>5, <2>6, <2>8, <3>3, <4>1
      <3> QED
        BY <3>1, <3>2, <3>3
    <2>10. Within(r, lo, hi)
      <3> SUFFICES ASSUME NEW j \in 1 .. k PROVE Fitting(r[j], lo, hi)
        BY <2>5 DEF Within
      <3>1. Fitting(list[j], lo, hi)
        BY <1>1 DEF Within
      <3>2. j \in 1 .. n \/ j = n + 1 \/ j \in n + 2 .. k
        BY <1>6
      <3> QED
        BY <2>5, <2>6, <2>7, <2>8, <3>1, <3>2
    <2>11. Clear(r, g.addr, g.addr + total)
      <3> SUFFICES ASSUME NEW j \in 1 .. k PROVE ClearOf(r[j], g.addr, g.addr + total)
        BY <2>5 DEF Clear
      <3>1. CASE j \in 1 .. n
        BY <1>7, <1>9, <2>5, <3>1 DEF ClearOf, End
      <3>2. CASE j = n + 1
        BY <1>7, <2>1, <2>6, <3>2 DEF ClearOf
      <3>3. CASE j \in n + 2 .. k
        BY SMTT(30), <1>7, <1>9, <2>7, <3>3 DEF ClearOf, End
      <3> QED
        BY <1>6, <3>1, <3>2, <3>3
    <2>12. ASSUME NEW x \in Nat, NEW y \in Nat, Clear(list, x, y) PROVE Clear(r, x, y)
      <3> SUFFICES ASSUME NEW j \in 1 .. k PROVE ClearOf(r[j], x, y)
        BY <2>5 DEF Clear
      <3>1. ClearOf(list[j], x, y) /\ ClearOf(g, x, y)
        BY <1>1, <1>3, <2>12 DEF Clear
      <3>2. ClearOf(e, x, y)
        BY <1>7, <2>1, <2>8, <3>1 DEF ClearOf
      <3>3. j \in 1 .. n \/ j = n + 1 \/ j \in n + 2 .. k
        BY <1>6
      <3> QED
        BY <2>5, <2>6, <2>7, <3>1, <3>2, <3>3
    <2> QED
      BY <1>3, <1>5, <1>8, <2>5, <2>9, <2>10, <2>11, <2>12
  <1>11. CASE ~(g.size - total > FreeBlockSize)
    <2>1. t = <<>>
      BY <1>5, <1>11 DEF Split
    <2>2. t \in Seq(Block) /\ Len(t) = 0
      BY <2>1
    <2>3. IsSplice(Block, r, list, n, t, m)
      BY <1>6, <1>8, <2>2, Spliced
    <2>4. /\ r \in Seq(Block) /\ Len(r) = k - 1
          /\ \A j \in 1 .. n : r[j] = list[j]
      BY <1>1, <1>6, <2>2, <2>3 DEF IsSplice
    <2>5. ASSUME NEW j \in n + 1 .. k - 1 PROVE r[j] = list[j + 1]
      <3>1. j \in n + Len(t) + 1 .. Len(r) /\ j - n - Len(t) + m - 1 = j + 1
        BY <1>1, <1>6, <2>2, <2>4
      <3>2. r[j] = list[j - n - Len(t) + m - 1]
        BY <2>3, <3>1 DEF IsSplice
      <3> QED
        BY <3>1, <3>2
    <2> DEFINE from(j) == IF j <= n THEN j ELSE j + 1
    <2>6. \A j \in 1 .. k - 1 : /\ from(j) \in 1 .. k /\ r[j] = list[from(j)]
                                /\ from(j) \in 1 .. n \/ from(j) \in n + 2 .. k
      BY <1>1, <1>6, <2>4, <2>5
    <2>7. \A p, q \in 1 .. k - 1 : p < q => from(p) < from(q)
      BY <1>1, <1>6
    <2> HIDE DEF from
    <2>8. Gapped(r)
      BY <1>1, <2>4, <2>6, <2>7 DEF Gapped
    <2>9. Within(r, lo, hi)
      BY <1>1, <2>4, <2>6 DEF Within
    <2>10. Clear(r, g.addr, g.addr + total)
      <3> SUFFICES ASSUME NEW j \in 1 .. k - 1 PROVE ClearOf(r[j], g.addr, g.addr + total)
        BY <2>4 DEF Clear
      <3>1. r[j] = list[from(j)] /\ (from(j) \in 1 .. n \/ from(j) \in n + 2 .. k)
        BY <2>6
      <3>2. CASE from(j) \in 1 .. n
        BY <1>7, <1>9, <3>1, <3>2 DEF ClearOf, End
      <3>3. CASE from(j) \in n + 2 .. k
        BY SMTT(30), <1>7, <1>9, <3>1, <3>3 DEF ClearOf, End
      <3> QED
        BY <3>1, <3>2, <3>3
    <2>11. ASSUME NEW x \in Nat, NEW y \in Nat, Clear(list, x, y) PROVE Clear(r, x, y)
      BY <1>1, <2>4, <2>6, <2>11 DEF Clear
    <2> QED
      BY <1>3, <1>5, <1>8, <2>4, <2>8, <2>9, <2>10, <2>11
  <1> QED
    BY <1>10, <1>11

LEMMA AllocateStep ==
  ASSUME FreeListInv, NEW size \in FlSizes, NEW alignment \in FlAlignments, FlAllocate(size, alignment)
  PROVE  FreeListInv'
  <1> DEFINE lo == flBase
             hi == flBase + FlCapacity
  <1>1. lo \in Nat /\ hi \in Nat /\ size \in Nat /\ alignment \in Nat /\ alignment > 0
    BY FreeListAssumption DEF FreeListInv
  <1>2. flFree \in Seq(Block) /\ Gapped(flFree) /\ Within(flFree, lo, hi)
    BY DEF FreeListInv
  <1>3. PICK i \in 1 .. Len(flFree) :
          /\ flFree[i].size >= TotalSize(flFree[i].addr, size, alignment)
          /\ flFree' = SubSeq(flFree, 1, i - 1)
                         \o Split(flFree[i], TotalSize(flFree[i].addr, size, alignment))
                         \o SubSeq(flFree, i + 1, Len(flFree))
          /\ flBlocks' = flBlocks \cup
                {[ptr |-> AlignUp(flFree[i].addr + HeaderSize, alignment), size |-> size,
                  padding |-> PaddingAt(flFree[i].addr, alignment)]}
    <2>1. DOMAIN flFree = 1 .. Len(flFree)
      BY <1>2
    <2> QED
      BY <2>1, Zenon DEF FlAllocate, Fits
  <1>4. PICK g \in Block : g = flFree[i] /\ Fitting(g, lo, hi)
    BY <1>2, <1>3 DEF Within
  <1>5. g.addr \in Nat /\ g.size \in Nat
    BY <1>4 DEF Block
  <1>6. PICK p \in Nat : p = AlignUp(g.addr + HeaderSize, alignment) /\ p >= g.addr + 2
    <2>1. g.addr + HeaderSize \in Nat /\ g.addr + HeaderSize = g.addr + 2
      BY <1>5 DEF HeaderSize
    <2>2. /\ AlignUp(g.addr + HeaderSize, alignment) \in Nat
          /\ AlignUp(g.addr + HeaderSize, alignment) >= g.addr + HeaderSize
      BY <1>1, <2>1, AlignUpAbove
    <2> QED
      BY <2>1, <2>2
  <1>7. PICK pad \in Nat : pad = PaddingAt(g.addr, alignment) /\ pad = p - (g.addr + 2)
    BY <1>5, <1>6 DEF PaddingAt, HeaderSize
  <1>8. PICK total \in Nat : total = TotalSize(g.addr, size, alignment) /\ total = 2 + pad + size
    BY <1>1, <1>7 DEF TotalSize, HeaderSize
  <1>9. PICK z : z = [ptr |-> p, size |-> size, padding |-> pad]
    OBVIOUS
  <1>10. z \in [ptr : Nat, size : Nat, padding : Nat] /\ z.ptr = p /\ z.size = size /\ z.padding = pad
    BY <1>1, <1>9
  <1>11. PICK f : f = Extent(z)
    OBVIOUS
  <1>12. f \in Block /\ f.addr = g.addr /\ f.size = total /\ End(f) = g.addr + total
    <2>1. BlockAddr(z) = g.addr /\ BlockSize(z) = total
      <3>1. BlockAddr(z) = p - 2 - pad /\ BlockSize(z) = 2 + pad + size
        BY <1>10 DEF BlockAddr, BlockSize, HeaderSize
      <3>2. p - 2 - pad = g.addr
        BY <1>5, <1>6, <1>7
      <3> QED
        BY <1>8, <3>1, <3>2
    <2>2. f = [addr |-> g.addr, size |-> total]
      BY <1>11, <2>1 DEF Extent
    <2> QED
      BY <1>5, <2>2 DEF Block, End
  <1> HIDE DEF lo, hi
  <1>13. total <= g.size
    BY <1>3, <1>4, <1>5, <1>8
  <1>14. PICK r \in Seq(Block) :
           /\ r = SubSeq(flFree, 1, i - 1) \o Split(flFree[i], total) \o SubSeq(flFree, i + 1, Len(flFree))
           /\ Gapped(r) /\ Within(r, lo, hi) /\ Clear(r, g.addr, g.addr + total)
           /\ \A x, y \in Nat : Clear(flFree, x, y) => Clear(r, x, y)
    BY <1>1, <1>2, <1>4, <1>13, TakenList
  <1>15. flFree' = r /\ flBlocks' = flBlocks \cup {z} /\ flBase' = flBase
    BY <1>3, <1>4, <1>6, <1>7, <1>8, <1>9, <1>14 DEF FlAllocate
  <1>16. Fitting(f, lo, hi) /\ Clear(r, f.addr, End(f))
    <2>1. f.size >= FreeBlockSize
      BY <1>1, <1>7, <1>8, <1>12 DEF FreeBlockSize
    <2>2. f.addr >= lo /\ End(f) <= hi
      BY <1>1, <1>4, <1>5, <1>12, <1>13 DEF Fitting, End
    <2> QED
      BY <1>12, <1>14, <2>1, <2>2 DEF Fitting
  <1>17. ASSUME NEW w \in flBlocks
         PROVE  /\ Extent(w) \in Block /\ Fitting(Extent(w), lo, hi)
                /\ Clear(r, Extent(w).addr, End(Extent(w)))
                /\ ClearOf(Extent(w), f.addr, End(f)) /\ ClearOf(f, Extent(w).addr, End(Extent(w)))
    <2>1. PICK e \in Block : e = Extent(w) /\ Fitting(e, lo, hi) /\ Clear(flFree, e.addr, End(e))
      BY DEF FreeListInv, lo, hi
    <2>2. e.addr \in Nat /\ e.size \in Nat /\ End(e) = e.addr + e.size /\ End(e) \in Nat
      BY <2>1 DEF Block, End
    <2>3. Clear(r, e.addr, End(e))
      BY <1>14, <2>1, <2>2
    <2>4. ClearOf(g, e.addr, End(e))
      BY <1>3, <1>4, <2>1 DEF Clear
    <2>5. f.addr = g.addr /\ End(f) <= End(g) /\ f.addr \in Nat /\ End(f) \in Nat /\ End(g) \in Nat
      BY <1>5, <1>12, <1>13 DEF End
    <2>6. End(e) <= f.addr \/ End(f) <= e.addr
      BY <2>2, <2>4, <2>5 DEF ClearOf
    <2> QED
      BY <2>1, <2>3, <2>6 DEF ClearOf
  <1>18. /\ flBase' \in Nat /\ flFree' \in Seq(Block) /\ Gapped(flFree')
         /\ Within(flFree', flBase', flBase' + FlCapacity)
    BY <1>1, <1>14, <1>15 DEF lo, hi
  <1>19. flBlocks' \subseteq [ptr : Nat, size : Nat, padding : Nat]
    BY <1>10, <1>15 DEF FreeListInv
  <1>20. \A w \in flBlocks' : /\ Extent(w) \in Block /\ Fitting(Extent(w), lo, hi)
                              /\ Clear(flFree', Extent(w).addr, End(Extent(w)))
    BY <1>11, <1>12, <1>15, <1>16, <1>17
  <1>21. \A w, v \in flBlocks' : w # v => ClearOf(Extent(w), Extent(v).addr, End(Extent(v)))
    BY <1>11, <1>15, <1>17 DEF FreeListInv
  <1> QED
    BY <1>15, <1>18, <1>19, <1>20, <1>21 DEF FreeListInv, lo, hi, Gapped, Within, Clear

LEMMA FreeListStep ==
  ASSUME FreeListInv, [FreeListNext]_freeListVars
  PROVE  FreeListInv'
  <1>1. CASE UNCHANGED freeListVars
    BY <1>1 DEF freeListVars, FreeListInv, Gapped, Within, Clear
  <1>2. ASSUME NEW size \in FlSizes, NEW alignment \in FlAlignments, FlAllocate(size, alignment)
        PROVE  FreeListInv'
    BY <1>2, AllocateStep
  <1>3. ASSUME NEW z \in flBlocks, FlDeallocate(z)
        PROVE  FreeListInv'
    BY <1>3, FreeStep
  <1> QED
    BY <1>1, <1>2, <1>3 DEF FreeListNext

LEMMA ApartIfClear ==
  ASSUME NEW e \in Block, NEW f \in Block, ClearOf(e, f.addr, End(f))
  PROVE  Apart(e, f)
  BY DEF Block, ClearOf, End, Apart, Words

LEMMA InvFreeListIsSound ==
  ASSUME FreeListInv
  PROVE  FreeListIsSound
  <1>1. flBase \in Nat /\ FlCapacity \in Nat /\ flFree \in Seq(Block) /\ Len(flFree) \in Nat
    BY FreeListAssumption DEF FreeListInv
  <1>2. ToSet(flFree) = {flFree[i] : i \in 1 .. Len(flFree)} /\ DOMAIN flFree = 1 .. Len(flFree)
    BY <1>1 DEF ToSet
  <1>3. \A f \in ToSet(flFree) : f \in Block /\ Fitting(f, flBase, flBase + FlCapacity)
    BY <1>1, <1>2 DEF FreeListInv, Within
  <1>4. ASSUME NEW e \in {Extent(x) : x \in flBlocks} \cup ToSet(flFree)
        PROVE  Words(e.addr, e.size) \subseteq Words(flBase, FlCapacity) /\ e.size >= FreeBlockSize
    <2>1. e \in Block /\ Fitting(e, flBase, flBase + FlCapacity)
      BY <1>3 DEF FreeListInv
    <2> QED
      BY <1>1, <2>1 DEF Block, Fitting, End, Words
  <1>5. ASSUME NEW x \in flBlocks, NEW y \in flBlocks, x # y PROVE Apart(Extent(x), Extent(y))
    <2>1. /\ Extent(x) \in Block /\ Extent(y) \in Block
          /\ ClearOf(Extent(x), Extent(y).addr, End(Extent(y)))
      BY <1>5 DEF FreeListInv
    <2> QED
      BY <2>1, ApartIfClear
  <1>6. ASSUME NEW x \in flBlocks, NEW f \in ToSet(flFree) PROVE Apart(Extent(x), f)
    <2>1. /\ Extent(x) \in Block /\ f \in Block
          /\ ClearOf(f, Extent(x).addr, End(Extent(x)))
      BY <1>2, <1>3 DEF FreeListInv, Clear
    <2>2. Apart(f, Extent(x))
      BY <2>1, ApartIfClear
    <2> QED
      BY <2>2 DEF Apart
  <1>7. \A i, j \in DOMAIN flFree : i < j => flFree[i].addr + flFree[i].size < flFree[j].addr
    BY <1>2 DEF FreeListInv, Gapped, End
  <1> QED
    BY <1>4, <1>5, <1>6, <1>7 DEF FreeListIsSound

(***************************************************************************)
(* CStackAllocator, CLinearAllocator and CPoolAllocator.                   *)
(***************************************************************************)
ArBlock == [ptr : Nat, size : Nat, padding : Nat]

\* From lo to hi, one behind the other, each with a header of h words and its padding in front.
Lies(x, h, lo, hi) == lo + h + x.padding <= x.ptr /\ x.ptr + x.size <= hi
Follows(x, y, h) == x.ptr + x.size + h + y.padding <= y.ptr
Piled(held, h, lo, hi) ==
    /\ \A i \in 1 .. Len(held) : Lies(held[i], h, lo, hi)
    /\ \A i, j \in 1 .. Len(held) : i < j => Follows(held[i], held[j], h)

\* The stack knows its last allocation as long as nothing was taken back after it.
BumpInv ==
    arKind # "pool" =>
       /\ arFree = <<>>
       /\ arOffset \in Nat /\ arOffset <= ArCapacity
       /\ Piled(arHeld, ArHeaderSize, arBase, arBase + arOffset)
       /\ arLast # 0 => /\ arHeld # <<>> /\ Last(arHeld).ptr = arLast
                        /\ arLast + Last(arHeld).size = arBase + arOffset

Slots == {arBase + k * ObjectSize : k \in 0 .. ArObjects - 1}

\* Each object is with the caller, once, or on the free list, once.
PoolInv ==
    arKind = "pool" =>
       /\ arFree \in Seq(Slots) /\ Distinct(arFree)
       /\ \A i \in 1 .. Len(arHeld) : /\ arHeld[i].ptr \in Slots \ ToSet(arFree)
                                     /\ arHeld[i].size = ObjectSize /\ arHeld[i].padding = 0
       /\ \A i, j \in 1 .. Len(arHeld) : i # j => arHeld[i].ptr # arHeld[j].ptr

DataOf(held) == UNION {DataWords(held[i]) : i \in DOMAIN held}

UsageInv ==
    /\ arUsage \in Nat /\ arKept \in Nat
    /\ IsFiniteSet(DataOf(arHeld)) /\ arUsage = Cardinality(DataOf(arHeld)) + arKept

ArenaInv ==
    /\ arKind \in {"stack", "pool", "linear"}
    /\ arBase \in Nat /\ arBase > 0
    /\ arHeld \in Seq(ArBlock)
    /\ BumpInv /\ PoolInv /\ UsageInv

-----------------------------------------------------------------------------
LEMMA AddedWords ==
  ASSUME NEW W, IsFiniteSet(W), NEW x \in ArBlock, W \cap DataWords(x) = {}
  PROVE  /\ IsFiniteSet(W \cup DataWords(x))
         /\ Cardinality(W \cup DataWords(x)) = Cardinality(W) + x.size
         /\ Cardinality(W) \in Nat
  <1>1. x.ptr \in Nat /\ x.size \in Nat
    BY DEF ArBlock
  <1>2. PICK l \in Int, h \in Int : l = x.ptr /\ h = x.ptr + x.size - 1
    BY <1>1
  <1>3. IsFiniteSet(l .. h) /\ Cardinality(l .. h) = IF l > h THEN 0 ELSE h - l + 1
    BY FS_Interval, Zenon
  <1>4. DataWords(x) = l .. h
    BY <1>2 DEF DataWords
  <1>5. IsFiniteSet(DataWords(x)) /\ Cardinality(DataWords(x)) = x.size
    <2>1. (IF l > h THEN 0 ELSE h - l + 1) = x.size
      BY <1>1, <1>2
    <2> QED
      BY <1>3, <1>4, <2>1
  <1>6. /\ IsFiniteSet(W \cup DataWords(x))
        /\ Cardinality(W \cup DataWords(x)) = Cardinality(W) + x.size - Cardinality(W \cap DataWords(x))
    BY <1>5, FS_Union, Zenon
  <1>7. Cardinality(W \cap DataWords(x)) = 0 /\ Cardinality(W) \in Nat
    BY FS_EmptySet, FS_CardinalityType, Zenon
  <1> QED
    BY <1>1, <1>6, <1>7

\* The words of r are those of s without those of x.
IsWithout(r, s, x) ==
    /\ r \in Seq(ArBlock) /\ x \in ArBlock
    /\ DataOf(s) = DataOf(r) \cup DataWords(x) /\ DataOf(r) \cap DataWords(x) = {}

LEMMA WithoutWords ==
  ASSUME NEW r, NEW s, NEW x, IsWithout(r, s, x)
  PROVE  /\ IsFiniteSet(DataOf(r)) <=> IsFiniteSet(DataOf(s))
         /\ IsFiniteSet(DataOf(r)) => /\ Cardinality(DataOf(r)) \in Nat /\ x.size \in Nat
                                      /\ Cardinality(DataOf(s)) = Cardinality(DataOf(r)) + x.size
  <1>1. x \in ArBlock /\ DataOf(s) = DataOf(r) \cup DataWords(x) /\ DataOf(r) \cap DataWords(x) = {}
    BY DEF IsWithout
  <1>2. IsFiniteSet(DataOf(s)) => IsFiniteSet(DataOf(r))
    <2>1. DataOf(r) \in SUBSET DataOf(s)
      BY <1>1, Zenon
    <2> QED
      BY <2>1, FS_Subset, Zenon
  <1>3. ASSUME IsFiniteSet(DataOf(r))
        PROVE  /\ IsFiniteSet(DataOf(s)) /\ Cardinality(DataOf(r)) \in Nat
               /\ Cardinality(DataOf(s)) = Cardinality(DataOf(r)) + x.size
    BY <1>1, <1>3, AddedWords, Zenon
  <1>4. x.size \in Nat
    BY <1>1 DEF ArBlock
  <1> QED
    BY <1>2, <1>3, <1>4

\* s is r with x at place n, and the others in order.
IsRemoval(r, s, n) ==
    /\ r \in Seq(ArBlock) /\ Len(r) = Len(s) - 1
    /\ \A i \in 1 .. n - 1 : r[i] = s[i]
    /\ \A i \in n .. Len(r) : r[i] = s[i + 1]

LEMMA RemovedWords ==
  ASSUME NEW s \in Seq(ArBlock), NEW n \in 1 .. Len(s), NEW r, IsRemoval(r, s, n),
         \A i \in 1 .. Len(s) : i # n => DataWords(s[i]) \cap DataWords(s[n]) = {}
  PROVE  IsWithout(r, s, s[n])
  <1>1. PICK k \in Nat : k = Len(s) /\ n \in Nat /\ n >= 1 /\ n <= k
    OBVIOUS
  <1>2. /\ r \in Seq(ArBlock) /\ Len(r) = k - 1
        /\ DOMAIN r = 1 .. k - 1 /\ DOMAIN s = 1 .. k
        /\ \A i \in 1 .. n - 1 : r[i] = s[i]
        /\ \A i \in n .. k - 1 : r[i] = s[i + 1]
    <2>1. /\ r \in Seq(ArBlock) /\ Len(r) = Len(s) - 1
          /\ \A i \in 1 .. n - 1 : r[i] = s[i]
          /\ \A i \in n .. Len(r) : r[i] = s[i + 1]
      BY DEF IsRemoval
    <2>2. Len(r) = k - 1
      BY <1>1, <2>1, Zenon
    <2>3. DOMAIN r = 1 .. Len(r) /\ DOMAIN s = 1 .. Len(s)
      BY <2>1
    <2> QED
      BY <1>1, <2>1, <2>2, <2>3, Zenon
  <1>3. ASSUME NEW i \in 1 .. k - 1 PROVE \E j \in 1 .. k : j # n /\ r[i] = s[j]
    <2>1. CASE i < n
      BY <1>1, <1>2, <2>1
    <2>2. CASE i >= n
      <3>1. r[i] = s[i + 1] /\ i + 1 \in 1 .. k /\ i + 1 # n
        BY <1>1, <1>2, <2>2
      <3> QED
        BY <3>1
    <2> QED
      BY <1>1, <2>1, <2>2
  <1>4. ASSUME NEW j \in 1 .. k, j # n PROVE \E i \in 1 .. k - 1 : r[i] = s[j]
    <2>1. CASE j < n
      BY <1>1, <1>2, <2>1
    <2>2. CASE j > n
      <3>1. j - 1 \in n .. k - 1 /\ j - 1 \in 1 .. k - 1 /\ (j - 1) + 1 = j
        BY <1>1, <2>2
      <3> QED
        BY <1>2, <3>1
    <2> QED
      BY <1>1, <1>4, <2>1, <2>2
  <1>5. ASSUME NEW w \in DataOf(r) PROVE w \in DataOf(s) /\ w \notin DataWords(s[n])
    <2>1. PICK i \in 1 .. k - 1 : w \in DataWords(r[i])
      BY <1>2 DEF DataOf
    <2>2. PICK j \in 1 .. k : j # n /\ r[i] = s[j]
      BY <1>3
    <2>3. w \in DataWords(s[j])
      BY <2>1, <2>2
    <2>4. DataWords(s[j]) \cap DataWords(s[n]) = {}
      BY <1>1, <2>2
    <2> QED
      BY <1>2, <2>3, <2>4, Zenon DEF DataOf
  <1>6. ASSUME NEW w \in DataOf(s), w \notin DataWords(s[n]) PROVE w \in DataOf(r)
    <2>1. PICK j \in 1 .. k : w \in DataWords(s[j])
      BY <1>2 DEF DataOf
    <2>2. PICK i \in 1 .. k - 1 : r[i] = s[j]
      BY <1>4, <1>6, <2>1, Zenon
    <2>3. w \in DataWords(r[i])
      BY <2>1, <2>2, Zenon
    <2> QED
      BY <1>2, <2>3, Zenon DEF DataOf
  <1>7. DataWords(s[n]) \subseteq DataOf(s)
    BY <1>1, <1>2, Zenon DEF DataOf
  <1>8. s[n] \in ArBlock
    OBVIOUS
  <1> QED
    BY <1>2, <1>5, <1>6, <1>7, <1>8, Zenon DEF IsWithout

LEMMA RemovedList ==
  ASSUME NEW s \in Seq(ArBlock), NEW n \in 1 .. Len(s)
  PROVE  IsRemoval(RemoveAt(s, n), s, n)
  <1>1. PICK k \in Nat : k = Len(s) /\ n \in Nat /\ n >= 1 /\ n <= k
    OBVIOUS
  <1>2. PICK p : p = SubSeq(s, 1, n - 1)
    OBVIOUS
  <1>3. p \in Seq(ArBlock) /\ Len(p) = n - 1 /\ \A i \in 1 .. n - 1 : p[i] = s[i]
    BY <1>1, <1>2
  <1>4. PICK q : q = SubSeq(s, n + 1, Len(s))
    OBVIOUS
  <1>5. q \in Seq(ArBlock) /\ Len(q) = k - n /\ \A i \in 1 .. k - n : q[i] = s[i + n]
    BY <1>1, <1>4
  <1>6. PICK r : r = p \o q
    OBVIOUS
  <1>7. /\ r \in Seq(ArBlock) /\ Len(r) = Len(p) + Len(q)
        /\ \A i \in 1 .. Len(p) + Len(q) : r[i] = IF i <= Len(p) THEN p[i] ELSE q[i - Len(p)]
    BY <1>3, <1>5, <1>6, ConcatProperties, Zenon
  <1>8. /\ Len(r) = k - 1
        /\ \A i \in 1 .. k - 1 : r[i] = IF i <= n - 1 THEN p[i] ELSE q[i - (n - 1)]
    <2>0. (n - 1) + (k - n) = k - 1
      BY <1>1
    <2>1. Len(p) + Len(q) = k - 1
      BY <1>3, <1>5, <2>0, Zenon
    <2> QED
      BY <1>3, <1>7, <2>1
  <1>9. \A i \in 1 .. n - 1 : r[i] = s[i]
    BY SMTT(30), <1>1, <1>3, <1>8
  <1>10. ASSUME NEW i \in n .. k - 1 PROVE r[i] = s[i + 1]
    <2>1. r[i] = q[i - (n - 1)] /\ i - (n - 1) \in 1 .. k - n /\ (i - (n - 1)) + n = i + 1
      BY <1>1, <1>8
    <2> QED
      BY <1>5, <2>1
  <1>11. IsRemoval(r, s, n)
    BY <1>7, <1>8, <1>9, <1>10, <1>1 DEF IsRemoval
  <1> QED
    BY <1>2, <1>4, <1>6, <1>11 DEF RemoveAt

LEMMA FrontList ==
  ASSUME NEW s \in Seq(ArBlock), s # <<>>
  PROVE  IsRemoval(Front(s), s, Len(s)) /\ Len(s) \in 1 .. Len(s) /\ Last(s) = s[Len(s)]
  <1>1. Len(s) \in Nat /\ Len(s) >= 1
    OBVIOUS
  <1>2. PICK k \in Nat : k = Len(s) /\ k >= 1
    BY <1>1
  <1>3. PICK r : r = SubSeq(s, 1, Len(s) - 1)
    OBVIOUS
  <1>4. r \in Seq(ArBlock) /\ Len(r) = k - 1 /\ \A i \in 1 .. k - 1 : r[i] = s[i]
    BY <1>2, <1>3
  <1>5. \A i \in k .. k - 1 : r[i] = s[i + 1]
    BY <1>2
  <1>6. IsRemoval(r, s, Len(s))
    BY <1>2, <1>4, <1>5, Zenon DEF IsRemoval
  <1> QED
    BY <1>1, <1>3, <1>6 DEF Front, Last

LEMMA AppendedList ==
  ASSUME NEW s \in Seq(ArBlock), NEW x \in ArBlock
  PROVE  /\ IsRemoval(s, Append(s, x), Len(s) + 1) /\ Append(s, x) \in Seq(ArBlock)
         /\ Len(Append(s, x)) = Len(s) + 1 /\ Append(s, x)[Len(s) + 1] = x
         /\ \A i \in 1 .. Len(s) : Append(s, x)[i] = s[i]
  BY DEF IsRemoval

\* Where an element of the shorter list is in the longer one.
Longer(n, i) == IF i < n THEN i ELSE i + 1

LEMMA RemovalPlaces ==
  ASSUME NEW s \in Seq(ArBlock), NEW n \in 1 .. Len(s), NEW r, IsRemoval(r, s, n)
  PROVE  /\ r \in Seq(ArBlock) /\ Len(r) \in Nat
         /\ \A i \in 1 .. Len(r) : /\ Longer(n, i) \in 1 .. Len(s) /\ Longer(n, i) # n
                                   /\ r[i] = s[Longer(n, i)]
         /\ \A i, j \in 1 .. Len(r) : i < j => Longer(n, i) < Longer(n, j)
  <1>1. PICK k \in Nat : k = Len(s) /\ n \in Nat /\ n >= 1 /\ n <= k
    OBVIOUS
  <1>2. /\ r \in Seq(ArBlock) /\ Len(r) = Len(s) - 1
        /\ \A i \in 1 .. n - 1 : r[i] = s[i]
        /\ \A i \in n .. Len(r) : r[i] = s[i + 1]
    BY DEF IsRemoval
  <1>3. PICK l \in Nat : l = Len(r) /\ l = k - 1
    BY SMTT(30), <1>1, <1>2
  <1>4. ASSUME NEW i \in 1 .. l
        PROVE  Longer(n, i) \in 1 .. k /\ Longer(n, i) # n /\ r[i] = s[Longer(n, i)]
    BY <1>1, <1>2, <1>3 DEF Longer
  <1>5. ASSUME NEW i \in 1 .. l, NEW j \in 1 .. l, i < j PROVE Longer(n, i) < Longer(n, j)
    BY <1>1, <1>5 DEF Longer
  <1> QED
    BY <1>1, <1>2, <1>3, <1>4, <1>5, Zenon

LEMMA RemovalPiled ==
  ASSUME NEW s \in Seq(ArBlock), NEW n \in 1 .. Len(s), NEW r, IsRemoval(r, s, n),
         NEW h, NEW lo, NEW hi, Piled(s, h, lo, hi)
  PROVE  Piled(r, h, lo, hi)
  <1>1. /\ \A i \in 1 .. Len(r) : /\ Longer(n, i) \in 1 .. Len(s) /\ Longer(n, i) # n
                                  /\ r[i] = s[Longer(n, i)]
        /\ \A i, j \in 1 .. Len(r) : i < j => Longer(n, i) < Longer(n, j)
    BY RemovalPlaces, Zenon
  <1>2. ASSUME NEW i \in 1 .. Len(r) PROVE Lies(r[i], h, lo, hi)
    BY <1>1, Zenon DEF Piled
  <1>3. ASSUME NEW i \in 1 .. Len(r), NEW j \in 1 .. Len(r), i < j
        PROVE  Follows(r[i], r[j], h)
    BY <1>1, <1>3, Zenon DEF Piled
  <1> QED
    BY <1>2, <1>3 DEF Piled

LEMMA PiledApart ==
  ASSUME NEW s \in Seq(ArBlock), NEW h \in Nat, NEW lo, NEW hi, Piled(s, h, lo, hi),
         NEW i \in 1 .. Len(s), NEW j \in 1 .. Len(s), i # j
  PROVE  /\ (s[i].ptr - h .. s[i].ptr + s[i].size - 1) \cap (s[j].ptr - h .. s[j].ptr + s[j].size - 1) = {}
         /\ DataWords(s[i]) \cap DataWords(s[j]) = {}
  <1>1. s[i] \in ArBlock /\ s[j] \in ArBlock /\ i \in Nat /\ j \in Nat
    OBVIOUS
  <1>2. /\ s[i].ptr \in Nat /\ s[i].size \in Nat /\ s[i].padding \in Nat
        /\ s[j].ptr \in Nat /\ s[j].size \in Nat /\ s[j].padding \in Nat
    BY <1>1 DEF ArBlock
  <1>3. i < j \/ j < i
    BY <1>1
  <1>4. Follows(s[i], s[j], h) \/ Follows(s[j], s[i], h)
    BY <1>3 DEF Piled
  <1>5. s[i].ptr + s[i].size + h + s[j].padding <= s[j].ptr \/ s[j].ptr + s[j].size + h + s[i].padding <= s[i].ptr
    BY <1>4, Zenon DEF Follows
  <1>6. PICK p \in Nat, q \in Nat, v \in Nat, w \in Nat, y \in Nat, z \in Nat :
           /\ p = s[i].ptr /\ v = s[i].size /\ z = s[i].padding
           /\ q = s[j].ptr /\ w = s[j].size /\ y = s[j].padding
    BY <1>2
  <1>7. p + v + h + y <= q \/ q + w + h + z <= p
    BY <1>5, <1>6
  <1>8. /\ (p - h .. p + v - 1) \cap (q - h .. q + w - 1) = {}
        /\ (p .. p + v - 1) \cap (q .. q + w - 1) = {}
    BY <1>7
  <1> QED
    BY <1>6, <1>8, Zenon DEF DataWords

LEMMA AlignedAbove ==
  ASSUME NEW x \in Nat, NEW d \in Nat, d > 0
  PROVE  Aligned(x, d) \in Nat /\ Aligned(x, d) >= x
  <1>1. PICK y \in Nat : y = x + d - 1
    OBVIOUS
  <1>2. PICK q \in Nat : q = y \div d /\ y < d * (q + 1)
    BY DivBounds
  <1>3. d * (q + 1) = q * d + d /\ q * d \in Nat
    OBVIOUS
  <1>4. Aligned(x, d) = q * d
    BY <1>1, <1>2 DEF Aligned
  <1> QED
    BY <1>1, <1>2, <1>3, <1>4

LEMMA ArenaInitInv ==
  ArenaInit => ArenaInv
  <1> SUFFICES ASSUME ArenaInit PROVE ArenaInv
    OBVIOUS
  <1>1. arHeld = <<>> /\ Len(arHeld) = 0 /\ arHeld \in Seq(ArBlock) /\ DOMAIN arHeld = {}
    BY DEF ArenaInit
  <1>2. arBase \in Nat /\ arBase > 0 /\ ArCapacity \in Nat /\ ArObjects \in Nat
    BY ArenaAssumption DEF ArenaInit
  <1>3. UsageInv
    <2>1. DataOf(arHeld) = {}
      BY <1>1, Zenon DEF DataOf
    <2> QED
      BY <2>1, FS_EmptySet DEF UsageInv, ArenaInit
  <1>4. BumpInv
    BY <1>1, <1>2 DEF BumpInv, ArenaInit, Piled
  <1>5. ASSUME arKind = "pool" PROVE arFree \in Seq(Slots) /\ Distinct(arFree)
    <2>1. arFree = [i \in 1 .. ArObjects |-> arBase + (i - 1) * ObjectSize]
      BY <1>5 DEF ArenaInit
    <2>2. ASSUME NEW i \in 1 .. ArObjects PROVE arBase + (i - 1) * ObjectSize \in Slots
      BY <1>2 DEF Slots
    <2>3. arFree \in Seq(Slots)
      BY <1>2, <2>1, <2>2
    <2> QED
      BY <1>2, <2>1, <2>3 DEF Distinct, ObjectSize
  <1>6. PoolInv
    BY <1>1, <1>5 DEF PoolInv
  <1> QED
    BY <1>1, <1>2, <1>3, <1>4, <1>6 DEF ArenaInv, ArenaInit

LEMMA BumpStep ==
  ASSUME ArenaInv, NEW size \in ArSizes, NEW alignment \in ArAlignments, BumpAllocate(size, alignment)
  PROVE  ArenaInv'
  <1>1. /\ arKind \in {"stack", "linear"} /\ arKind' = arKind /\ arBase' = arBase
        /\ arFree' = arFree /\ arKept' = arKept
    BY DEF BumpAllocate
  <1>2. /\ arKind # "pool" /\ arFree = <<>> /\ arBase \in Nat /\ arBase > 0 /\ arHeld \in Seq(ArBlock)
        /\ arOffset \in Nat /\ arOffset <= ArCapacity
        /\ Piled(arHeld, ArHeaderSize, arBase, arBase + arOffset)
    BY <1>1 DEF ArenaInv, BumpInv
  <1>3. PICK h \in Nat : h = ArHeaderSize
    BY DEF ArHeaderSize
  <1>4. size \in Nat /\ alignment \in Nat /\ alignment > 0 /\ ArCapacity \in Nat
    BY ArenaAssumption
  <1>5. PICK data \in Nat : data = arBase + arOffset + ArHeaderSize
    BY <1>2, <1>3
  <1>6. PICK ptr \in Nat : ptr = Aligned(data, alignment) /\ ptr >= data
    BY <1>4, AlignedAbove
  <1>7. PICK pad \in Nat : pad = ptr - data
    BY <1>6
  <1>8. PICK x : x = [ptr |-> ptr, size |-> size, padding |-> pad]
    OBVIOUS
  <1>9. x \in ArBlock /\ x.ptr = ptr /\ x.size = size /\ x.padding = pad
    BY <1>4, <1>8 DEF ArBlock
  <1>10. /\ arOffset + (h + pad + size) <= ArCapacity
         /\ arOffset' = arOffset + (h + pad + size)
         /\ arLast' = (IF arKind = "stack" THEN ptr ELSE 0)
         /\ arHeld' = Append(arHeld, x)
         /\ arUsage' = arUsage + size
    BY <1>3, <1>5, <1>6, <1>7, <1>8, Zenon DEF BumpAllocate
  <1>11. arBase + arOffset' = ptr + size /\ arOffset' \in Nat
    BY <1>2, <1>3, <1>4, <1>5, <1>7, <1>10
  <1>12. PICK k \in Nat : k = Len(arHeld)
    BY <1>2
  <1>13. /\ arHeld' \in Seq(ArBlock) /\ Len(arHeld') = k + 1 /\ arHeld'[k + 1] = x
         /\ IsRemoval(arHeld, arHeld', k + 1)
         /\ \A i \in 1 .. k : arHeld'[i] = arHeld[i]
    BY <1>2, <1>9, <1>10, <1>12, AppendedList, Zenon
  <1>a. arBase \in Nat /\ arOffset \in Nat
    BY <1>2
  <1>b. ptr = arBase + arOffset + h + pad
    BY <1>a, <1>3, <1>5, <1>7
  <1>14. Piled(arHeld', h, arBase, arBase + arOffset')
    <2>1. ASSUME NEW i \in 1 .. k PROVE Lies(arHeld[i], h, arBase, arBase + arOffset') /\ Follows(arHeld[i], x, h)
      <3>1. Lies(arHeld[i], h, arBase, arBase + arOffset)
        BY <1>2, <1>3, <1>12, Zenon DEF Piled
      <3>2. arHeld[i] \in ArBlock
        BY <1>2, <1>12
      <3>3. arHeld[i].ptr \in Nat /\ arHeld[i].size \in Nat /\ arHeld[i].padding \in Nat
        BY <3>2 DEF ArBlock
      <3>4. arBase + h + arHeld[i].padding <= arHeld[i].ptr /\ arHeld[i].ptr + arHeld[i].size <= arBase + arOffset
        BY <3>1, Zenon DEF Lies
      <3>5. arHeld[i].ptr + arHeld[i].size <= arBase + arOffset'
        <4>1. PICK v \in Nat, w \in Nat : v = arHeld[i].ptr /\ w = arHeld[i].size
          BY <3>3
        <4>2. v + w <= arBase + arOffset /\ arBase + arOffset <= ptr + size
          BY <1>a, <1>b, <1>4, <3>4, <4>1
        <4>3. v + w <= ptr + size
          BY <1>a, <1>4, <4>2
        <4> QED
          BY <1>11, <4>1, <4>3
      <3>6. arHeld[i].ptr + arHeld[i].size + h + pad <= ptr
        BY <1>a, <1>b, <3>3, <3>4
      <3> QED
        BY <1>9, <3>4, <3>5, <3>6, Zenon DEF Lies, Follows
    <2>2. Lies(x, h, arBase, arBase + arOffset')
      <3>0. arBase + h + pad <= ptr
        BY <1>a, <1>b
      <3>1. ptr + size <= arBase + arOffset'
        BY <1>4, <1>11
      <3> QED
        BY <1>9, <3>0, <3>1, Zenon DEF Lies
    <2>3. ASSUME NEW i \in 1 .. k + 1 PROVE Lies(arHeld'[i], h, arBase, arBase + arOffset')
      <3>1. i \in 1 .. k \/ i = k + 1
        OBVIOUS
      <3> QED
        BY <1>13, <2>1, <2>2, <3>1, Zenon
    <2>4. ASSUME NEW i \in 1 .. k + 1, NEW j \in 1 .. k + 1, i < j PROVE Follows(arHeld'[i], arHeld'[j], h)
      <3>1. i \in 1 .. k /\ (j \in 1 .. k \/ j = k + 1)
        BY <2>4
      <3>2. CASE j \in 1 .. k
        <4>1. Follows(arHeld[i], arHeld[j], h)
          BY <1>2, <1>3, <1>12, <2>4, <3>1, <3>2, Zenon DEF Piled
        <4> QED
          BY <1>13, <3>1, <3>2, <4>1, Zenon
      <3>3. CASE j = k + 1
        BY <1>13, <2>1, <3>1, <3>3, Zenon
      <3> QED
        BY <3>1, <3>2, <3>3
    <2> QED
      BY <1>13, <2>3, <2>4, Zenon DEF Piled
  <1>15. ArHeaderSize' = h
    BY <1>1, <1>3 DEF ArHeaderSize
  <1>16. arHeld' # <<>> /\ Last(arHeld') = x
    BY <1>13 DEF Last
  <1>17. BumpInv'
    <2>1. arLast' # 0 => arLast' = ptr
      BY <1>10
    <2>2. arOffset' <= ArCapacity
      BY <1>10
    <2>3. arLast' # 0 => Last(arHeld').ptr = arLast' /\ arLast' + Last(arHeld').size = arBase' + arOffset'
      BY <1>1, <1>9, <1>11, <1>16, <2>1
    <2> QED
      BY <1>1, <1>2, <1>11, <1>14, <1>15, <1>16, <2>2, <2>3, Zenon DEF BumpInv
  <1>18. PoolInv'
    BY <1>1 DEF PoolInv
  <1>19. UsageInv'
    <2>1. k + 1 \in 1 .. Len(arHeld')
      BY <1>13
    <2>2. ASSUME NEW i \in 1 .. Len(arHeld'), i # k + 1
          PROVE  DataWords(arHeld'[i]) \cap DataWords(arHeld'[k + 1]) = {}
      BY <1>3, <1>13, <1>14, <2>1, <2>2, PiledApart, Zenon
    <2>3. IsWithout(arHeld, arHeld', arHeld'[k + 1])
      BY <1>13, <2>1, <2>2, RemovedWords, Zenon
    <2>4. IsWithout(arHeld, arHeld', x)
      BY <1>13, <2>3, Zenon
    <2>5. /\ IsFiniteSet(DataOf(arHeld)) /\ arUsage \in Nat /\ arKept \in Nat
          /\ arUsage = Cardinality(DataOf(arHeld)) + arKept
      BY DEF ArenaInv, UsageInv
    <2>6. /\ IsFiniteSet(DataOf(arHeld')) /\ Cardinality(DataOf(arHeld)) \in Nat
          /\ Cardinality(DataOf(arHeld')) = Cardinality(DataOf(arHeld)) + x.size
      BY <2>4, <2>5, WithoutWords, Zenon
    <2>7. arUsage' \in Nat /\ arUsage' = Cardinality(DataOf(arHeld')) + arKept'
      BY SMTT(30), <1>1, <1>4, <1>9, <1>10, <2>5, <2>6
    <2> QED
      BY <1>1, <2>5, <2>6, <2>7 DEF UsageInv, DataOf
  <1> QED
    BY <1>1, <1>2, <1>13, <1>17, <1>18, <1>19, Zenon DEF ArenaInv

LEMMA StackStep ==
  ASSUME ArenaInv, StackDeallocate
  PROVE  ArenaInv'
  <1>1. /\ arKind = "stack" /\ arHeld # <<>> /\ arHeld' = Front(arHeld)
        /\ arKind' = arKind /\ arBase' = arBase /\ arFree' = arFree
    BY DEF StackDeallocate
  <1>2. /\ arFree = <<>> /\ arBase \in Nat /\ arBase > 0 /\ arHeld \in Seq(ArBlock)
        /\ arOffset \in Nat /\ arOffset <= ArCapacity
        /\ Piled(arHeld, ArHeaderSize, arBase, arBase + arOffset)
        /\ arLast # 0 => arLast + Last(arHeld).size = arBase + arOffset /\ Last(arHeld).ptr = arLast
    BY <1>1 DEF ArenaInv, BumpInv
  <1>3. ArHeaderSize = 2 /\ ArHeaderSize' = 2
    BY <1>1 DEF ArHeaderSize
  <1>4. PICK n \in Nat : n = Len(arHeld) /\ n \in 1 .. Len(arHeld) /\ n >= 1
    BY <1>1, <1>2
  <1>5. PICK x : x = Last(arHeld)
    OBVIOUS
  <1>6. x = arHeld[n] /\ IsRemoval(arHeld', arHeld, n)
    BY <1>1, <1>2, <1>4, <1>5, FrontList, Zenon
  <1>7. x \in ArBlock
    BY <1>2, <1>4, <1>6
  <1>8. x.ptr \in Nat /\ x.size \in Nat /\ x.padding \in Nat
    BY <1>7 DEF ArBlock
  <1>9. /\ arHeld' \in Seq(ArBlock)
        /\ \A i \in 1 .. Len(arHeld') : arHeld'[i] = arHeld[i] /\ i \in 1 .. Len(arHeld) /\ i < n
    <2>1. /\ arHeld' \in Seq(ArBlock) /\ Len(arHeld') = Len(arHeld) - 1
          /\ \A i \in 1 .. n - 1 : arHeld'[i] = arHeld[i]
      BY <1>6 DEF IsRemoval
    <2> QED
      BY <1>4, <2>1
  <1>10. Piled(arHeld', 2, arBase, arBase + arOffset)
    BY <1>2, <1>3, <1>4, <1>6, RemovalPiled
  <1>11. /\ arBase + 2 + x.padding <= x.ptr /\ x.ptr + x.size <= arBase + arOffset
    <2>1. Lies(x, 2, arBase, arBase + arOffset)
      BY <1>2, <1>3, <1>4, <1>6, Zenon DEF Piled
    <2> QED
      BY <2>1, Zenon DEF Lies
  <1>12. PoolInv'
    BY <1>1 DEF PoolInv
  <1>13. /\ IsFiniteSet(DataOf(arHeld)) /\ arUsage \in Nat /\ arKept \in Nat
         /\ arUsage = Cardinality(DataOf(arHeld)) + arKept
    BY DEF ArenaInv, UsageInv
  <1>14. /\ IsFiniteSet(DataOf(arHeld')) /\ Cardinality(DataOf(arHeld')) \in Nat
         /\ Cardinality(DataOf(arHeld)) = Cardinality(DataOf(arHeld')) + x.size
    <2>1. ASSUME NEW i \in 1 .. Len(arHeld), i # n
          PROVE  DataWords(arHeld[i]) \cap DataWords(arHeld[n]) = {}
      BY <1>2, <1>3, <1>4, <2>1, PiledApart
    <2>2. IsWithout(arHeld', arHeld, arHeld[n])
      BY <1>2, <1>4, <1>6, <2>1, RemovedWords, Zenon
    <2>3. IsWithout(arHeld', arHeld, x)
      BY <1>6, <2>2, Zenon
    <2> QED
      BY <1>13, <2>3, WithoutWords, Zenon
  <1>15. CASE x.ptr = arLast
    <2>1. /\ arOffset' = arOffset - (2 + x.padding + x.size)
          /\ arUsage' = arUsage - x.size /\ arLast' = 0 /\ arKept' = arKept
      BY <1>3, <1>5, <1>15, Zenon DEF StackDeallocate
    <2>2. arBase \in Nat /\ arOffset \in Nat /\ ArCapacity \in Nat /\ arBase > 0
      BY <1>2, ArenaAssumption
    <2>a. x.ptr # 0
      BY <1>8, <1>11, <2>2
    <2>3. x.ptr + x.size = arBase + arOffset
      BY <1>2, <1>5, <1>15, <2>a
    <2>4. arOffset' \in Nat /\ arOffset' <= arOffset /\ arBase + arOffset' = x.ptr - 2 - x.padding
      BY <1>8, <1>11, <2>1, <2>2, <2>3
    <2>b. arOffset' <= ArCapacity
      BY <1>2, <2>2, <2>4
    <2>5. ASSUME NEW i \in 1 .. Len(arHeld') PROVE Lies(arHeld'[i], 2, arBase, arBase + arOffset')
      <3>1. Follows(arHeld[i], x, 2) /\ Lies(arHeld'[i], 2, arBase, arBase + arOffset)
        BY <1>2, <1>3, <1>4, <1>6, <1>9, <1>10, Zenon DEF Piled
      <3>2. arHeld'[i] \in ArBlock /\ arHeld'[i] = arHeld[i]
        BY <1>9
      <3>3. arHeld'[i].ptr \in Nat /\ arHeld'[i].size \in Nat
        BY <3>2 DEF ArBlock
      <3>4. arHeld'[i].ptr + arHeld'[i].size + 2 + x.padding <= x.ptr
        BY <3>1, <3>2, Zenon DEF Follows
      <3>6. PICK v \in Nat, w \in Nat : v = arHeld'[i].ptr /\ w = arHeld'[i].size
        BY <3>3
      <3>7. v + w + 2 + x.padding <= x.ptr
        BY <3>4, <3>6
      <3>8. v + w <= x.ptr - 2 - x.padding
        BY <1>8, <3>7
      <3>5. arHeld'[i].ptr + arHeld'[i].size <= arBase + arOffset'
        BY <2>4, <3>6, <3>8
      <3> QED
        BY <3>1, <3>5, Zenon DEF Lies
    <2>6. Piled(arHeld', 2, arBase, arBase + arOffset')
      BY <1>10, <2>5, Zenon DEF Piled
    <2>7. BumpInv'
      BY <1>1, <1>2, <1>3, <2>1, <2>4, <2>b, <2>6, Zenon DEF BumpInv
    <2>8. arUsage' \in Nat /\ arUsage' = Cardinality(DataOf(arHeld')) + arKept'
      BY <1>8, <1>13, <1>14, <2>1
    <2>9. UsageInv'
      BY <1>13, <1>14, <2>1, <2>8 DEF UsageInv, DataOf
    <2> QED
      BY <1>1, <1>2, <1>9, <1>12, <2>7, <2>9, Zenon DEF ArenaInv
  <1>16. CASE x.ptr # arLast
    <2>1. /\ arOffset' = arOffset /\ arLast' = arLast /\ arUsage' = arUsage
          /\ arKept' = arKept + x.size
      BY <1>5, <1>16, Zenon DEF StackDeallocate
    <2>2. arLast = 0
      BY <1>2, <1>5, <1>16
    <2>3. BumpInv'
      BY <1>1, <1>2, <1>3, <1>10, <2>1, <2>2, Zenon DEF BumpInv
    <2>8. arKept' \in Nat /\ arUsage' = Cardinality(DataOf(arHeld')) + arKept'
      BY <1>8, <1>13, <1>14, <2>1
    <2>9. UsageInv'
      BY <1>13, <1>14, <2>1, <2>8 DEF UsageInv, DataOf
    <2> QED
      BY <1>1, <1>2, <1>9, <1>12, <2>3, <2>9, Zenon DEF ArenaInv
  <1> QED
    BY <1>15, <1>16

LEMMA ResetStep ==
  ASSUME ArenaInv, ResetArena
  PROVE  ArenaInv'
  <1>1. /\ arKind' = arKind /\ arBase' = arBase /\ arFree' = arFree /\ arKind # "pool"
        /\ arOffset' = 0 /\ arLast' = 0 /\ arUsage' = 0 /\ arHeld' = <<>> /\ arKept' = 0
    BY DEF ResetArena
  <1>2. Len(arHeld') = 0 /\ arHeld' \in Seq(ArBlock) /\ DOMAIN arHeld' = {}
    BY <1>1
  <1>3. ArCapacity \in Nat /\ arFree = <<>>
    BY <1>1, ArenaAssumption DEF ArenaInv, BumpInv
  <1>4. BumpInv'
    BY <1>1, <1>2, <1>3 DEF BumpInv, Piled
  <1>5. DataOf(arHeld') = {}
    BY <1>2, Zenon DEF DataOf
  <1>6. UsageInv'
    BY <1>1, <1>5, FS_EmptySet DEF UsageInv, DataOf
  <1>7. PoolInv'
    BY <1>1 DEF PoolInv
  <1> QED
    BY <1>1, <1>2, <1>4, <1>6, <1>7 DEF ArenaInv

LEMMA SlotsApart ==
  ASSUME arBase \in Nat, NEW p \in Slots, NEW q \in Slots, p # q
  PROVE  /\ p \in Nat /\ q \in Nat
         /\ (p .. p + ObjectSize - 1) \cap (q .. q + ObjectSize - 1) = {}
         /\ p .. p + ObjectSize - 1 \subseteq arBase .. arBase + ArObjects * ObjectSize - 1
  <1>1. ArObjects \in Nat
    BY ArenaAssumption
  <1>2. PICK k \in 0 .. ArObjects - 1 : p = arBase + k * 2
    BY DEF Slots, ObjectSize
  <1>3. PICK l \in 0 .. ArObjects - 1 : q = arBase + l * 2
    BY DEF Slots, ObjectSize
  <1>4. k \in Nat /\ l \in Nat /\ k # l /\ k <= ArObjects - 1
    BY <1>1, <1>2, <1>3
  <1>5. k < l \/ l < k
    BY <1>4
  <1>6. (p .. p + 2 - 1) \cap (q .. q + 2 - 1) = {}
    BY <1>2, <1>3, <1>4, <1>5
  <1>7. p .. p + 2 - 1 \subseteq arBase .. arBase + ArObjects * 2 - 1
    BY <1>1, <1>2, <1>4
  <1> QED
    BY <1>2, <1>3, <1>4, <1>6, <1>7 DEF ObjectSize

LEMMA SlotInside ==
  ASSUME arBase \in Nat, NEW p \in Slots
  PROVE  p \in Nat /\ p .. p + ObjectSize - 1 \subseteq arBase .. arBase + ArObjects * ObjectSize - 1
  <1>1. ArObjects \in Nat
    BY ArenaAssumption
  <1>2. PICK k \in 0 .. ArObjects - 1 : p = arBase + k * 2
    BY DEF Slots, ObjectSize
  <1>4. k \in Nat /\ k <= ArObjects - 1
    BY <1>1, <1>2
  <1>7. p .. p + 2 - 1 \subseteq arBase .. arBase + ArObjects * 2 - 1
    BY <1>1, <1>2, <1>4
  <1> QED
    BY <1>2, <1>4, <1>7 DEF ObjectSize

LEMMA PoolAllocateStep ==
  ASSUME ArenaInv, NEW size, PoolAllocate(size)
  PROVE  ArenaInv'
  <1>1. /\ arKind = "pool" /\ arFree # <<>> /\ arFree' = Tail(arFree)
        /\ arHeld' = Append(arHeld, [ptr |-> Head(arFree), size |-> ObjectSize, padding |-> 0])
        /\ arUsage' = arUsage + 2
        /\ arKind' = arKind /\ arBase' = arBase /\ arKept' = arKept
    BY DEF PoolAllocate, ObjectSize
  <1>2. /\ arBase \in Nat /\ arBase > 0 /\ arHeld \in Seq(ArBlock)
        /\ arFree \in Seq(Slots) /\ Distinct(arFree)
        /\ \A i \in 1 .. Len(arHeld) : /\ arHeld[i].ptr \in Slots \ ToSet(arFree)
                                       /\ arHeld[i].size = ObjectSize /\ arHeld[i].padding = 0
        /\ \A i, j \in 1 .. Len(arHeld) : i # j => arHeld[i].ptr # arHeld[j].ptr
    BY <1>1 DEF ArenaInv, PoolInv
  <1>3. PICK p : p = Head(arFree)
    OBVIOUS
  <1>4. p \in Slots /\ p \in ToSet(arFree) /\ p \in Nat
    <2>1. p = arFree[1] /\ 1 \in DOMAIN arFree /\ p \in Slots
      BY <1>1, <1>2, <1>3
    <2> QED
      BY <1>2, <2>1, SlotInside DEF ToSet
  <1>5. /\ arFree' \in Seq(Slots) /\ Distinct(arFree')
        /\ ToSet(arFree') = ToSet(arFree) \ {p}
    <2>1. /\ Tail(arFree) \in Seq(Slots) /\ Distinct(Tail(arFree))
          /\ ToSet(arFree) = ToSet(Tail(arFree)) \cup {Head(arFree)}
          /\ Head(arFree) \notin ToSet(Tail(arFree))
      BY <1>1, <1>2, TailElements, Zenon
    <2>2. ToSet(Tail(arFree)) = ToSet(arFree) \ {p}
      BY <1>3, <2>1
    <2> QED
      BY <1>1, <2>1, <2>2, Zenon
  <1>6. PICK x : x = [ptr |-> p, size |-> ObjectSize, padding |-> 0]
    OBVIOUS
  <1>7. x \in ArBlock /\ x.ptr = p /\ x.size = ObjectSize /\ x.padding = 0
    BY <1>4, <1>6 DEF ArBlock, ObjectSize
  <1>8. PICK k \in Nat : k = Len(arHeld)
    BY <1>2
  <1>9. /\ arHeld' \in Seq(ArBlock) /\ Len(arHeld') = k + 1 /\ arHeld'[k + 1] = x
        /\ IsRemoval(arHeld, arHeld', k + 1)
        /\ \A i \in 1 .. k : arHeld'[i] = arHeld[i]
    <2>1. arHeld' = Append(arHeld, x)
      BY <1>1, <1>3, <1>6, Zenon
    <2>2. /\ IsRemoval(arHeld, Append(arHeld, x), Len(arHeld) + 1) /\ Append(arHeld, x) \in Seq(ArBlock)
          /\ Len(Append(arHeld, x)) = Len(arHeld) + 1 /\ Append(arHeld, x)[Len(arHeld) + 1] = x
          /\ \A i \in 1 .. Len(arHeld) : Append(arHeld, x)[i] = arHeld[i]
      BY <1>2, <1>7, AppendedList
    <2> QED
      BY <1>8, <2>1, <2>2, Zenon
  <1>10. \A i \in 1 .. k + 1 : i \in 1 .. k \/ i = k + 1
    OBVIOUS
  <1>11. ASSUME NEW i \in 1 .. k + 1
         PROVE  /\ arHeld'[i].ptr \in Slots \ ToSet(arFree')
                /\ arHeld'[i].size = ObjectSize /\ arHeld'[i].padding = 0
    BY <1>2, <1>4, <1>5, <1>7, <1>8, <1>9, <1>10, Zenon
  <1>12. ASSUME NEW i \in 1 .. k PROVE arHeld'[i].ptr # p
    BY <1>2, <1>4, <1>8, <1>9, Zenon
  <1>13. ASSUME NEW i \in 1 .. k + 1, NEW j \in 1 .. k + 1, i # j
         PROVE  arHeld'[i].ptr # arHeld'[j].ptr
    <2>1. CASE i \in 1 .. k /\ j \in 1 .. k
      BY <1>2, <1>8, <1>9, <1>13, <2>1, Zenon
    <2>2. CASE i = k + 1 \/ j = k + 1
      BY <1>7, <1>9, <1>10, <1>12, <1>13, <2>2, Zenon
    <2> QED
      BY <1>10, <2>1, <2>2
  <1>14. Slots' = Slots
    BY <1>1 DEF Slots
  <1>15. PoolInv'
    BY <1>5, <1>9, <1>11, <1>13, <1>14, Zenon DEF PoolInv
  <1>16. BumpInv'
    BY <1>1 DEF BumpInv
  <1>17. UsageInv'
    <2>1. k + 1 \in 1 .. Len(arHeld')
      BY <1>9
    <2>2. ASSUME NEW i \in 1 .. Len(arHeld'), i # k + 1
          PROVE  DataWords(arHeld'[i]) \cap DataWords(arHeld'[k + 1]) = {}
      <3>1. /\ arHeld'[i].ptr \in Slots /\ arHeld'[i].size = ObjectSize
            /\ arHeld'[k + 1].ptr \in Slots /\ arHeld'[k + 1].size = ObjectSize
            /\ arHeld'[i].ptr # arHeld'[k + 1].ptr
        BY <1>9, <1>11, <1>13, <2>1, <2>2, Zenon
      <3>2. (arHeld'[i].ptr .. arHeld'[i].ptr + ObjectSize - 1)
               \cap (arHeld'[k + 1].ptr .. arHeld'[k + 1].ptr + ObjectSize - 1) = {}
        BY <1>2, <3>1, SlotsApart, Zenon
      <3> QED
        BY <3>1, <3>2, Zenon DEF DataWords
    <2>3. IsWithout(arHeld, arHeld', arHeld'[k + 1])
      BY <1>9, <2>1, <2>2, RemovedWords, Zenon
    <2>4. IsWithout(arHeld, arHeld', x)
      BY <1>9, <2>3, Zenon
    <2>5. /\ IsFiniteSet(DataOf(arHeld)) /\ arUsage \in Nat /\ arKept \in Nat
          /\ arUsage = Cardinality(DataOf(arHeld)) + arKept
      BY DEF ArenaInv, UsageInv
    <2>6. /\ IsFiniteSet(DataOf(arHeld')) /\ Cardinality(DataOf(arHeld)) \in Nat
          /\ Cardinality(DataOf(arHeld')) = Cardinality(DataOf(arHeld)) + x.size
      BY <2>4, <2>5, WithoutWords, Zenon
    <2>7. x.size = 2
      BY <1>7 DEF ObjectSize
    <2>8. arUsage' \in Nat /\ arUsage' = Cardinality(DataOf(arHeld')) + arKept'
      BY <1>1, <2>5, <2>6, <2>7
    <2> QED
      BY <1>1, <2>5, <2>6, <2>8 DEF UsageInv, DataOf
  <1> QED
    BY <1>1, <1>2, <1>9, <1>15, <1>16, <1>17, Zenon DEF ArenaInv

LEMMA PushedList ==
  ASSUME NEW T, NEW s \in Seq(T), Distinct(s), NEW p \in T, p \notin ToSet(s)
  PROVE  /\ <<p>> \o s \in Seq(T) /\ Distinct(<<p>> \o s) /\ ToSet(<<p>> \o s) = ToSet(s) \cup {p}
  <1>1. PICK k \in Nat : k = Len(s) /\ DOMAIN s = 1 .. k
    OBVIOUS
  <1>2. PICK r : r = <<p>> \o s
    OBVIOUS
  <1>3. /\ r \in Seq(T) /\ Len(r) = k + 1 /\ DOMAIN r = 1 .. k + 1 /\ r[1] = p
        /\ \A i \in 2 .. k + 1 : r[i] = s[i - 1]
    BY <1>1, <1>2
  <1>4. ASSUME NEW i \in 1 .. k + 1 PROVE i = 1 \/ (i \in 2 .. k + 1 /\ i - 1 \in 1 .. k)
    OBVIOUS
  <1>5. ASSUME NEW i \in 2 .. k + 1 PROVE r[i] \in ToSet(s) /\ r[i] # p
    <2>1. i - 1 \in DOMAIN s /\ r[i] = s[i - 1]
      BY <1>1, <1>3
    <2> QED
      BY <2>1 DEF ToSet
  <1>6. ASSUME NEW i \in 2 .. k + 1, NEW j \in 2 .. k + 1, r[i] = r[j] PROVE i = j
    <2>1. s[i - 1] = s[j - 1] /\ i - 1 \in 1 .. Len(s) /\ j - 1 \in 1 .. Len(s)
      BY <1>1, <1>3, <1>6
    <2>2. i - 1 = j - 1
      BY <2>1 DEF Distinct
    <2> QED
      BY <2>2
  <1>7. Distinct(r)
    <2> SUFFICES ASSUME NEW i \in 1 .. k + 1, NEW j \in 1 .. k + 1, r[i] = r[j] PROVE i = j
      BY <1>3, Zenon DEF Distinct
    <2> QED
      BY <1>3, <1>4, <1>5, <1>6, Zenon
  <1>8. ASSUME NEW w \in ToSet(s) PROVE w \in ToSet(r)
    <2>1. PICK i \in 1 .. k : w = s[i]
      BY <1>1 DEF ToSet
    <2>2. i + 1 \in DOMAIN r /\ r[i + 1] = w
      BY <1>3, <2>1
    <2> QED
      BY <2>2 DEF ToSet
  <1>9. p \in ToSet(r)
    <2>1. 1 \in DOMAIN r
      BY <1>3
    <2> QED
      BY <1>3, <2>1 DEF ToSet
  <1>10. ASSUME NEW w \in ToSet(r) PROVE w \in ToSet(s) \cup {p}
    <2>1. PICK i \in 1 .. k + 1 : w = r[i]
      BY <1>3 DEF ToSet
    <2> QED
      BY <1>3, <1>4, <1>5, <2>1
  <1> QED
    BY <1>2, <1>3, <1>7, <1>8, <1>9, <1>10

LEMMA PoolDeallocateStep ==
  ASSUME ArenaInv, NEW n \in DOMAIN arHeld, PoolDeallocate(n)
  PROVE  ArenaInv'
  <1>1. /\ arKind = "pool" /\ arFree' = <<arHeld[n].ptr>> \o arFree /\ arHeld' = RemoveAt(arHeld, n)
        /\ arUsage' = arUsage - 2
        /\ arKind' = arKind /\ arBase' = arBase /\ arKept' = arKept
    BY DEF PoolDeallocate, ObjectSize
  <1>2. /\ arBase \in Nat /\ arBase > 0 /\ arHeld \in Seq(ArBlock)
        /\ arFree \in Seq(Slots) /\ Distinct(arFree)
        /\ \A i \in 1 .. Len(arHeld) : /\ arHeld[i].ptr \in Slots \ ToSet(arFree)
                                       /\ arHeld[i].size = ObjectSize /\ arHeld[i].padding = 0
        /\ \A i, j \in 1 .. Len(arHeld) : i # j => arHeld[i].ptr # arHeld[j].ptr
    BY <1>1 DEF ArenaInv, PoolInv
  <1>3. n \in 1 .. Len(arHeld)
    BY <1>2
  <1>4. PICK p : p = arHeld[n].ptr
    OBVIOUS
  <1>5. p \in Slots /\ p \notin ToSet(arFree)
    BY <1>2, <1>3, <1>4, Zenon
  <1>6. arFree' \in Seq(Slots) /\ Distinct(arFree') /\ ToSet(arFree') = ToSet(arFree) \cup {p}
    <2>1. arFree' = <<p>> \o arFree
      BY <1>1, <1>4, Zenon
    <2>2. /\ <<p>> \o arFree \in Seq(Slots) /\ Distinct(<<p>> \o arFree)
          /\ ToSet(<<p>> \o arFree) = ToSet(arFree) \cup {p}
      BY <1>2, <1>5, PushedList
    <2> QED
      BY <2>1, <2>2, Zenon
  <1>7. IsRemoval(arHeld', arHeld, n)
    BY <1>1, <1>2, <1>3, RemovedList, Zenon
  <1>8. /\ arHeld' \in Seq(ArBlock) /\ Len(arHeld') \in Nat
        /\ \A i \in 1 .. Len(arHeld') : /\ Longer(n, i) \in 1 .. Len(arHeld) /\ Longer(n, i) # n
                                        /\ arHeld'[i] = arHeld[Longer(n, i)]
        /\ \A i, j \in 1 .. Len(arHeld') : i < j => Longer(n, i) < Longer(n, j)
    BY <1>2, <1>3, <1>7, RemovalPlaces, Zenon
  <1>9. ASSUME NEW i \in 1 .. Len(arHeld')
        PROVE  /\ arHeld'[i].ptr \in Slots \ ToSet(arFree')
               /\ arHeld'[i].size = ObjectSize /\ arHeld'[i].padding = 0
    <2>1. PICK j \in 1 .. Len(arHeld) : j # n /\ arHeld'[i] = arHeld[j]
      BY <1>8, Zenon
    <2>2. arHeld[j].ptr # p
      BY <1>2, <1>3, <1>4, <2>1, Zenon
    <2>3. /\ arHeld[j].ptr \in Slots /\ arHeld[j].ptr \notin ToSet(arFree)
          /\ arHeld[j].size = ObjectSize /\ arHeld[j].padding = 0
      BY <1>2, <2>1, Zenon
    <2>4. arHeld[j].ptr \notin ToSet(arFree')
      BY <1>6, <2>2, <2>3, Zenon
    <2> QED
      BY <2>1, <2>3, <2>4, Zenon
  <1>10. ASSUME NEW i \in 1 .. Len(arHeld'), NEW j \in 1 .. Len(arHeld'), i # j
         PROVE  arHeld'[i].ptr # arHeld'[j].ptr
    <2>1. Longer(n, i) # Longer(n, j)
      BY <1>10 DEF Longer
    <2> QED
      BY <1>2, <1>8, <2>1, ZenonT(40)
  <1>11. Slots' = Slots
    BY <1>1 DEF Slots
  <1>12. PoolInv'
    BY <1>6, <1>9, <1>10, <1>11, Zenon DEF PoolInv
  <1>13. BumpInv'
    BY <1>1 DEF BumpInv
  <1>14. UsageInv'
    <2>2. ASSUME NEW i \in 1 .. Len(arHeld), i # n
          PROVE  DataWords(arHeld[i]) \cap DataWords(arHeld[n]) = {}
      <3>1. /\ arHeld[i].ptr \in Slots /\ arHeld[i].size = ObjectSize
            /\ arHeld[n].ptr \in Slots /\ arHeld[n].size = ObjectSize
            /\ arHeld[i].ptr # arHeld[n].ptr
        BY <1>2, <1>3, <2>2, Zenon
      <3>2. (arHeld[i].ptr .. arHeld[i].ptr + ObjectSize - 1)
               \cap (arHeld[n].ptr .. arHeld[n].ptr + ObjectSize - 1) = {}
        BY <1>2, <3>1, SlotsApart, Zenon
      <3> QED
        BY <3>1, <3>2, Zenon DEF DataWords
    <2>3. IsWithout(arHeld', arHeld, arHeld[n])
      BY <1>2, <1>3, <1>7, <2>2, RemovedWords, Zenon
    <2>5. /\ IsFiniteSet(DataOf(arHeld)) /\ arUsage \in Nat /\ arKept \in Nat
          /\ arUsage = Cardinality(DataOf(arHeld)) + arKept
      BY DEF ArenaInv, UsageInv
    <2>6. /\ IsFiniteSet(DataOf(arHeld')) /\ Cardinality(DataOf(arHeld')) \in Nat
          /\ Cardinality(DataOf(arHeld)) = Cardinality(DataOf(arHeld')) + arHeld[n].size
      BY <2>3, <2>5, WithoutWords, Zenon
    <2>7. arHeld[n].size = 2
      BY <1>2, <1>3 DEF ObjectSize
    <2>8. arUsage' \in Nat /\ arUsage' = Cardinality(DataOf(arHeld')) + arKept'
      BY <1>1, <2>5, <2>6, <2>7
    <2> QED
      BY <1>1, <2>5, <2>6, <2>8 DEF UsageInv, DataOf
  <1> QED
    BY <1>1, <1>2, <1>8, <1>12, <1>13, <1>14, Zenon DEF ArenaInv

LEMMA ArenaStep ==
  ASSUME ArenaInv, [ArenaNext]_arenaVars
  PROVE  ArenaInv'
  <1>1. CASE UNCHANGED arenaVars
    BY <1>1 DEF ArenaInv, BumpInv, PoolInv, UsageInv, arenaVars, Piled, Slots, DataOf, ArHeaderSize
  <1>2. CASE ArenaNext
    BY <1>2, BumpStep, StackStep, ResetStep, PoolAllocateStep, PoolDeallocateStep, Zenon DEF ArenaNext
  <1> QED
    BY <1>1, <1>2

LEMMA InvArenasAreSound ==
  ArenaInv => ArenasAreSound
  <1> SUFFICES ASSUME ArenaInv PROVE ArenasAreSound
    OBVIOUS
  <1>1. arHeld \in Seq(ArBlock) /\ DOMAIN arHeld = 1 .. Len(arHeld) /\ arBase \in Nat
    BY DEF ArenaInv
  <1>2. arUsage = Cardinality(UNION {DataWords(arHeld[i]) : i \in DOMAIN arHeld}) + arKept
    BY Zenon DEF ArenaInv, UsageInv, DataOf
  <1>3. CASE arKind = "pool"
    <2>1. /\ arFree \in Seq(Slots) /\ Distinct(arFree)
          /\ \A i \in 1 .. Len(arHeld) : /\ arHeld[i].ptr \in Slots \ ToSet(arFree)
                                         /\ arHeld[i].size = ObjectSize
          /\ \A i, j \in 1 .. Len(arHeld) : i # j => arHeld[i].ptr # arHeld[j].ptr
      BY <1>3 DEF ArenaInv, PoolInv
    <2>2. ArHeaderSize = 0 /\ ArenaSize = ArObjects * ObjectSize
      BY <1>3 DEF ArHeaderSize, ArenaSize
    <2>3. ASSUME NEW i \in 1 .. Len(arHeld)
          PROVE  HeldWords(arHeld[i]) = arHeld[i].ptr .. arHeld[i].ptr + ObjectSize - 1
      <3>1. arHeld[i].ptr \in Nat /\ arHeld[i].size = ObjectSize
        BY <1>1, <2>1, SlotInside
      <3>2. arHeld[i].ptr - 0 = arHeld[i].ptr
        BY <3>1
      <3> QED
        BY <2>2, <3>1, <3>2, Zenon DEF HeldWords
    <2>4. ASSUME NEW i \in 1 .. Len(arHeld)
          PROVE  HeldWords(arHeld[i]) \subseteq arBase .. arBase + ArenaSize - 1
      BY <1>1, <2>1, <2>2, <2>3, SlotInside, Zenon
    <2>5. ASSUME NEW i \in 1 .. Len(arHeld), NEW j \in 1 .. Len(arHeld), i # j
          PROVE  HeldWords(arHeld[i]) \cap HeldWords(arHeld[j]) = {}
      <3>1. arHeld[i].ptr \in Slots /\ arHeld[j].ptr \in Slots /\ arHeld[i].ptr # arHeld[j].ptr
        BY <2>1, <2>5, Zenon
      <3>2. (arHeld[i].ptr .. arHeld[i].ptr + ObjectSize - 1)
               \cap (arHeld[j].ptr .. arHeld[j].ptr + ObjectSize - 1) = {}
        BY <1>1, <3>1, SlotsApart, Zenon
      <3> QED
        BY <2>3, <3>2, Zenon
    <2>6. IsInjective(arFree)
      BY <2>1 DEF Distinct, IsInjective
    <2> QED
      BY <1>1, <1>2, <2>1, <2>4, <2>5, <2>6, Zenon DEF ArenasAreSound
  <1>4. CASE arKind # "pool"
    <2>1. /\ arFree = <<>> /\ arOffset \in Nat /\ arOffset <= ArCapacity
          /\ Piled(arHeld, ArHeaderSize, arBase, arBase + arOffset)
      BY <1>4 DEF ArenaInv, BumpInv
    <2>2. ArHeaderSize \in Nat /\ ArenaSize = ArCapacity /\ ArCapacity \in Nat
      BY <1>4, ArenaAssumption DEF ArHeaderSize, ArenaSize
    <2>3. ASSUME NEW i \in 1 .. Len(arHeld)
          PROVE  HeldWords(arHeld[i]) \subseteq arBase .. arBase + ArenaSize - 1
      <3>1. Lies(arHeld[i], ArHeaderSize, arBase, arBase + arOffset)
        BY <2>1, Zenon DEF Piled
      <3>2. arHeld[i] \in ArBlock
        BY <1>1
      <3>3. arHeld[i].ptr \in Nat /\ arHeld[i].size \in Nat /\ arHeld[i].padding \in Nat
        BY <3>2 DEF ArBlock
      <3>4. /\ arBase + ArHeaderSize + arHeld[i].padding <= arHeld[i].ptr
            /\ arHeld[i].ptr + arHeld[i].size <= arBase + arOffset
        BY <3>1, Zenon DEF Lies
      <3>5. PICK v \in Nat, w \in Nat, z \in Nat, h \in Nat :
              v = arHeld[i].ptr /\ w = arHeld[i].size /\ z = arHeld[i].padding /\ h = ArHeaderSize
        BY <2>2, <3>3
      <3>6. arBase + h + z <= v /\ v + w <= arBase + arOffset
        BY <3>4, <3>5
      <3>7. v - h .. v + w - 1 \subseteq arBase .. arBase + ArCapacity - 1
        BY <1>1, <2>1, <2>2, <3>6
      <3> QED
        BY <2>2, <3>5, <3>7, Zenon DEF HeldWords
    <2>4. ASSUME NEW i \in 1 .. Len(arHeld), NEW j \in 1 .. Len(arHeld), i # j
          PROVE  HeldWords(arHeld[i]) \cap HeldWords(arHeld[j]) = {}
      BY <1>1, <2>1, <2>2, <2>4, PiledApart, Zenon DEF HeldWords
    <2>5. DOMAIN arFree = {}
      BY <2>1
    <2>6. IsInjective(arFree) /\ ToSet(arFree) = {}
      BY <2>5 DEF IsInjective, ToSet
    <2> QED
      BY <1>1, <1>2, <2>3, <2>4, <2>6, Zenon DEF ArenasAreSound
  <1> QED
    BY <1>3, <1>4

(***************************************************************************)
(* The statistics and the hooks of operator new and delete.                *)
(***************************************************************************)
Headers == [size : MemSizes, category : Categories]
MemPcs == {"track", "notify", "untrack", "free"}
Allocators == {"operators", "default"}
MemCalls == [pc : MemPcs, addr : Addresses, by : Allocators, header : Headers]
Counters == [allocated : 0 .. CounterRange - 1, deallocated : 0 .. CounterRange - 1]

MemTypeOK ==
    /\ heap \in [Addresses -> Headers \cup {None}]
    /\ given \in [Addresses -> Allocators \cup {"nobody"}]
    /\ memCall \in [MemThreads -> MemCalls \cup {None}]
    /\ category \in [MemThreads -> Seq(Categories)]
    /\ \A t \in MemThreads : Len(category[t]) > 0
    /\ stats \in [Categories -> Counters]
    /\ forgotten \in [Categories -> 0 .. CounterRange - 1]

\* A call between the heap and the caller has the address to itself.
Owns(t, x) ==
    /\ memCall[t] # None /\ memCall[t].addr = x
    /\ memCall[t].pc # "untrack" \/ memCall[t].by = "operators"

OwnerInv ==
    /\ \A t \in MemThreads, x \in Addresses :
          Owns(t, x) => given[x] = "nobody" /\ heap[x] = memCall[t].header
    /\ \A t, u \in MemThreads, x \in Addresses : Owns(t, x) /\ Owns(u, x) => t = u
    /\ \A x \in Addresses : given[x] # "nobody" => heap[x] # None

\* What the hooks saw allocated is with a caller.
HookedInv == \A x \in hooked : x \in Addresses /\ given[x] = "operators"

\* The bytes that count for a category, of an address and of a thread's call.
HeldAt(g, x) == IF given[x] # "nobody" /\ heap[x].category = g THEN heap[x].size ELSE 0
CallAt(g, t) ==
    IF memCall[t] # None /\ memCall[t].pc \in {"notify", "untrack"} /\ memCall[t].header.category = g
    THEN memCall[t].header.size ELSE 0

\* The same number, in counters that wrap.
SameCount(m, n) == \E k \in Int : m = n + k * CounterRange

CountInv ==
    \A g \in Categories :
       /\ IsFiniteSet(HeldBytes(g)) /\ IsFiniteSet(CallBytes(g))
       /\ SameCount(stats[g].allocated - stats[g].deallocated + forgotten[g], Counted(g))

MemInv == MemTypeOK /\ OwnerInv /\ HookedInv /\ CountInv

-----------------------------------------------------------------------------
(* Counting modulo CounterRange.                                           *)
LEMMA SameCountBasics ==
  /\ CounterRange \in Nat /\ CounterRange > 0
  /\ \A m \in Int : SameCount(m, m) /\ SameCount(m + CounterRange, m)
  /\ \A m, n, l \in Int : SameCount(m, n) /\ SameCount(n, l) => SameCount(m, l)
  /\ \A m, n, l, o \in Int : SameCount(m, n) /\ SameCount(l, o) => SameCount(m + l, n + o)
  /\ \A m, n, l, o \in Int : SameCount(m, n) /\ SameCount(l, o) => SameCount(m - l, n - o)
  <1>1. PICK R \in Nat : R = CounterRange /\ R > 0
    BY MemAssumption
  <1>2. ASSUME NEW m \in Int PROVE SameCount(m, m) /\ SameCount(m + R, m)
    <2>1. m = m + 0 * R /\ m + R = m + 1 * R
      OBVIOUS
    <2> QED
      BY <1>1, <2>1 DEF SameCount
  <1>3. ASSUME NEW m \in Int, NEW n \in Int, NEW l \in Int, SameCount(m, n), SameCount(n, l)
        PROVE  SameCount(m, l)
    <2>1. PICK i \in Int : m = n + i * R
      BY <1>1, <1>3 DEF SameCount
    <2>2. PICK j \in Int : n = l + j * R
      BY <1>1, <1>3 DEF SameCount
    <2>3. (i + j) * R = i * R + j * R /\ i * R \in Int /\ j * R \in Int /\ i + j \in Int
      OBVIOUS
    <2>4. m = l + (i + j) * R
      BY <2>1, <2>2, <2>3
    <2> QED
      BY <1>1, <2>3, <2>4 DEF SameCount
  <1>4. ASSUME NEW m \in Int, NEW n \in Int, NEW l \in Int, NEW o \in Int, SameCount(m, n), SameCount(l, o)
        PROVE  SameCount(m + l, n + o) /\ SameCount(m - l, n - o)
    <2>1. PICK i \in Int : m = n + i * R
      BY <1>1, <1>4 DEF SameCount
    <2>2. PICK j \in Int : l = o + j * R
      BY <1>1, <1>4 DEF SameCount
    <2>3. /\ (i + j) * R = i * R + j * R /\ (i - j) * R = i * R - j * R
          /\ i * R \in Int /\ j * R \in Int /\ i + j \in Int /\ i - j \in Int
      OBVIOUS
    <2>4. m + l = (n + o) + (i + j) * R
      BY <2>1, <2>2, <2>3
    <2>5. m - l = (n - o) + (i - j) * R
      BY <2>1, <2>2, <2>3
    <2> QED
      BY <1>1, <2>3, <2>4, <2>5 DEF SameCount
  <1> QED
    BY <1>1, <1>2, <1>3, <1>4

LEMMA ModBasics ==
  ASSUME NEW m \in Nat
  PROVE  m % CounterRange \in 0 .. CounterRange - 1 /\ SameCount(m % CounterRange, m)
  <1>1. PICK R \in Nat : R = CounterRange /\ R > 0
    BY MemAssumption
  <1>2. m % R \in 0 .. R - 1 /\ m \div R \in Int /\ m = R * (m \div R) + (m % R)
    <2>1. m % R \in 0 .. R - 1
      BY <1>1
    <2>2. m \div R \in Int
      BY <1>1
    <2>3. m = R * (m \div R) + (m % R)
      BY <1>1
    <2> QED
      BY <2>1, <2>2, <2>3
  <1>3. PICK q \in Int, w \in Int : q = m \div R /\ w = m % R
    BY <1>2
  <1>4. w = m + (-q) * R /\ -q \in Int
    <2>1. m = R * q + w
      BY <1>2, <1>3
    <2>2. R * q = -((-q) * R) /\ (-q) * R \in Int
      OBVIOUS
    <2> QED
      BY <2>1, <2>2
  <1> QED
    BY <1>1, <1>2, <1>3, <1>4 DEF SameCount

LEMMA SameMod ==
  ASSUME NEW m \in Nat, NEW n \in Nat, SameCount(m, n)
  PROVE  m % CounterRange = n % CounterRange
  <1>1. PICK R \in Nat : R = CounterRange /\ R > 0
    BY MemAssumption
  <1>2. PICK v : v = m % CounterRange
    OBVIOUS
  <1>3. PICK w : w = n % CounterRange
    OBVIOUS
  <1>4. /\ v \in 0 .. R - 1 /\ w \in 0 .. R - 1
        /\ SameCount(v, m) /\ SameCount(w, n)
    BY <1>1, <1>2, <1>3, ModBasics
  <1>5. v \in Int /\ w \in Int /\ m \in Int /\ n \in Int /\ 0 <= v /\ v < R /\ 0 <= w /\ w < R
    BY <1>1, <1>4
  <1>6. SameCount(v - w, m - n) /\ SameCount(m - n, n - n)
    BY <1>4, <1>5, SameCountBasics
  <1>7. SameCount(v - w, 0)
    BY <1>5, <1>6, SameCountBasics
  <1>8. PICK k \in Int : v - w = k * R
    <2>1. PICK k \in Int : v - w = 0 + k * R
      BY <1>1, <1>7 DEF SameCount
    <2>2. k * R \in Int
      OBVIOUS
    <2>3. v - w = k * R
      BY <2>1, <2>2
    <2> QED
      BY <2>3
  <1>9. k = 0
    <2>1. CASE k >= 1
      <3>1. k * R >= R
        BY <1>1, <2>1
      <3> QED
        BY <1>5, <1>8, <3>1
    <2>2. CASE k <= -1
      <3>1. k * R <= -R
        BY <1>1, <2>2
      <3> QED
        BY <1>5, <1>8, <3>1
    <2> QED
      BY <2>1, <2>2
  <1> QED
    BY <1>2, <1>3, <1>5, <1>8, <1>9

-----------------------------------------------------------------------------
(* The bytes of a family of blocks.                                        *)
Bytes(f) == UNION {{x} \X (1 .. f[x]) : x \in DOMAIN f}

LEMMA BlockBytes ==
  ASSUME NEW x, NEW n \in Nat
  PROVE  IsFiniteSet({x} \X (1 .. n)) /\ Cardinality({x} \X (1 .. n)) = n
  <1>1. 1 \in Int /\ n \in Int /\ (IF 1 > n THEN 0 ELSE n - 1 + 1) = n
    OBVIOUS
  <1>2. IsFiniteSet(1 .. n) /\ Cardinality(1 .. n) = n
    BY <1>1, FS_Interval, Zenon
  <1>3. IsFiniteSet({x}) /\ Cardinality({x}) = 1
    BY FS_Singleton, Zenon
  <1>4. /\ IsFiniteSet({x} \X (1 .. n))
        /\ Cardinality({x} \X (1 .. n)) = Cardinality({x}) * Cardinality(1 .. n)
    BY <1>2, <1>3, FS_Product, Zenon
  <1> QED
    BY <1>2, <1>3, <1>4

\* A block of no bytes that gets some.
LEMMA BytesGained ==
  ASSUME NEW D, NEW f \in [D -> Nat], NEW g \in [D -> Nat], NEW x \in D, f[x] = 0,
         \A y \in D : y # x => g[y] = f[y]
  PROVE  /\ IsFiniteSet(Bytes(f)) <=> IsFiniteSet(Bytes(g))
         /\ IsFiniteSet(Bytes(f)) => /\ Cardinality(Bytes(f)) \in Nat
                                     /\ Cardinality(Bytes(g)) = Cardinality(Bytes(f)) + g[x]
  <1>1. PICK E : E = {x} \X (1 .. g[x])
    OBVIOUS
  <1>2. g[x] \in Nat
    OBVIOUS
  <1>3. IsFiniteSet(E) /\ Cardinality(E) = g[x]
    BY <1>1, <1>2, BlockBytes, Zenon
  <1>4. 1 .. f[x] = {}
    OBVIOUS
  <1>5. Bytes(g) = Bytes(f) \cup E
    <2>1. ASSUME NEW w \in Bytes(g) PROVE w \in Bytes(f) \/ w \in E
      <3>1. PICK y \in D : w \in {y} \X (1 .. g[y])
        BY DEF Bytes
      <3> QED
        BY <1>1, <3>1, ZenonT(40) DEF Bytes
    <2>2. ASSUME NEW w \in Bytes(f) PROVE w \in Bytes(g)
      <3>1. PICK y \in D : w \in {y} \X (1 .. f[y])
        BY DEF Bytes
      <3>2. y # x
        BY <1>4, <3>1
      <3> QED
        BY <3>1, <3>2, Zenon DEF Bytes
    <2>3. ASSUME NEW w \in E PROVE w \in Bytes(g)
      BY <1>1, Zenon DEF Bytes
    <2> QED
      BY <2>1, <2>2, <2>3, Zenon
  <1>6. Bytes(f) \cap E = {}
    <2> SUFFICES ASSUME NEW w \in Bytes(f), w \in E PROVE FALSE
      BY Zenon
    <2>1. PICK y \in D : w \in {y} \X (1 .. f[y])
      BY DEF Bytes
    <2>2. w[1] = y /\ w[1] = x /\ w[2] \in 1 .. f[y]
      BY <1>1, <2>1
    <2> QED
      BY <1>4, <2>2
  <1>7. IsFiniteSet(Bytes(g)) => IsFiniteSet(Bytes(f))
    <2>1. Bytes(f) \in SUBSET Bytes(g)
      BY <1>5, Zenon
    <2> QED
      BY <2>1, FS_Subset, Zenon
  <1>8. ASSUME IsFiniteSet(Bytes(f))
        PROVE  /\ IsFiniteSet(Bytes(g)) /\ Cardinality(Bytes(f)) \in Nat
               /\ Cardinality(Bytes(g)) = Cardinality(Bytes(f)) + g[x]
    <2>1. /\ IsFiniteSet(Bytes(f) \cup E)
          /\ Cardinality(Bytes(f) \cup E) = Cardinality(Bytes(f)) + g[x] - Cardinality(Bytes(f) \cap E)
      BY <1>3, <1>8, FS_Union, Zenon
    <2>2. Cardinality(Bytes(f) \cap E) = 0 /\ Cardinality(Bytes(f)) \in Nat
      BY <1>6, <1>8, FS_EmptySet, FS_CardinalityType, Zenon
    <2>3. Cardinality(Bytes(f)) + g[x] - 0 = Cardinality(Bytes(f)) + g[x]
      BY <1>2, <2>2
    <2> QED
      BY <1>5, <2>1, <2>2, <2>3, Zenon
  <1> QED
    BY <1>7, <1>8

LEMMA BytesChanged ==
  ASSUME NEW D, NEW f \in [D -> Nat], NEW g \in [D -> Nat], NEW x \in D,
         \A y \in D : y # x => g[y] = f[y], IsFiniteSet(Bytes(f))
  PROVE  /\ IsFiniteSet(Bytes(g)) /\ Cardinality(Bytes(f)) \in Nat /\ Cardinality(Bytes(g)) \in Nat
         /\ Cardinality(Bytes(g)) - g[x] = Cardinality(Bytes(f)) - f[x]
  <1>1. PICK e : e = [f EXCEPT ![x] = 0]
    OBVIOUS
  <1>2. /\ e \in [D -> Nat] /\ e[x] = 0
        /\ \A y \in D : y # x => f[y] = e[y]
        /\ \A y \in D : y # x => g[y] = e[y]
    BY <1>1
  <1>3. /\ IsFiniteSet(Bytes(e)) /\ Cardinality(Bytes(e)) \in Nat
        /\ Cardinality(Bytes(f)) = Cardinality(Bytes(e)) + f[x]
    BY <1>2, BytesGained
  <1>4. /\ IsFiniteSet(Bytes(g))
        /\ Cardinality(Bytes(g)) = Cardinality(Bytes(e)) + g[x]
    BY <1>2, <1>3, BytesGained
  <1>5. f[x] \in Nat /\ g[x] \in Nat
    OBVIOUS
  <1> QED
    BY <1>3, <1>4, <1>5

-----------------------------------------------------------------------------
(* What counts for a category, as sizes of addresses and of calls.         *)
HeldOf(gv, hp, g) == [x \in Addresses |-> IF gv[x] # "nobody" /\ hp[x].category = g THEN hp[x].size ELSE 0]
CallOf(mc, g) ==
    [t \in MemThreads |-> IF mc[t] # None /\ mc[t].pc \in {"notify", "untrack"} /\ mc[t].header.category = g
                          THEN mc[t].header.size ELSE 0]

HeldBytesOf(gv, hp, g) ==
    UNION {{x} \X (1 .. hp[x].size) : x \in {x \in Addresses : gv[x] # "nobody" /\ hp[x].category = g}}
CallBytesOf(mc, g) ==
    UNION {{t} \X (1 .. mc[t].header.size) :
             t \in {t \in MemThreads : /\ (mc[t] # None /\ mc[t].pc = "notify") \/ (mc[t] # None /\ mc[t].pc = "untrack")
                                      /\ mc[t].header.category = g}}

LEMMA HeldIsBytes ==
  ASSUME NEW gv, NEW hp, NEW g, \A x \in Addresses : gv[x] # "nobody" => hp[x] \in Headers
  PROVE  HeldOf(gv, hp, g) \in [Addresses -> Nat] /\ HeldBytesOf(gv, hp, g) = Bytes(HeldOf(gv, hp, g))
  <1>1. PICK f : f = HeldOf(gv, hp, g)
    OBVIOUS
  <1>2. MemSizes \subseteq Nat
    BY MemAssumption
  <1>3. ASSUME NEW x \in Addresses PROVE f[x] \in Nat
    BY <1>1, <1>2 DEF HeldOf, Headers
  <1>4. f \in [Addresses -> Nat] /\ DOMAIN f = Addresses
    BY <1>1, <1>3 DEF HeldOf
  <1>5. ASSUME NEW x \in Addresses, gv[x] # "nobody", hp[x].category = g PROVE f[x] = hp[x].size
    BY <1>1, <1>5 DEF HeldOf
  <1>6. ASSUME NEW x \in Addresses, ~(gv[x] # "nobody" /\ hp[x].category = g) PROVE 1 .. f[x] = {}
    <2>1. f[x] = 0
      BY <1>1, <1>6 DEF HeldOf
    <2> QED
      BY <2>1
  <1>7. ASSUME NEW w \in HeldBytesOf(gv, hp, g) PROVE w \in Bytes(f)
    <2>1. PICK x \in Addresses : gv[x] # "nobody" /\ hp[x].category = g /\ w \in {x} \X (1 .. hp[x].size)
      BY Zenon DEF HeldBytesOf
    <2>2. w \in {x} \X (1 .. f[x])
      BY <1>5, <2>1, Zenon
    <2> QED
      BY <1>4, <2>2, Zenon DEF Bytes
  <1>8. ASSUME NEW w \in Bytes(f) PROVE w \in HeldBytesOf(gv, hp, g)
    <2>1. PICK x \in Addresses : w \in {x} \X (1 .. f[x])
      BY <1>4, Zenon DEF Bytes
    <2>2. gv[x] # "nobody" /\ hp[x].category = g
      <3> SUFFICES ASSUME ~(gv[x] # "nobody" /\ hp[x].category = g) PROVE FALSE
        OBVIOUS
      <3>1. 1 .. f[x] = {}
        BY <1>6
      <3>2. w \in {x} \X {}
        BY <2>1, <3>1, Zenon
      <3> QED
        BY <3>2
    <2>3. w \in {x} \X (1 .. hp[x].size)
      BY <1>5, <2>1, <2>2, Zenon
    <2> QED
      BY <2>2, <2>3, Zenon DEF HeldBytesOf
  <1> QED
    BY <1>1, <1>4, <1>7, <1>8, Zenon

LEMMA CallIsBytes ==
  ASSUME NEW mc, NEW g, \A t \in MemThreads : mc[t] # None => mc[t] \in MemCalls
  PROVE  CallOf(mc, g) \in [MemThreads -> Nat] /\ CallBytesOf(mc, g) = Bytes(CallOf(mc, g))
  <1>1. PICK f : f = CallOf(mc, g)
    OBVIOUS
  <1>2. MemSizes \subseteq Nat
    BY MemAssumption
  <1> DEFINE Counts(t) == mc[t] # None /\ mc[t].pc \in {"notify", "untrack"} /\ mc[t].header.category = g
  <1>3. ASSUME NEW t \in MemThreads PROVE f[t] = IF Counts(t) THEN mc[t].header.size ELSE 0
    BY <1>1 DEF CallOf
  <1>a. ASSUME NEW t \in MemThreads PROVE f[t] \in Nat
    <2>1. CASE Counts(t)
      <3>1. mc[t].header \in Headers
        BY <2>1 DEF MemCalls
      <3> QED
        BY <1>2, <1>3, <2>1, <3>1 DEF Headers
    <2>2. CASE ~Counts(t)
      BY <1>3, <2>2
    <2> QED
      BY <2>1, <2>2
  <1>4. f \in [MemThreads -> Nat] /\ DOMAIN f = MemThreads
    BY <1>1, <1>a DEF CallOf
  <1>5. ASSUME NEW t \in MemThreads, Counts(t) PROVE f[t] = mc[t].header.size
    BY <1>3, <1>5
  <1>6. ASSUME NEW t \in MemThreads, ~Counts(t) PROVE 1 .. f[t] = {}
    <2>1. f[t] = 0
      BY <1>3, <1>6
    <2> QED
      BY <2>1
  <1>b. ASSUME NEW t PROVE Counts(t) <=> /\ (mc[t] # None /\ mc[t].pc = "notify") \/ (mc[t] # None /\ mc[t].pc = "untrack")
                                         /\ mc[t].header.category = g
    OBVIOUS
  <1>c. CallBytesOf(mc, g) = UNION {{t} \X (1 .. mc[t].header.size) : t \in {t \in MemThreads : Counts(t)}}
    <2>1. {t \in MemThreads : Counts(t)}
             = {t \in MemThreads : /\ (mc[t] # None /\ mc[t].pc = "notify") \/ (mc[t] # None /\ mc[t].pc = "untrack")
                                   /\ mc[t].header.category = g}
      BY <1>b, Zenon
    <2> QED
      BY <2>1, Zenon DEF CallBytesOf
  <1> HIDE DEF Counts
  <1>7. ASSUME NEW w \in CallBytesOf(mc, g) PROVE w \in Bytes(f)
    <2>1. PICK t \in MemThreads : Counts(t) /\ w \in {t} \X (1 .. mc[t].header.size)
      BY <1>c, Zenon
    <2>2. w \in {t} \X (1 .. f[t])
      BY <1>5, <2>1, Zenon
    <2> QED
      BY <1>4, <2>2, Zenon DEF Bytes
  <1>8. ASSUME NEW w \in Bytes(f) PROVE w \in CallBytesOf(mc, g)
    <2>1. PICK t \in MemThreads : w \in {t} \X (1 .. f[t])
      BY <1>4, Zenon DEF Bytes
    <2>2. Counts(t)
      <3> SUFFICES ASSUME ~Counts(t) PROVE FALSE
        OBVIOUS
      <3>1. 1 .. f[t] = {}
        BY <1>6
      <3>2. w \in {t} \X {}
        BY <2>1, <3>1, Zenon
      <3> QED
        BY <3>2
    <2>3. w \in {t} \X (1 .. mc[t].header.size)
      BY <1>5, <2>1, <2>2, Zenon
    <2> QED
      BY <1>c, <2>2, <2>3, Zenon
  <1> QED
    BY <1>1, <1>4, <1>7, <1>8, Zenon

MemCore == MemTypeOK /\ OwnerInv /\ HookedInv

LEMMA HeldTyped ==
  ASSUME MemCore
  PROVE  /\ \A x \in Addresses : given[x] # "nobody" => heap[x] \in Headers
         /\ \A t \in MemThreads : memCall[t] # None => memCall[t] \in MemCalls
  BY DEF MemCore, MemTypeOK, OwnerInv

\* A step that moves the bytes of one address and of one call.
LEMMA CountMoves ==
  ASSUME MemCore, MemCore', NEW g \in Categories, NEW t \in MemThreads, NEW x \in Addresses,
         IsFiniteSet(HeldBytes(g)), IsFiniteSet(CallBytes(g)),
         \A y \in Addresses : y # x => HeldAt(g, y)' = HeldAt(g, y),
         \A u \in MemThreads : u # t => CallAt(g, u)' = CallAt(g, u)
  PROVE  /\ IsFiniteSet(HeldBytes(g)') /\ IsFiniteSet(CallBytes(g)')
         /\ Counted(g) \in Nat /\ Counted(g)' \in Nat
         /\ HeldAt(g, x) \in Nat /\ HeldAt(g, x)' \in Nat /\ CallAt(g, t) \in Nat /\ CallAt(g, t)' \in Nat
         /\ Counted(g)' = Counted(g) + (HeldAt(g, x)' - HeldAt(g, x)) + (CallAt(g, t)' - CallAt(g, t))
  <1>1. /\ \A y \in Addresses : given[y] # "nobody" => heap[y] \in Headers
        /\ \A u \in MemThreads : memCall[u] # None => memCall[u] \in MemCalls
    BY SMTT(30) DEF MemCore, MemTypeOK, OwnerInv
  <1>2. /\ \A y \in Addresses : given'[y] # "nobody" => heap'[y] \in Headers
        /\ \A u \in MemThreads : memCall'[u] # None => memCall'[u] \in MemCalls
    BY SMTT(30) DEF MemCore, MemTypeOK, OwnerInv
  <1>3. PICK f : f = HeldOf(given, heap, g)
    OBVIOUS
  <1>4. PICK h : h = HeldOf(given', heap', g)
    OBVIOUS
  <1>5. PICK p : p = CallOf(memCall, g)
    OBVIOUS
  <1>6. PICK q : q = CallOf(memCall', g)
    OBVIOUS
  <1>7. HeldBytes(g) = HeldBytesOf(given, heap, g) /\ HeldBytes(g)' = HeldBytesOf(given', heap', g)
    BY Zenon DEF HeldBytes, HeldBytesOf
  <1>8. CallBytes(g) = CallBytesOf(memCall, g) /\ CallBytes(g)' = CallBytesOf(memCall', g)
    BY Zenon DEF CallBytes, CallBytesOf, In
  <1>9. f \in [Addresses -> Nat] /\ HeldBytes(g) = Bytes(f)
    BY <1>1, <1>3, <1>7, HeldIsBytes, Zenon
  <1>10. h \in [Addresses -> Nat] /\ HeldBytes(g)' = Bytes(h)
    BY <1>2, <1>4, <1>7, HeldIsBytes, Zenon
  <1>11. p \in [MemThreads -> Nat] /\ CallBytes(g) = Bytes(p)
    BY <1>1, <1>5, <1>8, CallIsBytes, Zenon
  <1>12. q \in [MemThreads -> Nat] /\ CallBytes(g)' = Bytes(q)
    BY <1>2, <1>6, <1>8, CallIsBytes, Zenon
  <1>13. \A y \in Addresses : f[y] = HeldAt(g, y) /\ h[y] = HeldAt(g, y)'
    BY <1>3, <1>4 DEF HeldOf, HeldAt
  <1>14. \A u \in MemThreads : p[u] = CallAt(g, u) /\ q[u] = CallAt(g, u)'
    BY <1>5, <1>6 DEF CallOf, CallAt
  <1>15. /\ IsFiniteSet(Bytes(h)) /\ Cardinality(Bytes(f)) \in Nat /\ Cardinality(Bytes(h)) \in Nat
         /\ Cardinality(Bytes(h)) - h[x] = Cardinality(Bytes(f)) - f[x]
    <2>1. \A y \in Addresses : y # x => h[y] = f[y]
      BY <1>13, Zenon
    <2>2. IsFiniteSet(Bytes(f))
      BY <1>9, Zenon
    <2> QED
      BY <1>9, <1>10, <2>1, <2>2, BytesChanged
  <1>16. /\ IsFiniteSet(Bytes(q)) /\ Cardinality(Bytes(p)) \in Nat /\ Cardinality(Bytes(q)) \in Nat
         /\ Cardinality(Bytes(q)) - q[t] = Cardinality(Bytes(p)) - p[t]
    <2>1. \A u \in MemThreads : u # t => q[u] = p[u]
      BY <1>14, Zenon
    <2>2. IsFiniteSet(Bytes(p))
      BY <1>11, Zenon
    <2> QED
      BY <1>11, <1>12, <2>1, <2>2, BytesChanged
  <1>17. Counted(g) = Cardinality(Bytes(f)) + Cardinality(Bytes(p))
    BY <1>9, <1>11, Zenon DEF Counted
  <1>18. Counted(g)' = Cardinality(Bytes(h)) + Cardinality(Bytes(q))
    BY <1>10, <1>12, Zenon DEF Counted
  <1>19. f[x] \in Nat /\ h[x] \in Nat /\ p[t] \in Nat /\ q[t] \in Nat
    BY <1>9, <1>10, <1>11, <1>12
  <1>20. /\ f[x] = HeldAt(g, x) /\ h[x] = HeldAt(g, x)'
         /\ p[t] = CallAt(g, t) /\ q[t] = CallAt(g, t)'
    BY <1>13, <1>14, Zenon
  <1>21. /\ Counted(g) \in Nat /\ Counted(g)' \in Nat
         /\ Counted(g)' = Counted(g) + (h[x] - f[x]) + (q[t] - p[t])
    BY <1>15, <1>16, <1>17, <1>18, <1>19
  <1> QED
    BY <1>10, <1>12, <1>15, <1>16, <1>19, <1>20, <1>21, Zenon

-----------------------------------------------------------------------------
(* Who has an address.                                                     *)
LEMMA OwnedHeader ==
  ASSUME MemCore, NEW t \in MemThreads, memCall[t] # None
  PROVE  /\ memCall[t] \in MemCalls /\ memCall[t].addr \in Addresses /\ memCall[t].header \in Headers
         /\ memCall[t].header # None /\ memCall[t].by \in Allocators
         /\ memCall[t].header.category \in Categories /\ memCall[t].header.size \in Nat
  <1>1. memCall[t] \in MemCalls
    BY DEF MemCore, MemTypeOK
  <1>2. None \notin Headers /\ MemSizes \subseteq Nat
    BY MemAssumption DEF Headers
  <1>3. /\ memCall[t].addr \in Addresses /\ memCall[t].header \in Headers /\ memCall[t].by \in Allocators
    BY <1>1 DEF MemCalls
  <1>4. memCall[t].header.category \in Categories /\ memCall[t].header.size \in Nat
    BY <1>2, <1>3 DEF Headers
  <1> QED
    BY <1>1, <1>2, <1>3, <1>4, Zenon

LEMMA OwnerStep ==
  ASSUME MemCore, NEW t \in MemThreads, NEW x \in Addresses,
         \A u \in MemThreads : u # t => memCall'[u] = memCall[u],
         \A y \in Addresses : y # x => heap'[y] = heap[y] /\ given'[y] = given[y],
         \A u \in MemThreads : u # t => ~Owns(u, x),
         \A y \in Addresses : Owns(t, y)' => y = x /\ given'[x] = "nobody" /\ heap'[x] = memCall'[t].header,
         given'[x] # "nobody" => heap'[x] # None
  PROVE  OwnerInv'
  <1>1. /\ \A u \in MemThreads, y \in Addresses :
              Owns(u, y) => given[y] = "nobody" /\ heap[y] = memCall[u].header
        /\ \A u, v \in MemThreads, y \in Addresses : Owns(u, y) /\ Owns(v, y) => u = v
        /\ \A y \in Addresses : given[y] # "nobody" => heap[y] # None
    BY DEF MemCore, OwnerInv
  <1>2. ASSUME NEW u \in MemThreads, u # t, NEW y \in Addresses, Owns(u, y)'
        PROVE  Owns(u, y) /\ y # x
    <2>1. Owns(u, y)
      BY <1>2, Zenon DEF Owns
    <2> QED
      BY <1>2, <2>1
  <1>3. ASSUME NEW u \in MemThreads, NEW y \in Addresses, Owns(u, y)'
        PROVE  given'[y] = "nobody" /\ heap'[y] = memCall'[u].header
    <2>1. CASE u = t
      BY <1>3, <2>1, Zenon
    <2>2. CASE u # t
      BY <1>1, <1>2, <1>3, <2>2, ZenonT(40)
    <2> QED
      BY <2>1, <2>2
  <1>4. ASSUME NEW u \in MemThreads, NEW v \in MemThreads, NEW y \in Addresses, Owns(u, y)', Owns(v, y)'
        PROVE  u = v
    <2>1. CASE u = t \/ v = t
      BY <1>2, <1>4, <2>1, Zenon
    <2>2. CASE u # t /\ v # t
      BY <1>1, <1>2, <1>4, <2>2, Zenon
    <2> QED
      BY <2>1, <2>2
  <1>5. ASSUME NEW y \in Addresses, given'[y] # "nobody" PROVE heap'[y] # None
    BY <1>1, <1>5, Zenon
  <1>6. /\ \A u \in MemThreads, y \in Addresses :
              Owns(u, y)' => given'[y] = "nobody" /\ heap'[y] = memCall'[u].header
        /\ \A u, v \in MemThreads, y \in Addresses : Owns(u, y)' /\ Owns(v, y)' => u = v
        /\ \A y \in Addresses : given'[y] # "nobody" => heap'[y] # None
    BY <1>3, <1>4, <1>5
  <1> QED
    BY <1>6, Zenon DEF OwnerInv

LEMMA ScopesCore ==
  ASSUME MemCore, NEW t \in MemThreads,
         (\E g \in Categories : EnterCategory(t, g)) \/ LeaveCategory(t)
  PROVE  /\ MemCore'
         /\ UNCHANGED <<heap, given, memCall, stats, forgotten>>
  <1>1. UNCHANGED <<heap, given, memCall, stats, hasHooks, hooked, numResets, forgotten>>
    BY DEF EnterCategory, LeaveCategory
  <1>2. category \in [MemThreads -> Seq(Categories)] /\ \A u \in MemThreads : Len(category[u]) > 0
    BY DEF MemCore, MemTypeOK
  <1>3. \E s \in Seq(Categories) : Len(s) > 0 /\ category' = [category EXCEPT ![t] = s]
    <2>1. ASSUME NEW g \in Categories, EnterCategory(t, g)
          PROVE  \E s \in Seq(Categories) : Len(s) > 0 /\ category' = [category EXCEPT ![t] = s]
      <3>1. category' = [category EXCEPT ![t] = Append(category[t], g)]
        BY <2>1 DEF EnterCategory
      <3>2. category[t] \in Seq(Categories)
        BY <1>2
      <3>3. Append(category[t], g) \in Seq(Categories) /\ Len(Append(category[t], g)) > 0
        BY <3>2
      <3> QED
        BY <3>1, <3>3
    <2>2. ASSUME LeaveCategory(t)
          PROVE  \E s \in Seq(Categories) : Len(s) > 0 /\ category' = [category EXCEPT ![t] = s]
      <3>1. category' = [category EXCEPT ![t] = Front(category[t])] /\ Len(category[t]) > 1
        BY <2>2 DEF LeaveCategory
      <3>2. category[t] \in Seq(Categories)
        BY <1>2
      <3>3. Front(category[t]) \in Seq(Categories) /\ Len(Front(category[t])) > 0
        BY <3>1, <3>2 DEF Front
      <3> QED
        BY <3>1, <3>3
    <2> QED
      BY <2>1, <2>2
  <1>4. category' \in [MemThreads -> Seq(Categories)] /\ \A u \in MemThreads : Len(category'[u]) > 0
    BY <1>2, <1>3
  <1>5. MemTypeOK'
    BY <1>1, <1>4 DEF MemCore, MemTypeOK
  <1>6. OwnerInv' /\ HookedInv'
    BY <1>1 DEF MemCore, OwnerInv, HookedInv, Owns
  <1> QED
    BY <1>1, <1>5, <1>6 DEF MemCore

LEMMA AllocateCore ==
  ASSUME MemCore, NEW t \in MemThreads, NEW x \in Addresses, NEW size \in MemSizes, NEW by \in Allocators,
         Allocate(t, x, size, by)
  PROVE  /\ MemCore' /\ UNCHANGED <<given, stats, forgotten>>
         /\ given[x] = "nobody" /\ memCall[t] = None /\ memCall'[t].pc = "track"
         /\ \A y \in Addresses : y # x => heap'[y] = heap[y]
         /\ \A u \in MemThreads : u # t => memCall'[u] = memCall[u]
  <1>1. memCall[t] = None /\ heap[x] = None /\ UNCHANGED <<given, category, stats, hooked, forgotten>>
    BY DEF Allocate
  <1>2. PICK k : k = IF by = "operators" THEN Last(category[t]) ELSE "Other"
    OBVIOUS
  <1>3. k \in Categories
    <2>1. category[t] \in Seq(Categories) /\ Len(category[t]) > 0
      BY DEF MemCore, MemTypeOK
    <2>2. Last(category[t]) \in Categories
      BY <2>1 DEF Last
    <2> QED
      BY <1>2, <2>2 DEF Categories
  <1>4. PICK hd : hd = [size |-> size, category |-> k]
    OBVIOUS
  <1>5. hd \in Headers
    BY <1>3, <1>4 DEF Headers
  <1>6. heap' = [heap EXCEPT ![x] = hd]
    BY <1>2, <1>4 DEF Allocate
  <1>7. heap'[x] = hd /\ heap' \in [Addresses -> Headers \cup {None}] /\ \A y \in Addresses : y # x => heap'[y] = heap[y]
    BY <1>5, <1>6 DEF MemCore, MemTypeOK
  <1>8. PICK cl : cl = [pc |-> "track", addr |-> x, by |-> by, header |-> hd]
    OBVIOUS
  <1>9. cl \in MemCalls /\ cl.pc = "track" /\ cl.addr = x /\ cl.header = hd
    BY <1>5, <1>8 DEF MemCalls, MemPcs
  <1>10. memCall' = [memCall EXCEPT ![t] = cl]
    BY <1>7, <1>8 DEF Allocate
  <1>11. /\ memCall'[t] = cl /\ memCall' \in [MemThreads -> MemCalls \cup {None}]
         /\ \A u \in MemThreads : u # t => memCall'[u] = memCall[u]
    BY <1>9, <1>10 DEF MemCore, MemTypeOK
  <1>12. MemTypeOK'
    BY <1>1, <1>7, <1>11 DEF MemCore, MemTypeOK
  <1>13. given[x] = "nobody"
    BY <1>1 DEF MemCore, OwnerInv
  <1>14. ASSUME NEW u \in MemThreads PROVE ~Owns(u, x)
    <2> SUFFICES ASSUME Owns(u, x) PROVE FALSE
      OBVIOUS
    <2>1. memCall[u] # None /\ heap[x] = memCall[u].header
      BY DEF MemCore, OwnerInv, Owns
    <2> QED
      BY <1>1, <2>1, OwnedHeader
  <1>15. ASSUME NEW y \in Addresses, Owns(t, y)'
         PROVE  y = x /\ given'[x] = "nobody" /\ heap'[x] = memCall'[t].header
    BY <1>1, <1>7, <1>9, <1>11, <1>13, <1>15 DEF Owns
  <1>16. OwnerInv'
    BY <1>1, <1>7, <1>11, <1>13, <1>14, <1>15, OwnerStep
  <1>17. HookedInv'
    BY <1>1 DEF MemCore, HookedInv
  <1> QED
    BY <1>1, <1>7, <1>9, <1>11, <1>12, <1>13, <1>16, <1>17 DEF MemCore

LEMMA CountedUp ==
  ASSUME NEW al \in Nat, NEW de \in Nat, NEW fo \in Nat, NEW n \in Int, NEW m \in Nat,
         SameCount(al - de + fo, n)
  PROVE  SameCount(((al + m) % CounterRange) - de + fo, n + m)
  <1>1. PICK v : v = (al + m) % CounterRange
    OBVIOUS
  <1>2. v \in Int /\ SameCount(v, al + m)
    <2>1. CounterRange \in Nat
      BY SameCountBasics
    <2> QED
      BY <1>1, <2>1, ModBasics
  <1>3. SameCount(fo - de, fo - de) /\ SameCount(m, m)
    <2>1. fo - de \in Int /\ m \in Int
      OBVIOUS
    <2> QED
      BY <2>1, SameCountBasics, Zenon
  <1>4. SameCount(v + (fo - de), (al + m) + (fo - de))
    BY <1>2, <1>3, SameCountBasics
  <1>5. SameCount((al - de + fo) + m, n + m)
    BY <1>3, SameCountBasics
  <1>6. (al + m) + (fo - de) = (al - de + fo) + m /\ v + (fo - de) = v - de + fo
    BY <1>2
  <1>7. SameCount(v - de + fo, (al - de + fo) + m)
    BY <1>4, <1>6
  <1> QED
    BY <1>1, <1>2, <1>5, <1>7, SameCountBasics

LEMMA CountedDown ==
  ASSUME NEW al \in Nat, NEW de \in Nat, NEW fo \in Nat, NEW n \in Int, NEW m \in Nat,
         SameCount(al - de + fo, n)
  PROVE  SameCount(al - ((de + m) % CounterRange) + fo, n - m)
  <1>1. PICK v : v = (de + m) % CounterRange
    OBVIOUS
  <1>2. v \in Int /\ SameCount(v, de + m)
    <2>1. CounterRange \in Nat
      BY SameCountBasics
    <2> QED
      BY <1>1, <2>1, ModBasics
  <1>3. SameCount(al + fo, al + fo) /\ SameCount(m, m)
    <2>1. al + fo \in Int /\ m \in Int
      OBVIOUS
    <2> QED
      BY <2>1, SameCountBasics, Zenon
  <1>4. SameCount((al + fo) - v, (al + fo) - (de + m))
    BY <1>2, <1>3, SameCountBasics
  <1>5. SameCount((al - de + fo) - m, n - m)
    BY <1>3, SameCountBasics
  <1>6. (al + fo) - (de + m) = (al - de + fo) - m /\ (al + fo) - v = al - v + fo
    BY <1>2
  <1>7. SameCount(al - v + fo, (al - de + fo) - m)
    BY <1>4, <1>6
  <1> QED
    BY <1>1, <1>2, <1>5, <1>7, SameCountBasics

LEMMA CountedAgain ==
  ASSUME NEW al \in 0 .. CounterRange - 1, NEW de \in 0 .. CounterRange - 1, NEW fo \in 0 .. CounterRange - 1,
         NEW n \in Int, SameCount(al - de + fo, n)
  PROVE  /\ (al + CounterRange - de) % CounterRange \in 0 .. CounterRange - 1
         /\ (fo + ((al + CounterRange - de) % CounterRange)) % CounterRange \in 0 .. CounterRange - 1
         /\ SameCount(0 - 0 + ((fo + ((al + CounterRange - de) % CounterRange)) % CounterRange), n)
  <1>1. PICK R \in Nat : R = CounterRange /\ R > 0
    BY SameCountBasics
  <1>2. al \in Nat /\ de \in Nat /\ fo \in Nat /\ al + R - de \in Nat /\ al - de + fo \in Int
    BY <1>1
  <1>3. PICK v : v = (al + R - de) % R
    OBVIOUS
  <1>4. v \in 0 .. R - 1 /\ SameCount(v, al + R - de)
    BY <1>1, <1>2, <1>3, ModBasics
  <1>5. v \in Nat /\ fo + v \in Nat
    BY <1>1, <1>2, <1>4
  <1>6. PICK w : w = (fo + v) % R
    OBVIOUS
  <1>7. w \in 0 .. R - 1 /\ SameCount(w, fo + v)
    BY <1>1, <1>5, <1>6, ModBasics
  <1>8. w \in Int
    BY <1>1, <1>7
  <1>9. SameCount(fo, fo)
    BY <1>2, SameCountBasics
  <1>10. SameCount(fo + v, fo + (al + R - de))
    BY <1>2, <1>4, <1>5, <1>9, SameCountBasics
  <1>11. SameCount((al - de + fo) + R, al - de + fo)
    BY <1>1, <1>2, SameCountBasics
  <1>12. fo + (al + R - de) = (al - de + fo) + R
    BY <1>1, <1>2
  <1>13. SameCount(w, fo + (al + R - de))
    BY <1>2, <1>5, <1>7, <1>8, <1>10, SameCountBasics
  <1>14. SameCount(w, n)
    <2>1. SameCount(w, (al - de + fo) + R) /\ (al - de + fo) + R \in Int
      BY <1>2, <1>12, <1>13
    <2>2. SameCount(w, al - de + fo)
      BY <1>2, <1>8, <1>11, <2>1, SameCountBasics
    <2> QED
      BY <1>2, <1>8, <2>2, SameCountBasics
  <1>15. 0 - 0 + w = w
    BY <1>8
  <1> QED
    BY <1>1, <1>3, <1>4, <1>6, <1>7, <1>14, <1>15

LEMMA StatsTyped ==
  ASSUME MemCore, NEW g \in Categories
  PROVE  /\ stats[g].allocated \in 0 .. CounterRange - 1 /\ stats[g].deallocated \in 0 .. CounterRange - 1
         /\ forgotten[g] \in 0 .. CounterRange - 1
         /\ stats[g].allocated \in Nat /\ stats[g].deallocated \in Nat /\ forgotten[g] \in Nat
  <1>1. stats[g] \in Counters /\ forgotten[g] \in 0 .. CounterRange - 1
    BY DEF MemCore, MemTypeOK
  <1>2. stats[g].allocated \in 0 .. CounterRange - 1 /\ stats[g].deallocated \in 0 .. CounterRange - 1
    BY <1>1 DEF Counters
  <1> QED
    BY <1>1, <1>2, SameCountBasics

LEMMA TrackCore ==
  ASSUME MemCore, NEW t \in MemThreads, NEW x, NEW hd, x = memCall[t].addr, hd = memCall[t].header,
         TrackAllocation(t)
  PROVE  /\ MemCore' /\ forgotten' = forgotten
         /\ \A g \in Categories :
               /\ stats'[g].deallocated = stats[g].deallocated
               /\ stats'[g].allocated = IF g = hd.category
                                        THEN (stats[g].allocated + hd.size) % CounterRange
                                        ELSE stats[g].allocated
               /\ \A y \in Addresses : y # x => HeldAt(g, y)' = HeldAt(g, y)
               /\ \A u \in MemThreads : u # t => CallAt(g, u)' = CallAt(g, u)
               /\ HeldAt(g, x) = 0 /\ CallAt(g, t) = 0
               /\ HeldAt(g, x)' + CallAt(g, t)'
                     = IF g = hd.category THEN hd.size ELSE 0
  <1>1. memCall[t] # None /\ memCall[t].pc = "track"
    BY DEF TrackAllocation, In
  <1>2. PICK cl : cl = memCall[t]
    OBVIOUS
  <1>3. x = cl.addr /\ hd = cl.header
    BY <1>2
  <1>5. /\ cl \in MemCalls /\ x \in Addresses /\ hd \in Headers /\ hd # None /\ cl.by \in Allocators
        /\ hd.category \in Categories /\ hd.size \in Nat
    BY <1>1, <1>2, <1>3, OwnedHeader, Zenon
  <1>6. UNCHANGED <<heap, category, hooked, forgotten>>
    BY DEF TrackAllocation
  <1>7. stats' = [stats EXCEPT ![hd.category].allocated = (stats[hd.category].allocated + hd.size) % CounterRange]
    BY <1>2, <1>3 DEF TrackAllocation, Add
  <1>8. Owns(t, x)
    BY <1>1, <1>2, <1>3 DEF Owns
  <1>9. /\ given[x] = "nobody" /\ heap[x] = hd /\ \A u \in MemThreads : u # t => ~Owns(u, x)
    BY <1>2, <1>5, <1>8 DEF MemCore, OwnerInv
  <1>10. stats' \in [Categories -> Counters]
    <2>1. (stats[hd.category].allocated + hd.size) % CounterRange \in 0 .. CounterRange - 1
      BY <1>5, StatsTyped, ModBasics
    <2> QED
      BY <1>5, <1>7, <2>1 DEF MemCore, MemTypeOK, Counters
  <1>11. ASSUME NEW g \in Categories
         PROVE  /\ stats'[g].deallocated = stats[g].deallocated
                /\ stats'[g].allocated = IF g = hd.category THEN (stats[g].allocated + hd.size) % CounterRange
                                         ELSE stats[g].allocated
    BY <1>5, <1>7 DEF MemCore, MemTypeOK, Counters
  <1>12. CASE cl.by = "operators"
    <2>1. memCall' = [memCall EXCEPT ![t].pc = "notify"] /\ given' = given
      BY <1>2, <1>12 DEF TrackAllocation, MemGo
    <2>2. PICK nx : nx = [cl EXCEPT !.pc = "notify"]
      OBVIOUS
    <2>3. nx \in MemCalls /\ nx.pc = "notify" /\ nx.addr = x /\ nx.header = hd /\ nx.by = cl.by
      BY <1>3, <1>5, <2>2 DEF MemCalls, MemPcs
    <2>4. /\ memCall'[t] = nx /\ memCall' \in [MemThreads -> MemCalls \cup {None}]
          /\ \A u \in MemThreads : u # t => memCall'[u] = memCall[u]
      BY <1>2, <2>1, <2>2, <2>3 DEF MemCore, MemTypeOK
    <2>5. MemTypeOK'
      BY <1>6, <1>10, <2>1, <2>4 DEF MemCore, MemTypeOK
    <2>6. ASSUME NEW y \in Addresses, Owns(t, y)'
          PROVE  y = x /\ given'[x] = "nobody" /\ heap'[x] = memCall'[t].header
      BY <1>6, <1>9, <2>1, <2>3, <2>4, <2>6 DEF Owns
    <2>7. OwnerInv'
      BY <1>5, <1>6, <1>9, <2>1, <2>4, <2>6, OwnerStep
    <2>8. HookedInv'
      BY <1>6, <2>1 DEF MemCore, HookedInv
    <2>9. ASSUME NEW g \in Categories
          PROVE  /\ \A y \in Addresses : HeldAt(g, y)' = HeldAt(g, y)
                 /\ \A u \in MemThreads : u # t => CallAt(g, u)' = CallAt(g, u)
                 /\ HeldAt(g, x) = 0 /\ CallAt(g, t) = 0
                 /\ HeldAt(g, x)' = 0 /\ CallAt(g, t)' = IF g = hd.category THEN hd.size ELSE 0
      <3>1. \A y \in Addresses : HeldAt(g, y)' = HeldAt(g, y)
        BY <1>6, <2>1 DEF HeldAt
      <3>2. \A u \in MemThreads : u # t => CallAt(g, u)' = CallAt(g, u)
        BY <2>4, Zenon DEF CallAt
      <3>3. HeldAt(g, x) = 0 /\ HeldAt(g, x)' = 0
        BY <1>5, <1>9, <3>1 DEF HeldAt
      <3>4. CallAt(g, t) = 0
        BY <1>1 DEF CallAt
      <3>5. nx # None
        BY <2>3, MemAssumption DEF MemCalls, Headers, MemPcs, Allocators
      <3>6. CallAt(g, t)' = IF g = hd.category THEN hd.size ELSE 0
        BY <2>3, <2>4, <3>5 DEF CallAt
      <3> QED
        BY <3>1, <3>2, <3>3, <3>4, <3>6
    <2>10. MemCore'
      BY <2>5, <2>7, <2>8 DEF MemCore
    <2>11. ASSUME NEW g \in Categories
           PROVE  HeldAt(g, x)' + CallAt(g, t)' = IF g = hd.category THEN hd.size ELSE 0
      BY <1>5, <2>9
    <2> QED
      BY <1>6, <1>11, <2>9, <2>10, <2>11
  <1>13. CASE cl.by # "operators"
    <2>0. cl.by = "default"
      BY <1>5, <1>13 DEF Allocators
    <2>1. memCall' = [memCall EXCEPT ![t] = None] /\ given' = [given EXCEPT ![x] = "default"]
      BY <1>2, <1>3, <2>0 DEF TrackAllocation
    <2>4. /\ memCall'[t] = None /\ memCall' \in [MemThreads -> MemCalls \cup {None}]
          /\ \A u \in MemThreads : u # t => memCall'[u] = memCall[u]
      BY <2>1 DEF MemCore, MemTypeOK
    <2>a. /\ given'[x] = "default" /\ given' \in [Addresses -> Allocators \cup {"nobody"}]
          /\ \A y \in Addresses : y # x => given'[y] = given[y]
      BY <1>5, <2>1 DEF MemCore, MemTypeOK, Allocators
    <2>5. MemTypeOK'
      BY <1>6, <1>10, <2>4, <2>a DEF MemCore, MemTypeOK
    <2>6. ASSUME NEW y \in Addresses, Owns(t, y)' PROVE FALSE
      BY <2>4, <2>6 DEF Owns
    <2>7. OwnerInv'
      BY <1>5, <1>6, <1>9, <2>4, <2>6, <2>a, OwnerStep
    <2>8. HookedInv'
      BY <1>6, <1>9, <2>a DEF MemCore, HookedInv
    <2>9. ASSUME NEW g \in Categories
          PROVE  /\ \A y \in Addresses : y # x => HeldAt(g, y)' = HeldAt(g, y)
                 /\ \A u \in MemThreads : u # t => CallAt(g, u)' = CallAt(g, u)
                 /\ HeldAt(g, x) = 0 /\ CallAt(g, t) = 0
                 /\ HeldAt(g, x)' = (IF g = hd.category THEN hd.size ELSE 0) /\ CallAt(g, t)' = 0
      <3>1. \A y \in Addresses : y # x => HeldAt(g, y)' = HeldAt(g, y)
        BY <1>6, <2>a DEF HeldAt
      <3>2. \A u \in MemThreads : u # t => CallAt(g, u)' = CallAt(g, u)
        BY <2>4, Zenon DEF CallAt
      <3>3. HeldAt(g, x) = 0
        BY <1>9 DEF HeldAt
      <3>4. CallAt(g, t) = 0 /\ CallAt(g, t)' = 0
        BY <1>1, <2>4 DEF CallAt
      <3>6. HeldAt(g, x)' = IF g = hd.category THEN hd.size ELSE 0
        BY <1>6, <1>9, <2>a DEF HeldAt
      <3> QED
        BY <3>1, <3>2, <3>3, <3>4, <3>6
    <2>10. MemCore'
      BY <2>5, <2>7, <2>8 DEF MemCore
    <2>11. ASSUME NEW g \in Categories
           PROVE  HeldAt(g, x)' + CallAt(g, t)' = IF g = hd.category THEN hd.size ELSE 0
      BY <1>5, <2>9
    <2> QED
      BY <1>6, <1>11, <2>9, <2>10, <2>11
  <1> QED
    BY <1>12, <1>13

\* The bytes of a header that count for a category.
Sized(g, hd) == IF g = hd.category THEN hd.size ELSE 0

LEMMA NotifyCore ==
  ASSUME MemCore, NEW t \in MemThreads, NEW x, NEW hd, x = memCall[t].addr, hd = memCall[t].header,
         NotifyAllocation(t)
  PROVE  /\ MemCore' /\ forgotten' = forgotten /\ stats' = stats
         /\ \A g \in Categories :
               /\ \A y \in Addresses : y # x => HeldAt(g, y)' = HeldAt(g, y)
               /\ \A u \in MemThreads : u # t => CallAt(g, u)' = CallAt(g, u)
               /\ HeldAt(g, x) = 0 /\ CallAt(g, t) = Sized(g, hd)
               /\ HeldAt(g, x)' = Sized(g, hd) /\ CallAt(g, t)' = 0
  <1>1. memCall[t] # None /\ memCall[t].pc = "notify"
    BY DEF NotifyAllocation, In
  <1>5. /\ memCall[t] \in MemCalls /\ x \in Addresses /\ hd \in Headers /\ hd # None
        /\ hd.category \in Categories /\ hd.size \in Nat
    BY <1>1, OwnedHeader, Zenon
  <1>6. UNCHANGED <<heap, category, stats, forgotten>>
    BY DEF NotifyAllocation
  <1>8. Owns(t, x)
    BY <1>1 DEF Owns
  <1>9. /\ given[x] = "nobody" /\ heap[x] = hd /\ \A u \in MemThreads : u # t => ~Owns(u, x)
    BY <1>5, <1>8 DEF MemCore, OwnerInv
  <1>10. memCall' = [memCall EXCEPT ![t] = None] /\ given' = [given EXCEPT ![x] = "operators"]
    BY DEF NotifyAllocation
  <1>11. /\ memCall'[t] = None /\ memCall' \in [MemThreads -> MemCalls \cup {None}]
        /\ \A u \in MemThreads : u # t => memCall'[u] = memCall[u]
    BY <1>10 DEF MemCore, MemTypeOK
  <1>12. /\ given'[x] = "operators" /\ given' \in [Addresses -> Allocators \cup {"nobody"}]
        /\ \A y \in Addresses : y # x => given'[y] = given[y]
    BY <1>5, <1>10 DEF MemCore, MemTypeOK, Allocators
  <1>13. MemTypeOK'
    BY <1>6, <1>11, <1>12 DEF MemCore, MemTypeOK
  <1>14. ASSUME NEW y \in Addresses, Owns(t, y)' PROVE FALSE
    BY <1>11, <1>14 DEF Owns
  <1>15. OwnerInv'
    BY <1>5, <1>6, <1>9, <1>11, <1>14, <1>12, OwnerStep
  <1>16. hooked' \subseteq hooked \cup {x}
    BY DEF NotifyAllocation
  <1>17. HookedInv'
    BY <1>5, <1>9, <1>12, <1>16 DEF MemCore, HookedInv
  <1>18. ASSUME NEW g \in Categories
        PROVE  /\ \A y \in Addresses : y # x => HeldAt(g, y)' = HeldAt(g, y)
               /\ \A u \in MemThreads : u # t => CallAt(g, u)' = CallAt(g, u)
               /\ HeldAt(g, x) = 0 /\ CallAt(g, t) = Sized(g, hd)
               /\ HeldAt(g, x)' = Sized(g, hd) /\ CallAt(g, t)' = 0
    <2>1. \A y \in Addresses : y # x => HeldAt(g, y)' = HeldAt(g, y)
      BY <1>6, <1>12 DEF HeldAt
    <2>2. \A u \in MemThreads : u # t => CallAt(g, u)' = CallAt(g, u)
      BY <1>11, Zenon DEF CallAt
    <2>3. HeldAt(g, x) = 0
      BY <1>9 DEF HeldAt
    <2>4. CallAt(g, t) = Sized(g, hd) /\ CallAt(g, t)' = 0
      BY <1>1, <1>11 DEF CallAt, Sized
    <2>6. HeldAt(g, x)' = Sized(g, hd)
      BY <1>6, <1>9, <1>12 DEF HeldAt, Sized
    <2> QED
      BY <2>1, <2>2, <2>3, <2>4, <2>6
  <1>19. MemCore'
    BY <1>13, <1>15, <1>17 DEF MemCore
  <1> QED
    BY <1>6, <1>18, <1>19

LEMMA TakeBackCore ==
  ASSUME MemCore, NEW t \in MemThreads, NEW x \in Addresses, NEW hd, hd = heap[x],
         Delete(t, x) \/ Deallocate(t, x)
  PROVE  /\ MemCore' /\ forgotten' = forgotten /\ stats' = stats /\ hd \in Headers
         /\ \A g \in Categories :
               /\ \A y \in Addresses : y # x => HeldAt(g, y)' = HeldAt(g, y)
               /\ \A u \in MemThreads : u # t => CallAt(g, u)' = CallAt(g, u)
               /\ HeldAt(g, x) = Sized(g, hd) /\ CallAt(g, t) = 0
               /\ HeldAt(g, x)' = 0 /\ CallAt(g, t)' = Sized(g, hd)
  <1>1. /\ memCall[t] = None /\ given[x] # "nobody" /\ given' = [given EXCEPT ![x] = "nobody"]
        /\ UNCHANGED <<category, stats, forgotten>>
    BY DEF Delete, Deallocate
  <1>2. PICK by \in Allocators :
          /\ given[x] = by
          /\ heap' = IF by = "operators" THEN heap ELSE [heap EXCEPT ![x] = None]
          /\ memCall' = [memCall EXCEPT ![t] = [pc |-> "untrack", addr |-> x, by |-> by, header |-> hd]]
    <2>1. CASE Delete(t, x)
      BY <2>1 DEF Delete, Allocators
    <2>2. CASE Deallocate(t, x)
      BY <2>2 DEF Deallocate, Allocators
    <2> QED
      BY <2>1, <2>2
  <1>3. hd \in Headers /\ hd # None
    BY <1>1, MemAssumption DEF MemCore, MemTypeOK, OwnerInv, Headers
  <1>4. PICK cl : cl = [pc |-> "untrack", addr |-> x, by |-> by, header |-> hd]
    OBVIOUS
  <1>5. cl \in MemCalls /\ cl.pc = "untrack" /\ cl.addr = x /\ cl.by = by /\ cl.header = hd
    BY <1>3, <1>4 DEF MemCalls, MemPcs
  <1>6. cl # None
    BY <1>5, MemAssumption DEF MemCalls, Headers, MemPcs, Allocators
  <1>7. /\ memCall'[t] = cl /\ memCall' \in [MemThreads -> MemCalls \cup {None}]
        /\ \A u \in MemThreads : u # t => memCall'[u] = memCall[u]
    BY <1>2, <1>4, <1>5 DEF MemCore, MemTypeOK
  <1>8. /\ given'[x] = "nobody" /\ given' \in [Addresses -> Allocators \cup {"nobody"}]
        /\ \A y \in Addresses : y # x => given'[y] = given[y]
    BY <1>1 DEF MemCore, MemTypeOK
  <1>9. /\ heap' \in [Addresses -> Headers \cup {None}]
        /\ by = "operators" => heap'[x] = hd
        /\ \A y \in Addresses : y # x => heap'[y] = heap[y]
    BY <1>2 DEF MemCore, MemTypeOK
  <1>10. MemTypeOK'
    BY <1>1, <1>7, <1>8, <1>9 DEF MemCore, MemTypeOK
  <1>11. \A u \in MemThreads : ~Owns(u, x)
    BY <1>1 DEF MemCore, OwnerInv
  <1>12. ASSUME NEW y \in Addresses, Owns(t, y)'
         PROVE  y = x /\ given'[x] = "nobody" /\ heap'[x] = memCall'[t].header
    BY <1>5, <1>7, <1>8, <1>9, <1>12 DEF Owns
  <1>13. OwnerInv'
    BY <1>7, <1>8, <1>9, <1>11, <1>12, OwnerStep
  <1>14. HookedInv'
    <2>1. hooked' \subseteq hooked /\ x \notin hooked'
      <3>1. CASE Delete(t, x)
        BY <3>1 DEF Delete
      <3>2. CASE Deallocate(t, x)
        <4>1. hooked' = hooked /\ given[x] = "default"
          BY <3>2 DEF Deallocate
        <4> QED
          BY <4>1 DEF MemCore, HookedInv
      <3> QED
        BY <3>1, <3>2
    <2> QED
      BY <1>8, <2>1 DEF MemCore, HookedInv
  <1>15. ASSUME NEW g \in Categories
         PROVE  /\ \A y \in Addresses : y # x => HeldAt(g, y)' = HeldAt(g, y)
                /\ \A u \in MemThreads : u # t => CallAt(g, u)' = CallAt(g, u)
                /\ HeldAt(g, x) = Sized(g, hd) /\ CallAt(g, t) = 0
                /\ HeldAt(g, x)' = 0 /\ CallAt(g, t)' = Sized(g, hd)
    <2>1. \A y \in Addresses : y # x => HeldAt(g, y)' = HeldAt(g, y)
      BY <1>8, <1>9, Zenon DEF HeldAt
    <2>2. \A u \in MemThreads : u # t => CallAt(g, u)' = CallAt(g, u)
      BY <1>7, Zenon DEF CallAt
    <2>3. HeldAt(g, x) = Sized(g, hd) /\ HeldAt(g, x)' = 0
      BY <1>1, <1>8 DEF HeldAt, Sized
    <2>4. CallAt(g, t) = 0 /\ CallAt(g, t)' = Sized(g, hd)
      BY <1>1, <1>5, <1>6, <1>7 DEF CallAt, Sized
    <2> QED
      BY <2>1, <2>2, <2>3, <2>4
  <1> QED
    BY <1>1, <1>3, <1>10, <1>13, <1>14, <1>15 DEF MemCore

LEMMA UntrackCore ==
  ASSUME MemCore, NEW t \in MemThreads, NEW x, NEW hd, x = memCall[t].addr, hd = memCall[t].header,
         TrackDeallocation(t)
  PROVE  /\ MemCore' /\ forgotten' = forgotten /\ x \in Addresses /\ hd \in Headers
         /\ \A g \in Categories :
               /\ stats'[g].allocated = stats[g].allocated
               /\ stats'[g].deallocated = IF g = hd.category
                                          THEN (stats[g].deallocated + hd.size) % CounterRange
                                          ELSE stats[g].deallocated
               /\ \A y \in Addresses : HeldAt(g, y)' = HeldAt(g, y)
               /\ \A u \in MemThreads : u # t => CallAt(g, u)' = CallAt(g, u)
               /\ CallAt(g, t) = Sized(g, hd) /\ CallAt(g, t)' = 0
  <1>1. memCall[t] # None /\ memCall[t].pc = "untrack"
    BY DEF TrackDeallocation, In
  <1>5. /\ memCall[t] \in MemCalls /\ x \in Addresses /\ hd \in Headers /\ hd # None
        /\ memCall[t].by \in Allocators /\ hd.category \in Categories /\ hd.size \in Nat
    BY <1>1, OwnedHeader, Zenon
  <1>6. UNCHANGED <<heap, given, category, hooked, forgotten>>
    BY DEF TrackDeallocation
  <1>7. stats' = [stats EXCEPT ![hd.category].deallocated = (stats[hd.category].deallocated + hd.size) % CounterRange]
    BY DEF TrackDeallocation, Add
  <1>10. stats' \in [Categories -> Counters]
    <2>1. (stats[hd.category].deallocated + hd.size) % CounterRange \in 0 .. CounterRange - 1
      BY <1>5, StatsTyped, ModBasics
    <2> QED
      BY <1>5, <1>7, <2>1 DEF MemCore, MemTypeOK, Counters
  <1>11. ASSUME NEW g \in Categories
         PROVE  /\ stats'[g].allocated = stats[g].allocated
                /\ stats'[g].deallocated = IF g = hd.category THEN (stats[g].deallocated + hd.size) % CounterRange
                                           ELSE stats[g].deallocated
    BY <1>5, <1>7 DEF MemCore, MemTypeOK, Counters
  <1>12. /\ memCall' \in [MemThreads -> MemCalls \cup {None}]
         /\ \A u \in MemThreads : u # t => memCall'[u] = memCall[u]
         /\ memCall'[t] # None => /\ memCall[t].by = "operators" /\ memCall'[t].pc = "free" /\ memCall'[t].addr = x
                                  /\ memCall'[t].by = "operators" /\ memCall'[t].header = hd
    <2>1. CASE memCall[t].by = "operators"
      <3>1. memCall' = [memCall EXCEPT ![t].pc = "free"]
        BY <2>1 DEF TrackDeallocation, MemGo
      <3>2. PICK nx : nx = [memCall[t] EXCEPT !.pc = "free"]
        OBVIOUS
      <3>3. nx \in MemCalls /\ nx.pc = "free" /\ nx.addr = x /\ nx.header = hd /\ nx.by = "operators"
        BY <1>5, <2>1, <3>2 DEF MemCalls, MemPcs
      <3>4. memCall' = [memCall EXCEPT ![t] = nx]
        BY <3>1, <3>2 DEF MemCore, MemTypeOK
      <3> QED
        BY <2>1, <3>3, <3>4 DEF MemCore, MemTypeOK
    <2>2. CASE memCall[t].by # "operators"
      <3>1. memCall' = [memCall EXCEPT ![t] = None]
        BY <2>2 DEF TrackDeallocation
      <3> QED
        BY <3>1 DEF MemCore, MemTypeOK
    <2> QED
      BY <2>1, <2>2
  <1>13. MemTypeOK'
    BY <1>6, <1>10, <1>12 DEF MemCore, MemTypeOK
  <1>14. ASSUME NEW u \in MemThreads, NEW y \in Addresses, Owns(u, y)'
         PROVE  Owns(u, y) /\ memCall'[u].header = memCall[u].header
    <2>1. CASE u = t
      BY <1>1, <1>12, <1>14, <2>1 DEF Owns
    <2>2. CASE u # t
      BY <1>12, <1>14, <2>2, Zenon DEF Owns
    <2> QED
      BY <2>1, <2>2
  <1>15. OwnerInv'
    <2>1. /\ \A u \in MemThreads, y \in Addresses :
               Owns(u, y) => given[y] = "nobody" /\ heap[y] = memCall[u].header
          /\ \A u, v \in MemThreads, y \in Addresses : Owns(u, y) /\ Owns(v, y) => u = v
          /\ \A y \in Addresses : given[y] # "nobody" => heap[y] # None
      BY DEF MemCore, OwnerInv
    <2>2. /\ \A u \in MemThreads, y \in Addresses :
               Owns(u, y)' => given'[y] = "nobody" /\ heap'[y] = memCall'[u].header
          /\ \A u, v \in MemThreads, y \in Addresses : Owns(u, y)' /\ Owns(v, y)' => u = v
          /\ \A y \in Addresses : given'[y] # "nobody" => heap'[y] # None
      BY <1>6, <1>14, <2>1
    <2> QED
      BY <2>2, Zenon DEF OwnerInv
  <1>16. HookedInv'
    BY <1>6 DEF MemCore, HookedInv
  <1>17. ASSUME NEW g \in Categories
         PROVE  /\ \A y \in Addresses : HeldAt(g, y)' = HeldAt(g, y)
                /\ \A u \in MemThreads : u # t => CallAt(g, u)' = CallAt(g, u)
                /\ CallAt(g, t) = Sized(g, hd) /\ CallAt(g, t)' = 0
    <2>1. \A y \in Addresses : HeldAt(g, y)' = HeldAt(g, y)
      BY <1>6 DEF HeldAt
    <2>2. \A u \in MemThreads : u # t => CallAt(g, u)' = CallAt(g, u)
      BY <1>12, Zenon DEF CallAt
    <2>3. CallAt(g, t) = Sized(g, hd) /\ CallAt(g, t)' = 0
      BY <1>1, <1>12 DEF CallAt, Sized
    <2> QED
      BY <2>1, <2>2, <2>3
  <1> QED
    BY <1>5, <1>6, <1>11, <1>13, <1>15, <1>16, <1>17 DEF MemCore

LEMMA GiveBackCore ==
  ASSUME MemCore, NEW t \in MemThreads, GiveBack(t)
  PROVE  /\ MemCore' /\ forgotten' = forgotten /\ stats' = stats
         /\ \A g \in Categories :
               /\ \A y \in Addresses : HeldAt(g, y)' = HeldAt(g, y)
               /\ \A u \in MemThreads : CallAt(g, u)' = CallAt(g, u)
  <1>1. memCall[t] # None /\ memCall[t].pc = "free"
    BY DEF GiveBack, In
  <1>2. PICK x : x = memCall[t].addr
    OBVIOUS
  <1>5. x \in Addresses
    BY <1>1, <1>2, OwnedHeader, Zenon
  <1>6. UNCHANGED <<given, category, stats, hooked, forgotten>>
    BY DEF GiveBack
  <1>7. Owns(t, x)
    BY <1>1, <1>2 DEF Owns
  <1>8. given[x] = "nobody" /\ \A u \in MemThreads : u # t => ~Owns(u, x)
    BY <1>5, <1>7 DEF MemCore, OwnerInv
  <1>9. /\ heap' \in [Addresses -> Headers \cup {None}]
        /\ \A y \in Addresses : y # x => heap'[y] = heap[y]
    BY <1>2, <1>5 DEF GiveBack, MemCore, MemTypeOK
  <1>10. /\ memCall'[t] = None /\ memCall' \in [MemThreads -> MemCalls \cup {None}]
         /\ \A u \in MemThreads : u # t => memCall'[u] = memCall[u]
    BY DEF GiveBack, MemCore, MemTypeOK
  <1>11. MemTypeOK'
    BY <1>6, <1>9, <1>10 DEF MemCore, MemTypeOK
  <1>12. ASSUME NEW y \in Addresses, Owns(t, y)' PROVE FALSE
    BY <1>10, <1>12 DEF Owns
  <1>13. OwnerInv'
    BY <1>5, <1>6, <1>8, <1>9, <1>10, <1>12, OwnerStep
  <1>14. HookedInv'
    BY <1>6 DEF MemCore, HookedInv
  <1>15. ASSUME NEW g \in Categories, NEW y \in Addresses PROVE HeldAt(g, y)' = HeldAt(g, y)
    BY <1>6, <1>8, <1>9 DEF HeldAt
  <1>16. ASSUME NEW g \in Categories, NEW u \in MemThreads PROVE CallAt(g, u)' = CallAt(g, u)
    BY <1>1, <1>10 DEF CallAt
  <1> QED
    BY <1>6, <1>11, <1>13, <1>14, <1>15, <1>16 DEF MemCore

-----------------------------------------------------------------------------
LEMMA MemInitInv ==
  MemInit => MemInv
  <1> SUFFICES ASSUME MemInit PROVE MemInv
    OBVIOUS
  <1>1. /\ heap = [x \in Addresses |-> None] /\ given = [x \in Addresses |-> "nobody"]
        /\ memCall = [t \in MemThreads |-> None] /\ category = [t \in MemThreads |-> <<"Global">>]
        /\ stats = [g \in Categories |-> [allocated |-> 0, deallocated |-> 0]]
        /\ hooked = {} /\ forgotten = [g \in Categories |-> 0]
    BY DEF MemInit, NoCounts
  <1>2. 0 \in 0 .. CounterRange - 1
    BY SameCountBasics
  <1>3. MemTypeOK
    BY <1>1, <1>2 DEF MemTypeOK, Counters, Categories
  <1>4. OwnerInv /\ HookedInv
    BY <1>1 DEF OwnerInv, HookedInv, Owns
  <1>5. ASSUME NEW g \in Categories
        PROVE  /\ IsFiniteSet(HeldBytes(g)) /\ IsFiniteSet(CallBytes(g))
               /\ SameCount(stats[g].allocated - stats[g].deallocated + forgotten[g], Counted(g))
    <2>1. HeldBytes(g) = {}
      BY <1>1 DEF HeldBytes
    <2>2. CallBytes(g) = {}
      BY <1>1 DEF CallBytes, In
    <2>3. IsFiniteSet({}) /\ Cardinality({}) = 0
      BY FS_EmptySet, Zenon
    <2>4. Counted(g) = 0
      BY <2>1, <2>2, <2>3 DEF Counted
    <2>5. stats[g].allocated - stats[g].deallocated + forgotten[g] = 0
      BY <1>1
    <2>6. SameCount(0, 0)
      BY SameCountBasics
    <2> QED
      BY <2>1, <2>2, <2>3, <2>4, <2>5, <2>6, Zenon
  <1> QED
    BY <1>3, <1>4, <1>5 DEF MemInv, CountInv

\* A step that changes no counter and moves bytes between an address and a call.
LEMMA CountKept ==
  ASSUME MemInv, MemCore', NEW t \in MemThreads, NEW x \in Addresses,
         forgotten' = forgotten, stats' = stats,
         \A g \in Categories :
            /\ \A y \in Addresses : y # x => HeldAt(g, y)' = HeldAt(g, y)
            /\ \A u \in MemThreads : u # t => CallAt(g, u)' = CallAt(g, u)
            /\ HeldAt(g, x)' + CallAt(g, t)' = HeldAt(g, x) + CallAt(g, t)
  PROVE  MemInv'
  <1>1. ASSUME NEW g \in Categories
        PROVE  /\ IsFiniteSet(HeldBytes(g)') /\ IsFiniteSet(CallBytes(g)')
               /\ SameCount(stats'[g].allocated - stats'[g].deallocated + forgotten'[g], Counted(g)')
    <2>1. MemCore /\ IsFiniteSet(HeldBytes(g)) /\ IsFiniteSet(CallBytes(g))
      BY DEF MemInv, MemCore, CountInv
    <2>2. /\ IsFiniteSet(HeldBytes(g)') /\ IsFiniteSet(CallBytes(g)')
          /\ Counted(g) \in Nat /\ Counted(g)' \in Nat
          /\ HeldAt(g, x) \in Nat /\ HeldAt(g, x)' \in Nat /\ CallAt(g, t) \in Nat /\ CallAt(g, t)' \in Nat
          /\ Counted(g)' = Counted(g) + (HeldAt(g, x)' - HeldAt(g, x)) + (CallAt(g, t)' - CallAt(g, t))
      BY <2>1, CountMoves, Zenon
    <2>3. Counted(g)' = Counted(g)
      BY <2>2
    <2>4. SameCount(stats[g].allocated - stats[g].deallocated + forgotten[g], Counted(g))
      BY DEF MemInv, CountInv
    <2> QED
      BY <2>2, <2>3, <2>4, Zenon
  <1>2. CountInv'
    BY <1>1, Zenon DEF CountInv
  <1> QED
    BY <1>2 DEF MemInv, MemCore

LEMMA TrackStep ==
  ASSUME MemInv, NEW t \in MemThreads, TrackAllocation(t)
  PROVE  MemInv'
  <1>1. MemCore /\ memCall[t] # None
    BY DEF MemInv, MemCore, TrackAllocation, In
  <1>2. PICK x : x = memCall[t].addr
    OBVIOUS
  <1>3. PICK hd : hd = memCall[t].header
    OBVIOUS
  <1>4. x \in Addresses /\ hd.size \in Nat /\ hd.category \in Categories
    BY <1>1, <1>2, <1>3, OwnedHeader, Zenon
  <1>5. /\ MemCore' /\ forgotten' = forgotten
        /\ \A g \in Categories :
               /\ stats'[g].deallocated = stats[g].deallocated
               /\ stats'[g].allocated = IF g = hd.category
                                        THEN (stats[g].allocated + hd.size) % CounterRange
                                        ELSE stats[g].allocated
               /\ \A y \in Addresses : y # x => HeldAt(g, y)' = HeldAt(g, y)
               /\ \A u \in MemThreads : u # t => CallAt(g, u)' = CallAt(g, u)
               /\ HeldAt(g, x) = 0 /\ CallAt(g, t) = 0
               /\ HeldAt(g, x)' + CallAt(g, t)' = IF g = hd.category THEN hd.size ELSE 0
    BY <1>1, <1>2, <1>3, TrackCore
  <1>6. ASSUME NEW g \in Categories
        PROVE  /\ IsFiniteSet(HeldBytes(g)') /\ IsFiniteSet(CallBytes(g)')
               /\ SameCount(stats'[g].allocated - stats'[g].deallocated + forgotten'[g], Counted(g)')
    <2>1. /\ IsFiniteSet(HeldBytes(g)) /\ IsFiniteSet(CallBytes(g))
          /\ SameCount(stats[g].allocated - stats[g].deallocated + forgotten[g], Counted(g))
      BY DEF MemInv, CountInv
    <2>2. /\ \A y \in Addresses : y # x => HeldAt(g, y)' = HeldAt(g, y)
          /\ \A u \in MemThreads : u # t => CallAt(g, u)' = CallAt(g, u)
          /\ HeldAt(g, x) = 0 /\ CallAt(g, t) = 0
          /\ HeldAt(g, x)' + CallAt(g, t)' = IF g = hd.category THEN hd.size ELSE 0
      BY <1>5, Zenon
    <2>3. /\ IsFiniteSet(HeldBytes(g)') /\ IsFiniteSet(CallBytes(g)')
          /\ Counted(g) \in Nat /\ Counted(g)' \in Nat
          /\ HeldAt(g, x)' \in Nat /\ CallAt(g, t)' \in Nat
          /\ Counted(g)' = Counted(g) + (HeldAt(g, x)' - HeldAt(g, x)) + (CallAt(g, t)' - CallAt(g, t))
      BY <1>1, <1>4, <1>5, <2>1, <2>2, CountMoves, Zenon
    <2>4. Counted(g)' = Counted(g) + IF g = hd.category THEN hd.size ELSE 0
      BY <2>2, <2>3
    <2>5. stats[g].allocated \in Nat /\ stats[g].deallocated \in Nat /\ forgotten[g] \in Nat
      BY <1>1, StatsTyped
    <2>6. CASE g = hd.category
      <3>1. Counted(g)' = Counted(g) + hd.size
        BY <2>4, <2>6
      <3>2. SameCount(((stats[g].allocated + hd.size) % CounterRange) - stats[g].deallocated + forgotten[g],
                      Counted(g) + hd.size)
        <4>1. Counted(g) \in Int
          BY <2>3
        <4> QED
          BY <1>4, <2>1, <2>5, <4>1, CountedUp, Zenon
      <3>3. /\ stats'[g].allocated = (stats[g].allocated + hd.size) % CounterRange
            /\ stats'[g].deallocated = stats[g].deallocated /\ forgotten'[g] = forgotten[g]
        BY <1>5, <2>6
      <3> QED
        BY <2>3, <3>1, <3>2, <3>3, Zenon
    <2>7. CASE g # hd.category
      <3>1. Counted(g)' = Counted(g)
        BY <2>3, <2>4, <2>7
      <3>3. /\ stats'[g].allocated = stats[g].allocated
            /\ stats'[g].deallocated = stats[g].deallocated /\ forgotten'[g] = forgotten[g]
        BY <1>5, <2>7
      <3> QED
        BY <2>1, <2>3, <3>1, <3>3, Zenon
    <2> QED
      BY <2>6, <2>7
  <1>7. CountInv'
    BY <1>6, Zenon DEF CountInv
  <1> QED
    BY <1>5, <1>7 DEF MemInv, MemCore

LEMMA UntrackStep ==
  ASSUME MemInv, NEW t \in MemThreads, TrackDeallocation(t)
  PROVE  MemInv'
  <1>1. MemCore /\ memCall[t] # None
    BY DEF MemInv, MemCore, TrackDeallocation, In
  <1>2. PICK x : x = memCall[t].addr
    OBVIOUS
  <1>3. PICK hd : hd = memCall[t].header
    OBVIOUS
  <1>4. x \in Addresses /\ hd.size \in Nat /\ hd.category \in Categories
    BY <1>1, <1>2, <1>3, OwnedHeader, Zenon
  <1>5. /\ MemCore' /\ forgotten' = forgotten
        /\ \A g \in Categories :
               /\ stats'[g].allocated = stats[g].allocated
               /\ stats'[g].deallocated = IF g = hd.category
                                          THEN (stats[g].deallocated + hd.size) % CounterRange
                                          ELSE stats[g].deallocated
               /\ \A y \in Addresses : HeldAt(g, y)' = HeldAt(g, y)
               /\ \A u \in MemThreads : u # t => CallAt(g, u)' = CallAt(g, u)
               /\ CallAt(g, t) = Sized(g, hd) /\ CallAt(g, t)' = 0
    BY <1>1, <1>2, <1>3, UntrackCore
  <1>6. ASSUME NEW g \in Categories
        PROVE  /\ IsFiniteSet(HeldBytes(g)') /\ IsFiniteSet(CallBytes(g)')
               /\ SameCount(stats'[g].allocated - stats'[g].deallocated + forgotten'[g], Counted(g)')
    <2>1. /\ IsFiniteSet(HeldBytes(g)) /\ IsFiniteSet(CallBytes(g))
          /\ SameCount(stats[g].allocated - stats[g].deallocated + forgotten[g], Counted(g))
      BY DEF MemInv, CountInv
    <2>2. /\ \A y \in Addresses : HeldAt(g, y)' = HeldAt(g, y)
          /\ \A u \in MemThreads : u # t => CallAt(g, u)' = CallAt(g, u)
          /\ CallAt(g, t) = (IF g = hd.category THEN hd.size ELSE 0) /\ CallAt(g, t)' = 0
      BY <1>5, Zenon DEF Sized
    <2>3. /\ IsFiniteSet(HeldBytes(g)') /\ IsFiniteSet(CallBytes(g)')
          /\ Counted(g) \in Nat /\ Counted(g)' \in Nat
          /\ HeldAt(g, x) \in Nat
          /\ Counted(g)' = Counted(g) + (HeldAt(g, x)' - HeldAt(g, x)) + (CallAt(g, t)' - CallAt(g, t))
      BY <1>1, <1>4, <1>5, <2>1, <2>2, CountMoves, Zenon
    <2>4. Counted(g)' = Counted(g) - IF g = hd.category THEN hd.size ELSE 0
      BY <1>4, <2>2, <2>3
    <2>5. stats[g].allocated \in Nat /\ stats[g].deallocated \in Nat /\ forgotten[g] \in Nat
      BY <1>1, StatsTyped
    <2>6. CASE g = hd.category
      <3>1. Counted(g)' = Counted(g) - hd.size
        BY <2>4, <2>6
      <3>2. SameCount(stats[g].allocated - ((stats[g].deallocated + hd.size) % CounterRange) + forgotten[g],
                      Counted(g) - hd.size)
        <4>1. Counted(g) \in Int
          BY <2>3
        <4> QED
          BY <1>4, <2>1, <2>5, <4>1, CountedDown, Zenon
      <3>3. /\ stats'[g].deallocated = (stats[g].deallocated + hd.size) % CounterRange
            /\ stats'[g].allocated = stats[g].allocated /\ forgotten'[g] = forgotten[g]
        BY <1>5, <2>6
      <3> QED
        BY <2>3, <3>1, <3>2, <3>3, Zenon
    <2>7. CASE g # hd.category
      <3>1. Counted(g)' = Counted(g)
        BY <2>3, <2>4, <2>7
      <3>3. /\ stats'[g].allocated = stats[g].allocated
            /\ stats'[g].deallocated = stats[g].deallocated /\ forgotten'[g] = forgotten[g]
        BY <1>5, <2>7
      <3> QED
        BY <2>1, <2>3, <3>1, <3>3, Zenon
    <2> QED
      BY <2>6, <2>7
  <1>7. CountInv'
    BY <1>6, Zenon DEF CountInv
  <1> QED
    BY <1>5, <1>7 DEF MemInv, MemCore

LEMMA ResetStatsStep ==
  ASSUME MemInv, ResetStats
  PROVE  MemInv'
  <1>1. /\ UNCHANGED <<heap, given, memCall, category, hooked>>
        /\ stats' = [g \in Categories |-> [allocated |-> 0, deallocated |-> 0]]
        /\ forgotten' = [g \in Categories |-> (forgotten[g] + CurrentUsage(g)) % CounterRange]
    BY DEF ResetStats, NoCounts
  <1>2. MemCore
    BY DEF MemInv, MemCore
  <1>3. ASSUME NEW g \in Categories
        PROVE  /\ forgotten'[g] \in 0 .. CounterRange - 1
               /\ SameCount(stats'[g].allocated - stats'[g].deallocated + forgotten'[g], Counted(g))
    <2>1. /\ stats[g].allocated \in 0 .. CounterRange - 1 /\ stats[g].deallocated \in 0 .. CounterRange - 1
          /\ forgotten[g] \in 0 .. CounterRange - 1
      BY <1>2, StatsTyped, Zenon
    <2>2. /\ SameCount(stats[g].allocated - stats[g].deallocated + forgotten[g], Counted(g))
          /\ Counted(g) \in Int
      <3>1. /\ SameCount(stats[g].allocated - stats[g].deallocated + forgotten[g], Counted(g))
            /\ IsFiniteSet(HeldBytes(g)) /\ IsFiniteSet(CallBytes(g))
        BY DEF MemInv, CountInv
      <3>2. Cardinality(HeldBytes(g)) \in Nat /\ Cardinality(CallBytes(g)) \in Nat
        BY <3>1, FS_CardinalityType, Zenon
      <3> QED
        BY <3>1, <3>2 DEF Counted
    <2>3. PICK w : w = (forgotten[g] + ((stats[g].allocated + CounterRange - stats[g].deallocated) % CounterRange)) % CounterRange
      OBVIOUS
    <2>4. w \in 0 .. CounterRange - 1 /\ SameCount(0 - 0 + w, Counted(g))
      BY <2>1, <2>2, <2>3, CountedAgain, Zenon
    <2>5. forgotten'[g] = w /\ stats'[g].allocated = 0 /\ stats'[g].deallocated = 0
      BY <1>1, <2>3 DEF CurrentUsage
    <2> QED
      BY <2>4, <2>5, Zenon
  <1>4. MemTypeOK'
    <2>1. 0 \in 0 .. CounterRange - 1
      BY SameCountBasics
    <2>2. stats' \in [Categories -> Counters]
      BY <1>1, <2>1 DEF Counters
    <2>3. forgotten' \in [Categories -> 0 .. CounterRange - 1]
      BY <1>1, <1>3
    <2> QED
      BY <1>1, <1>2, <2>2, <2>3 DEF MemCore, MemTypeOK
  <1>5. OwnerInv' /\ HookedInv'
    BY <1>1, <1>2 DEF MemCore, OwnerInv, HookedInv, Owns
  <1>6. ASSUME NEW g \in Categories
        PROVE  /\ HeldBytes(g)' = HeldBytes(g) /\ CallBytes(g)' = CallBytes(g) /\ Counted(g)' = Counted(g)
    BY <1>1 DEF HeldBytes, CallBytes, Counted, In
  <1>7. CountInv'
    <2>1. ASSUME NEW g \in Categories PROVE IsFiniteSet(HeldBytes(g)) /\ IsFiniteSet(CallBytes(g))
      BY DEF MemInv, CountInv
    <2> QED
      BY <1>3, <1>6, <2>1, Zenon DEF CountInv
  <1> QED
    BY <1>4, <1>5, <1>7 DEF MemInv

LEMMA MemStep ==
  ASSUME MemInv, [MemNext]_memVars
  PROVE  MemInv'
  <1>0. MemCore
    BY DEF MemInv, MemCore
  <1>1. ASSUME MemCore', UNCHANGED <<heap, given, memCall, stats, forgotten>>
        PROVE  MemInv'
    <2>1. ASSUME NEW g \in Categories
          PROVE  HeldBytes(g)' = HeldBytes(g) /\ CallBytes(g)' = CallBytes(g) /\ Counted(g)' = Counted(g)
      BY <1>1 DEF HeldBytes, CallBytes, Counted, In
    <2>2. CountInv'
      BY <1>1, <2>1, Zenon DEF CountInv, MemInv
    <2> QED
      BY <1>1, <2>2 DEF MemInv, MemCore
  <1>2. CASE UNCHANGED memVars
    <2>1. MemCore'
      BY <1>0, <1>2 DEF memVars, MemCore, MemTypeOK, OwnerInv, HookedInv, Owns
    <2> QED
      BY <1>1, <1>2, <2>1 DEF memVars
  <1>3. ASSUME NEW t \in MemThreads, (\E g \in Categories : EnterCategory(t, g)) \/ LeaveCategory(t)
        PROVE  MemInv'
    BY <1>0, <1>1, <1>3, ScopesCore
  <1>4. ASSUME NEW t \in MemThreads, NEW x \in Addresses, NEW size \in MemSizes, NEW by \in Allocators,
               Allocate(t, x, size, by)
        PROVE  MemInv'
    <2>1. /\ MemCore' /\ given' = given /\ stats' = stats /\ forgotten' = forgotten
          /\ given[x] = "nobody" /\ memCall[t] = None /\ memCall'[t].pc = "track"
          /\ \A y \in Addresses : y # x => heap'[y] = heap[y]
          /\ \A u \in MemThreads : u # t => memCall'[u] = memCall[u]
      BY <1>0, <1>4, AllocateCore
    <2>2. ASSUME NEW g \in Categories
          PROVE  /\ \A y \in Addresses : y # x => HeldAt(g, y)' = HeldAt(g, y)
                 /\ \A u \in MemThreads : u # t => CallAt(g, u)' = CallAt(g, u)
                 /\ HeldAt(g, x)' + CallAt(g, t)' = HeldAt(g, x) + CallAt(g, t)
      <3>1. \A y \in Addresses : y # x => HeldAt(g, y)' = HeldAt(g, y)
        BY <2>1, Zenon DEF HeldAt
      <3>2. \A u \in MemThreads : u # t => CallAt(g, u)' = CallAt(g, u)
        BY <2>1, Zenon DEF CallAt
      <3>3. HeldAt(g, x)' = 0 /\ HeldAt(g, x) = 0
        BY <2>1 DEF HeldAt
      <3>4. CallAt(g, t)' = 0 /\ CallAt(g, t) = 0
        BY <2>1 DEF CallAt
      <3> QED
        BY <3>1, <3>2, <3>3, <3>4
    <2> QED
      BY <2>1, <2>2, CountKept
  <1>5. ASSUME NEW t \in MemThreads, NEW x \in Addresses, Delete(t, x) \/ Deallocate(t, x)
        PROVE  MemInv'
    <2>0. PICK hd : hd = heap[x]
      OBVIOUS
    <2>1. /\ MemCore' /\ forgotten' = forgotten /\ stats' = stats /\ hd \in Headers
          /\ \A g \in Categories :
                /\ \A y \in Addresses : y # x => HeldAt(g, y)' = HeldAt(g, y)
                /\ \A u \in MemThreads : u # t => CallAt(g, u)' = CallAt(g, u)
                /\ HeldAt(g, x) = Sized(g, hd) /\ CallAt(g, t) = 0
                /\ HeldAt(g, x)' = 0 /\ CallAt(g, t)' = Sized(g, hd)
      BY <1>0, <1>5, <2>0, TakeBackCore
    <2>2. \A g \in Categories : Sized(g, hd) \in Nat
      BY <2>1, MemAssumption DEF Sized, Headers
    <2>3. \A g \in Categories :
                /\ \A y \in Addresses : y # x => HeldAt(g, y)' = HeldAt(g, y)
                /\ \A u \in MemThreads : u # t => CallAt(g, u)' = CallAt(g, u)
                /\ HeldAt(g, x)' + CallAt(g, t)' = HeldAt(g, x) + CallAt(g, t)
      BY <2>1, <2>2
    <2> QED
      BY <2>1, <2>3, CountKept
  <1>6. ASSUME NEW t \in MemThreads, NotifyAllocation(t)
        PROVE  MemInv'
    <2>0. PICK hd : hd = memCall[t].header
      OBVIOUS
    <2>a. PICK x : x = memCall[t].addr
      OBVIOUS
    <2>b. memCall[t] # None
      BY <1>6 DEF NotifyAllocation, In
    <2>c. x \in Addresses /\ hd \in Headers
      BY <1>0, <2>0, <2>a, <2>b, OwnedHeader, Zenon
    <2>1. /\ MemCore' /\ forgotten' = forgotten /\ stats' = stats
          /\ \A g \in Categories :
                /\ \A y \in Addresses : y # x => HeldAt(g, y)' = HeldAt(g, y)
                /\ \A u \in MemThreads : u # t => CallAt(g, u)' = CallAt(g, u)
                /\ HeldAt(g, x) = 0 /\ CallAt(g, t) = Sized(g, hd)
                /\ HeldAt(g, x)' = Sized(g, hd) /\ CallAt(g, t)' = 0
      BY <1>0, <1>6, <2>0, <2>a, NotifyCore
    <2>2. \A g \in Categories : Sized(g, hd) \in Nat
      BY <2>c, MemAssumption DEF Sized, Headers
    <2>3. \A g \in Categories :
                /\ \A y \in Addresses : y # x => HeldAt(g, y)' = HeldAt(g, y)
                /\ \A u \in MemThreads : u # t => CallAt(g, u)' = CallAt(g, u)
                /\ HeldAt(g, x)' + CallAt(g, t)' = HeldAt(g, x) + CallAt(g, t)
      BY <2>1, <2>2
    <2> QED
      BY <2>1, <2>3, <2>c, CountKept
  <1>7. ASSUME NEW t \in MemThreads, GiveBack(t)
        PROVE  MemInv'
    <2>1. PICK x : x = memCall[t].addr
      OBVIOUS
    <2>2. memCall[t] # None
      BY <1>7 DEF GiveBack, In
    <2>3. x \in Addresses
      BY <1>0, <2>1, <2>2, OwnedHeader, Zenon
    <2>4. /\ MemCore' /\ forgotten' = forgotten /\ stats' = stats
          /\ \A g \in Categories :
                /\ \A y \in Addresses : HeldAt(g, y)' = HeldAt(g, y)
                /\ \A u \in MemThreads : CallAt(g, u)' = CallAt(g, u)
      BY <1>0, <1>7, GiveBackCore
    <2>5. \A g \in Categories :
                /\ \A y \in Addresses : y # x => HeldAt(g, y)' = HeldAt(g, y)
                /\ \A u \in MemThreads : u # t => CallAt(g, u)' = CallAt(g, u)
                /\ HeldAt(g, x)' + CallAt(g, t)' = HeldAt(g, x) + CallAt(g, t)
      BY <2>3, <2>4, Zenon
    <2> QED
      BY <2>3, <2>4, <2>5, CountKept
  <1>8. CASE MemNext
    <2>1. CASE \E t \in MemThreads, g \in Categories : EnterCategory(t, g)
      BY <1>3, <2>1, Zenon
    <2>2. CASE \E t \in MemThreads, x \in Addresses, size \in MemSizes, by \in {"operators", "default"} :
                  Allocate(t, x, size, by)
      BY <1>4, <2>2, Zenon DEF Allocators
    <2>3. CASE \E t \in MemThreads, x \in Addresses : Delete(t, x) \/ Deallocate(t, x)
      BY <1>5, <2>3, Zenon
    <2>4. CASE \E t \in MemThreads :
                  LeaveCategory(t) \/ TrackAllocation(t) \/ NotifyAllocation(t) \/ TrackDeallocation(t) \/ GiveBack(t)
      BY <1>3, <1>6, <1>7, <2>4, TrackStep, UntrackStep, Zenon
    <2>5. CASE ResetStats
      BY <2>5, ResetStatsStep
    <2> QED
      BY <1>8, <2>1, <2>2, <2>3, <2>4, <2>5, Zenon DEF MemNext
  <1> QED
    BY <1>2, <1>8

LEMMA InvStatsAreLive ==
  MemInv => StatsAreLive /\ HooksTakeTurns
  <1> SUFFICES ASSUME MemInv PROVE StatsAreLive /\ HooksTakeTurns
    OBVIOUS
  <1>0. MemCore
    BY DEF MemInv, MemCore
  <1>1. ASSUME NEW g \in Categories
        PROVE  CurrentUsage(g) = (Counted(g) + CounterRange - forgotten[g]) % CounterRange
    <2>1. /\ SameCount(stats[g].allocated - stats[g].deallocated + forgotten[g], Counted(g))
          /\ IsFiniteSet(HeldBytes(g)) /\ IsFiniteSet(CallBytes(g))
      BY DEF MemInv, CountInv
    <2>2. Cardinality(HeldBytes(g)) \in Nat /\ Cardinality(CallBytes(g)) \in Nat
      BY <2>1, FS_CardinalityType, Zenon
    <2>3. PICK n \in Nat : n = Counted(g)
      BY <2>2 DEF Counted
    <2>4. PICK R \in Nat : R = CounterRange /\ R > 0
      BY SameCountBasics
    <2>5. /\ stats[g].allocated \in 0 .. R - 1 /\ stats[g].deallocated \in 0 .. R - 1
          /\ forgotten[g] \in 0 .. R - 1
      BY <1>0, <2>4, StatsTyped, Zenon
    <2>6. PICK al \in Nat, de \in Nat, fo \in Nat :
            /\ al = stats[g].allocated /\ de = stats[g].deallocated /\ fo = forgotten[g]
            /\ de < R /\ fo < R
      BY <2>4, <2>5
    <2>7. SameCount(al - de + fo, n)
      BY <2>1, <2>3, <2>6
    <2>8. PICK d \in Int : d = R - fo
      OBVIOUS
    <2>9. SameCount(d, d) /\ al - de + fo \in Int
      BY SameCountBasics
    <2>10. SameCount((al - de + fo) + d, n + d)
      BY <2>7, <2>9, SameCountBasics
    <2>11. (al - de + fo) + d = al + R - de /\ n + d = n + R - fo
      BY <2>8
    <2>12. al + R - de \in Nat /\ n + R - fo \in Nat
      BY <2>6
    <2>13. (al + R - de) % R = (n + R - fo) % R
      BY <2>4, <2>10, <2>11, <2>12, SameMod
    <2> QED
      BY <2>3, <2>4, <2>6, <2>13 DEF CurrentUsage
  <1>2. ASSUME NEW t \in MemThreads, In(t, "notify"), memCall[t].addr \in hooked PROVE FALSE
    <2>1. memCall[t] # None /\ memCall[t].pc = "notify"
      BY <1>2 DEF In
    <2>2. memCall[t].addr \in Addresses
      BY <1>0, <2>1, OwnedHeader, Zenon
    <2>3. Owns(t, memCall[t].addr)
      BY <2>1 DEF Owns
    <2>4. given[memCall[t].addr] = "nobody"
      BY <1>0, <2>2, <2>3 DEF MemCore, OwnerInv
    <2> QED
      BY <1>0, <1>2, <2>4 DEF MemCore, HookedInv
  <1> QED
    BY <1>1, <1>2 DEF StatsAreLive, HooksTakeTurns

-----------------------------------------------------------------------------
LEMMA FrameMemoryStep ==
  ASSUME [FrameNext]_frameVars
  PROVE  [FreeListNext]_freeListVars /\ [ArenaNext]_arenaVars /\ [MemNext]_memVars
  <1>1. CASE Only("runtime", <<eventVars, freeListVars, arenaVars, memVars, parallelVars>>) /\ Next
    BY <1>1 DEF Only
  <1>2. CASE Only("events", <<vars, freeListVars, arenaVars, memVars, parallelVars>>) /\ EventNext
    BY <1>2 DEF Only
  <1>3. CASE Only("freeList", <<vars, eventVars, arenaVars, memVars, parallelVars>>) /\ FreeListNext
    BY <1>3 DEF Only
  <1>4. CASE Only("arena", <<vars, eventVars, freeListVars, memVars, parallelVars>>) /\ ArenaNext
    BY <1>4 DEF Only
  <1>5. CASE Only("memory", <<vars, eventVars, freeListVars, arenaVars, parallelVars>>) /\ MemNext
    BY <1>5 DEF Only
  <1>6. CASE Only("parallel", <<vars, eventVars, freeListVars, arenaVars, memVars>>) /\ ParallelNext
    BY <1>6 DEF Only
  <1>7. CASE UNCHANGED frameVars
    BY <1>7 DEF frameVars
  <1> QED
    BY <1>1, <1>2, <1>3, <1>4, <1>5, <1>6, <1>7 DEF FrameNext

(* The allocators keep their invariants: the free list is in ascending     *)
(* order with a gap after each block, so that what is coalesced is all     *)
(* that touches, and no word of it is a block's; blocks of a stack or of a *)
(* linear allocator lie one behind the other below the offset, and the     *)
(* stack knows its last one only while it ends there; an object of a pool  *)
(* is held once or free once; the usage is the number of words held.       *)
THEOREM AllocatorsInvariant == FrameSpec => [](FreeListInv /\ ArenaInv)
  <1>1. FrameInit => FreeListInv /\ ArenaInv
    BY FreeListInitInv, ArenaInitInv DEF FrameInit
  <1>2. (FreeListInv /\ ArenaInv) /\ [FrameNext]_frameVars => (FreeListInv /\ ArenaInv)'
    BY FrameMemoryStep, FreeListStep, ArenaStep
  <1> QED
    BY <1>1, <1>2, PTL DEF FrameSpec

(* CFreeListAllocator, CStackAllocator, CLinearAllocator and               *)
(* CPoolAllocator never hand out a word twice or one outside their buffer, *)
(* headers and padding included, for every capacity, every size and        *)
(* alignment asked for and every order of allocating and giving back; and  *)
(* the usage an arena reports is what is held, or given back out of reach. *)
THEOREM AllocatorsShareNoWord == FrameSpec => []AllocatorsAreSound
  <1>1. FreeListInv /\ ArenaInv => AllocatorsAreSound
    BY InvFreeListIsSound, InvArenasAreSound DEF AllocatorsAreSound
  <1> QED
    BY <1>1, AllocatorsInvariant, PTL

(* The tracking operators keep their invariant: a call between the heap    *)
(* and the caller has its address to itself, the hooks' addresses are with *)
(* a caller, and in every category the counters differ by the bytes that   *)
(* are held or in a call that has counted them, modulo their range.        *)
THEOREM TrackingInvariant == FrameSpec => []MemInv
  <1>1. FrameInit => MemInv
    BY MemInitInv DEF FrameInit
  <1>2. MemInv /\ [FrameNext]_frameVars => MemInv'
    BY FrameMemoryStep, MemStep
  <1> QED
    BY <1>1, <1>2, PTL DEF FrameSpec

(* GetCurrentUsage tells of exactly the bytes that are live, whichever     *)
(* thread frees them and in whatever category it is, also when a counter   *)
(* wraps and after Reset; and no allocation of an address is reported to   *)
(* the hooks before the free of the one before, for any number of threads, *)
(* addresses and sizes.                                                    *)
THEOREM UsageIsExact == FrameSpec => []TrackingIsExact
  <1>1. MemInv => TrackingIsExact
    BY InvStatsAreLive DEF TrackingIsExact
  <1> QED
    BY <1>1, TrackingInvariant, PTL
=============================================================================
