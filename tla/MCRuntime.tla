------------------------------ MODULE MCRuntime ------------------------------
(***************************************************************************)
(* Three modules, in a context that loads two or all of them.  The names   *)
(* are interchangeable, so one list of each length stands for all.  Every  *)
(* graph of declarations between different modules is tried, one entry a   *)
(* pair; on a few graphs a module that depends on itself, a schedule that  *)
(* forgets one, a bad contract, an unmet version, two or three entries for *)
(* one module, and contexts that load other modules from boot to boot.     *)
(***************************************************************************)
EXTENDS Runtime

CONSTANTS a, b, c

Ticks == <<<<2, a>>, <<1, b>>, <<1, a>>, <<2, c>>>>
FewTicks == <<<<1, a>>>>

Context(load, ticks) == [modules |-> load, schedule |-> ticks, noTick |-> <<c>>]
Loads == {<<a, b>>, <<a, b, c, a>>}
Fixed == {{Context(load, Ticks)} : load \in Loads}
Changing == {Context(load, Ticks) : load \in {<<a, b>>, <<c, b>>, <<a, b, c, a>>, <<c, b, a>>}}
              \cup {Context(<<a, b>>, FewTicks)}

Entry(d, k) == [on |-> d, kind |-> k, met |-> TRUE]

\* The lists of declarations of a graph, which gives each pair a kind or "none".
Declared(edges, unmet) ==
  [m \in Modules |->
     SetToSeq({[on |-> d, kind |-> edges[m, d], met |-> <<m, d>> \notin unmet] :
                 d \in {e \in Modules : edges[m, e] # "none"}})]

Edges == {e \in Modules \X Modules : e[1] # e[2]}
Graph(edges, self) ==
  [e \in Modules \X Modules |-> IF e[1] = e[2] THEN self[e[1]] ELSE edges[e]]
NoSelf == [m \in Modules |-> "none"]
Triangle(ab, bc, ca) == [e \in Edges |-> CASE e = <<a, b>> -> ab
                                           [] e = <<b, c>> -> bc
                                           [] e = <<c, a>> -> ca
                                           [] OTHER -> "none"]
Chain == Graph(Triangle("Required", "Optional", "Notify"), NoSelf)

Setup(contexts, deps, unfit) == [contexts |-> contexts, deps |-> deps, unfit |-> unfit]

Repeated == {[m \in Modules |-> CASE m = a -> entries [] m = b -> back [] m = c -> <<>>] :
               entries \in UNION {[1 .. n -> {Entry(b, k) : k \in Kinds}] : n \in 2 .. 3},
               back \in {<<>>, <<Entry(a, "Optional")>>}}

MCSetups ==
       {Setup(contexts, Declared(Graph(edges, NoSelf), {}), {}) :
           contexts \in Fixed, edges \in [Edges -> Kinds \cup {"none"}]}
  \cup {Setup({Context(load, ticks)}, Declared(Graph(Triangle("Required", "Optional", "Notify"), self), {}), {}) :
           load \in Loads, ticks \in {Ticks, FewTicks},
           self \in [Modules -> {"none", "Optional", "Notify"}]}
  \cup {Setup(contexts, Declared(Chain, unmet), unfit) :
           contexts \in Fixed, unfit \in {{}, {b}, {c}}, unmet \in SUBSET {<<a, b>>, <<c, a>>}}
  \cup {Setup(contexts, deps, {}) : contexts \in Fixed, deps \in Repeated}
  \cup {Setup(Changing, Declared(Graph(Triangle(ab, bc, ca), NoSelf), {}), {}) :
           ab, bc, ca \in {"none", "Optional", "Notify"}}
=============================================================================
