---------------------------- MODULE MemoryTracking ----------------------------
(***************************************************************************)
(* The global operator new and delete with tracking, CDefaultAllocator and *)
(* the statistics behind them (src/private/memory): threads allocate under *)
(* the category they are in, any thread frees, and the heap gives an       *)
(* address out again as soon as it has it back.  A counter wraps at        *)
(* CounterRange.  Hooks are installed, if at all, before the threads run.  *)
(***************************************************************************)
EXTENDS Naturals, Sequences, SequencesExt, FiniteSets

CONSTANTS None,           \* no block, no call under way
          MemThreads, Addresses, MemSizes,
          MaxScopes,      \* nesting of CScopedCategory
          CounterRange,   \* values of a size_t
          MaxResets       \* bound on calls of Reset

Categories == {"Global", "Other"}

ASSUME MemAssumption ==
    /\ MemSizes \subseteq Nat
    /\ CounterRange \in Nat \ {0}
    /\ None \notin [size : MemSizes, category : Categories]
    /\ None \notin [pc : {"track", "notify", "untrack", "free"}, addr : Addresses,
                    by : {"operators", "default"}, header : [size : MemSizes, category : Categories]]

VARIABLES heap,           \* address -> the header the operators put there, None while free
          given,          \* addresses callers hold, by the operator that gave them
          memCall,        \* the call each thread is in
          category,       \* gCurrentCategory of each thread, after those its scopes will restore
          stats,          \* gCategoryStats: allocated, deallocated
          hasHooks,       \* SetAllocationHooks was called
          hooked,         \* addresses the hooks saw allocated and not yet freed
          numResets,
          forgotten       \* bytes counted when Reset was called

memVars == <<heap, given, memCall, category, stats, hasHooks, hooked, numResets, forgotten>>

NoCounts == [c \in Categories |-> [allocated |-> 0, deallocated |-> 0]]

MemInit ==
    /\ heap = [a \in Addresses |-> None]
    /\ given = [a \in Addresses |-> "nobody"]
    /\ memCall = [t \in MemThreads |-> None]
    /\ category = [t \in MemThreads |-> <<"Global">>]
    /\ stats = NoCounts
    /\ hasHooks \in BOOLEAN /\ hooked = {}
    /\ numResets = 0 /\ forgotten = [c \in Categories |-> 0]

In(t, pc) == memCall[t] # None /\ memCall[t].pc = pc
MemGo(t, pc) == memCall' = [memCall EXCEPT ![t].pc = pc]

\* CScopedCategory and its destructor.
EnterCategory(t, c) ==
    /\ memCall[t] = None /\ Len(category[t]) <= MaxScopes
    /\ category' = [category EXCEPT ![t] = Append(@, c)]
    /\ UNCHANGED <<heap, given, memCall, stats, hasHooks, hooked, numResets, forgotten>>

LeaveCategory(t) ==
    /\ memCall[t] = None /\ Len(category[t]) > 1
    /\ category' = [category EXCEPT ![t] = Front(@)]
    /\ UNCHANGED <<heap, given, memCall, stats, hasHooks, hooked, numResets, forgotten>>

\* rpmalloc and the header.  CDefaultAllocator counts everything as Other.
Allocate(t, a, size, by) ==
    /\ memCall[t] = None /\ heap[a] = None
    /\ heap' = [heap EXCEPT ![a] = [size |-> size,
                   category |-> IF by = "operators" THEN Last(category[t]) ELSE "Other"]]
    /\ memCall' = [memCall EXCEPT ![t] = [pc |-> "track", addr |-> a, by |-> by, header |-> heap'[a]]]
    /\ UNCHANGED <<given, category, stats, hasHooks, hooked, numResets, forgotten>>

Add(n, size) == (n + size) % CounterRange

TrackAllocation(t) ==
    /\ In(t, "track")
    /\ LET call == memCall[t]
       IN  /\ stats' = [stats EXCEPT ![call.header.category].allocated = Add(@, call.header.size)]
           /\ IF call.by = "operators" THEN MemGo(t, "notify") /\ UNCHANGED given
              ELSE /\ memCall' = [memCall EXCEPT ![t] = None]
                   /\ given' = [given EXCEPT ![call.addr] = call.by]
    /\ UNCHANGED <<heap, category, hasHooks, hooked, numResets, forgotten>>

NotifyAllocation(t) ==
    /\ In(t, "notify")
    /\ hooked' = IF hasHooks THEN hooked \cup {memCall[t].addr} ELSE hooked
    /\ given' = [given EXCEPT ![memCall[t].addr] = "operators"]
    /\ memCall' = [memCall EXCEPT ![t] = None]
    /\ UNCHANGED <<heap, category, stats, hasHooks, numResets, forgotten>>

\* delete tells the hook first, counts by the header, and gives the address back last.
Delete(t, a) ==
    /\ memCall[t] = None /\ given[a] = "operators"
    /\ given' = [given EXCEPT ![a] = "nobody"]
    /\ hooked' = hooked \ {a}
    /\ memCall' = [memCall EXCEPT ![t] = [pc |-> "untrack", addr |-> a, by |-> "operators", header |-> heap[a]]]
    /\ UNCHANGED <<heap, category, stats, hasHooks, numResets, forgotten>>

\* CDefaultAllocator::Deallocate gives it back first and counts what it had looked up before.
Deallocate(t, a) ==
    /\ memCall[t] = None /\ given[a] = "default"
    /\ given' = [given EXCEPT ![a] = "nobody"]
    /\ heap' = [heap EXCEPT ![a] = None]
    /\ memCall' = [memCall EXCEPT ![t] = [pc |-> "untrack", addr |-> a, by |-> "default", header |-> heap[a]]]
    /\ UNCHANGED <<category, stats, hasHooks, hooked, numResets, forgotten>>

\* Counted in the category of the thread that frees.
TrackDeallocationHere(t) ==
    /\ In(t, "untrack")
    /\ LET call == memCall[t]
       IN  /\ stats' = [stats EXCEPT ![Last(category[t])].deallocated = Add(@, call.header.size)]
           /\ IF call.by = "operators" THEN MemGo(t, "free") ELSE memCall' = [memCall EXCEPT ![t] = None]
    /\ UNCHANGED <<heap, given, category, hasHooks, hooked, numResets, forgotten>>

TrackDeallocation(t) ==
    /\ In(t, "untrack")
    /\ LET call == memCall[t]
       IN  /\ stats' = [stats EXCEPT ![call.header.category].deallocated = Add(@, call.header.size)]
           /\ IF call.by = "operators" THEN MemGo(t, "free") ELSE memCall' = [memCall EXCEPT ![t] = None]
    /\ UNCHANGED <<heap, given, category, hasHooks, hooked, numResets, forgotten>>

GiveBack(t) ==
    /\ In(t, "free")
    /\ heap' = [heap EXCEPT ![memCall[t].addr] = None]
    /\ memCall' = [memCall EXCEPT ![t] = None]
    /\ UNCHANGED <<given, category, stats, hasHooks, hooked, numResets, forgotten>>

\* GetCurrentUsage, in size_t.
CurrentUsage(c) == (stats[c].allocated + CounterRange - stats[c].deallocated) % CounterRange

ResetStats ==
    /\ numResets < MaxResets /\ numResets' = numResets + 1
    /\ stats' = NoCounts
    /\ forgotten' = [c \in Categories |-> (forgotten[c] + CurrentUsage(c)) % CounterRange]
    /\ UNCHANGED <<heap, given, memCall, category, hasHooks, hooked>>

MemNext ==
    \/ \E t \in MemThreads, c \in Categories : EnterCategory(t, c)
    \/ \E t \in MemThreads, a \in Addresses, size \in MemSizes, by \in {"operators", "default"} :
          Allocate(t, a, size, by)
    \/ \E t \in MemThreads, a \in Addresses : Delete(t, a) \/ Deallocate(t, a)
    \/ \E t \in MemThreads :
          LeaveCategory(t) \/ TrackAllocation(t) \/ NotifyAllocation(t) \/ TrackDeallocation(t) \/ GiveBack(t)
    \/ ResetStats
-----------------------------------------------------------------------------
(* Properties *)

\* The bytes callers hold in a category, and those a call has counted and not yet handed over, or
\* taken back and not yet counted.
HeldBytes(c) ==
    UNION {{a} \X (1 .. heap[a].size) :
             a \in {a \in Addresses : given[a] # "nobody" /\ heap[a].category = c}}
CallBytes(c) ==
    UNION {{t} \X (1 .. memCall[t].header.size) :
             t \in {t \in MemThreads : /\ In(t, "notify") \/ In(t, "untrack")
                                      /\ memCall[t].header.category = c}}
Counted(c) == Cardinality(HeldBytes(c)) + Cardinality(CallBytes(c))

\* A category's usage is what is held of it, whichever thread frees it and in whatever category that
\* thread is; after Reset it is short by what was held then, and wraps below zero.
StatsAreLive == \A c \in Categories : CurrentUsage(c) = (Counted(c) + CounterRange - forgotten[c]) % CounterRange

\* The hooks see each address allocated and freed in turn: no thread's allocation of an address is
\* reported before the free of the last one, although the heap reuses it at once.
HooksTakeTurns == \A t \in MemThreads : In(t, "notify") => memCall[t].addr \notin hooked
=============================================================================
