------------------------------- MODULE MCFrame -------------------------------
(***************************************************************************)
(* What a frame drives and uses, checked in one run: the runtime that      *)
(* boots, ticks and terminates the modules, the event system that one of   *)
(* them drains, the allocators and the memory statistics, and ParallelFor. *)
(* They share no state: kind says which of them a behaviour is about, and  *)
(* the others keep a fixed initial state.                                  *)
(***************************************************************************)
EXTENDS MCRuntime, EventSystem, FreeListAllocator, ArenaAllocators, MemoryTracking, ParallelFor

VARIABLE kind

frameVars == <<kind, vars, eventVars, freeListVars, arenaVars, memVars, parallelVars>>

FrameInit ==
  /\ kind \in {"runtime", "events", "freeList", "arena", "memory", "parallel"}
  /\ Init /\ EventInit
  /\ kind = "runtime" \/ setup = Setup({Context(<<a, b>>, Ticks)}, Declared(Chain, {}), {})
  /\ FreeListInit /\ (kind = "freeList" \/ flBase = 4)
  /\ ArenaInit /\ (kind = "arena" \/ (arKind = "pool" /\ arBase = 4))
  /\ MemInit /\ hasHooks = (kind = "memory")
  /\ ParallelInit /\ (kind = "parallel" \/ (pfEnd = 0 /\ grainSize = 0 /\ numThreads = 0))

Only(k, others) == kind = k /\ UNCHANGED <<kind, others>>

FrameNext ==
  \/ Only("runtime", <<eventVars, freeListVars, arenaVars, memVars, parallelVars>>) /\ Next
  \/ Only("events", <<vars, freeListVars, arenaVars, memVars, parallelVars>>) /\ EventNext
  \/ Only("freeList", <<vars, eventVars, arenaVars, memVars, parallelVars>>) /\ FreeListNext
  \/ Only("arena", <<vars, eventVars, freeListVars, memVars, parallelVars>>) /\ ArenaNext
  \/ Only("memory", <<vars, eventVars, freeListVars, arenaVars, parallelVars>>) /\ MemNext
  \/ Only("parallel", <<vars, eventVars, freeListVars, arenaVars, memVars>>) /\ ParallelNext

FrameSpec == FrameInit /\ [][FrameNext]_frameVars
-----------------------------------------------------------------------------
\* The four allocators never hand out a word twice or one that is not theirs.
AllocatorsAreSound == kind \in {"freeList", "arena"} => FreeListIsSound /\ ArenasAreSound

\* The memory statistics and the hooks tell of exactly the allocations that are live.
TrackingIsExact == kind = "memory" => StatsAreLive /\ HooksTakeTurns

\* ParallelFor's chunks cover the range once, and none of them is empty.
RangeIsPartitioned == kind = "parallel" => EachIndexOnce /\ NoEmptyChunk
=============================================================================
