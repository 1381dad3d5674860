------------------------------ MODULE ParallelFor ------------------------------
(***************************************************************************)
(* ParallelFor (public/tge/threading/parallel_for.hpp and                  *)
(* src/private/threading/parallel_for.cpp): a range of indices cut into    *)
(* one chunk per worker, each a job of a group, run in any order by the    *)
(* workers or by the caller inside Wait.  A cancelled enclosing group      *)
(* skips the chunks that have not begun.  Unsigned arithmetic wraps at     *)
(* UintRange.                                                              *)
(***************************************************************************)
EXTENDS Naturals

CONSTANTS UintRange,     \* 2^32
          MaxThreads     \* workers a pool may have

ASSUME ParallelAssumption == /\ UintRange \in Nat /\ UintRange > 1
                             /\ MaxThreads \in Nat /\ MaxThreads < UintRange

VARIABLES pfBegin, pfEnd, grainSize, numThreads,   \* the call's arguments, and GetNumThreads
          pfPc,           \* call, submit, serial, returned
          numChunks,
          numSubmitted,   \* chunks handed to the group
          ran, skipped,   \* chunks whose job is over: its body was run, or was not
          runs,           \* how often func was called with each index
          isCancelled     \* an enclosing group was cancelled

parallelVars == <<pfBegin, pfEnd, grainSize, numThreads, pfPc, numChunks, numSubmitted, ran, skipped,
                  runs, isCancelled>>
pfArguments == <<pfBegin, pfEnd, grainSize, numThreads>>

Uint == 0 .. UintRange - 1

ParallelInit ==
    /\ pfBegin \in Uint /\ pfEnd \in Uint /\ pfBegin <= pfEnd
    /\ grainSize \in Uint /\ numThreads \in 0 .. MaxThreads
    /\ pfPc = "call" /\ numChunks = 0 /\ numSubmitted = 0
    /\ ran = {} /\ skipped = {}
    /\ runs = [i \in Uint |-> 0]
    /\ isCancelled = FALSE

NumItems == pfEnd - pfBegin

\* numItems + effectiveGrain - 1 is computed in 32 bits.
EffectiveGrain(grain) == IF grain > 0 THEN grain ELSE 1
ChunkLimit(numItems, grain) ==
    ((numItems + EffectiveGrain(grain) - 1) % UintRange) \div EffectiveGrain(grain)
ComputeParallelChunkCount(numItems, grain, threads) ==
    IF threads = 0 THEN 0
    ELSE IF threads <= ChunkLimit(numItems, grain) THEN threads ELSE ChunkLimit(numItems, grain)

\* A fixed chunk size: the remainder of the division is in no chunk.
BoundByChunkSize(k) == pfBegin + (NumItems \div numChunks) * k

\* Where chunk k begins and chunk k - 1 ends; the product is taken in 64 bits.
Bound(k) == pfBegin + (NumItems * k) \div numChunks
Chunk(k) == {i \in Uint : Bound(k) <= i /\ i < Bound(k + 1)}

Call ==
    /\ pfPc = "call"
    /\ numChunks' = ComputeParallelChunkCount(NumItems, grainSize, numThreads)
    /\ pfPc' = IF numChunks' > 1 THEN "submit" ELSE "serial"
    /\ UNCHANGED <<pfArguments, numSubmitted, ran, skipped, runs, isCancelled>>

SubmitChunk ==
    /\ pfPc = "submit" /\ numSubmitted < numChunks
    /\ numSubmitted' = numSubmitted + 1
    /\ UNCHANGED <<pfArguments, pfPc, numChunks, ran, skipped, runs, isCancelled>>

RunChunk(k) ==
    /\ pfPc = "submit" /\ k < numSubmitted /\ k \notin ran \cup skipped
    /\ ran' = ran \cup {k}
    /\ runs' = [i \in Uint |-> IF i \in Chunk(k) THEN runs[i] + 1 ELSE runs[i]]
    /\ UNCHANGED <<pfArguments, pfPc, numChunks, numSubmitted, skipped, isCancelled>>

SkipChunk(k) ==
    /\ pfPc = "submit" /\ k < numSubmitted /\ k \notin ran \cup skipped
    /\ isCancelled
    /\ skipped' = skipped \cup {k}
    /\ UNCHANGED <<pfArguments, pfPc, numChunks, numSubmitted, ran, runs, isCancelled>>

\* CJobGroup::Wait returns once every chunk is over.
WaitReturns ==
    /\ pfPc = "submit" /\ numSubmitted = numChunks
    /\ \A k \in 0 .. numChunks - 1 : k \in ran \cup skipped
    /\ pfPc' = "returned"
    /\ UNCHANGED <<pfArguments, numChunks, numSubmitted, ran, skipped, runs, isCancelled>>

RunSerially ==
    /\ pfPc = "serial"
    /\ runs' = [i \in Uint |-> IF pfBegin <= i /\ i < pfEnd THEN runs[i] + 1 ELSE runs[i]]
    /\ pfPc' = "returned"
    /\ UNCHANGED <<pfArguments, numChunks, numSubmitted, ran, skipped, isCancelled>>

CancelEnclosing ==
    /\ pfPc = "submit" /\ ~isCancelled
    /\ isCancelled' = TRUE
    /\ UNCHANGED <<pfArguments, pfPc, numChunks, numSubmitted, ran, skipped, runs>>

ParallelNext ==
    \/ Call \/ SubmitChunk \/ WaitReturns \/ RunSerially \/ CancelEnclosing
    \/ \E k \in 0 .. numChunks - 1 : RunChunk(k) \/ SkipChunk(k)

ParallelSpec == ParallelInit /\ [][ParallelNext]_parallelVars
-----------------------------------------------------------------------------
(* Properties *)

InRange(i) == pfBegin <= i /\ i < pfEnd

\* func is called at most once with an index and only with those of the range, and ParallelFor
\* returns only when it was called with every one, unless an enclosing group was cancelled: "exact
\* partition", also where the 32-bit sum wraps or the grain is zero.
EachIndexOnce ==
    \A i \in Uint :
       /\ runs[i] \in {0, 1}
       /\ runs[i] = 1 => InRange(i)
       /\ pfPc = "returned" /\ ~isCancelled /\ InRange(i) => runs[i] = 1

\* "No empty trailing chunk": no job is submitted for nothing.
NoEmptyChunk == pfPc = "submit" => \A k \in 0 .. numChunks - 1 : Bound(k) < Bound(k + 1)
=============================================================================
