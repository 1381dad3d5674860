---------------------------- MODULE ArenaAllocators ----------------------------
(***************************************************************************)
(* CStackAllocator, CPoolAllocator and CLinearAllocator                    *)
(* (src/private/memory), each with the caller that uses it as documented:  *)
(* a block is given back at most once, a stack's in reverse order, and     *)
(* none is used after Reset.  Sizes count words of eight bytes.            *)
(***************************************************************************)
EXTENDS Naturals, Sequences, SequencesExt, FiniteSets

CONSTANTS ArCapacity,       \* words of a stack and of a linear allocator
          ArSizes, ArAlignments,
          ArObjects         \* objects of a pool

ASSUME ArenaAssumption ==
    /\ ArCapacity \in Nat /\ ArObjects \in Nat
    /\ ArSizes \subseteq Nat /\ ArAlignments \subseteq Nat \ {0}

VARIABLES arKind,           \* which allocator
          arBase,           \* m_buffer
          arOffset,         \* m_offset
          arLast,           \* the stack's m_lastAllocation, 0 for nullptr
          arFree,           \* the pool's free list
          arHeld,           \* blocks the caller holds, the oldest first
          arUsage,          \* m_currentUsage
          arKept            \* words of blocks given back that the allocator did not take

arenaVars == <<arKind, arBase, arOffset, arLast, arFree, arHeld, arUsage, arKept>>

ArHeaderSize == IF arKind = "stack" THEN 2 ELSE 0
ObjectSize == 2

ArenaInit ==
    /\ arKind \in {"stack", "pool", "linear"}
    /\ arBase \in {4, 6} /\ arOffset = 0 /\ arLast = 0
    /\ arFree = IF arKind = "pool" THEN [i \in 1 .. ArObjects |-> arBase + (i - 1) * ObjectSize] ELSE <<>>
    /\ arHeld = <<>> /\ arUsage = 0 /\ arKept = 0

Aligned(addr, alignment) == ((addr + alignment - 1) \div alignment) * alignment

\* Stack and linear: behind the last one, with a header in front on the stack.
BumpAllocate(size, alignment) ==
    /\ arKind \in {"stack", "linear"}
    /\ LET data == arBase + arOffset + ArHeaderSize
           ptr == Aligned(data, alignment)
           total == ArHeaderSize + (ptr - data) + size
       IN  /\ arOffset + total <= ArCapacity
           /\ arOffset' = arOffset + total
           /\ arLast' = IF arKind = "stack" THEN ptr ELSE 0
           /\ arHeld' = Append(arHeld, [ptr |-> ptr, size |-> size, padding |-> ptr - data])
           /\ arUsage' = arUsage + size
    /\ UNCHANGED <<arKind, arBase, arFree, arKept>>

\* Only the last allocation is taken back, and the one before it is not known.
StackDeallocate ==
    /\ arKind = "stack" /\ arHeld # <<>>
    /\ arHeld' = Front(arHeld)
    /\ LET newest == Last(arHeld)
       IN  IF newest.ptr = arLast
           THEN /\ arOffset' = arOffset - (ArHeaderSize + newest.padding + newest.size)
                /\ arUsage' = arUsage - newest.size
                /\ arLast' = 0
                /\ UNCHANGED arKept
           ELSE arKept' = arKept + newest.size /\ UNCHANGED <<arOffset, arUsage, arLast>>
    /\ UNCHANGED <<arKind, arBase, arFree>>

ResetArena ==
    /\ arKind \in {"stack", "linear"} /\ arOffset > 0
    /\ arOffset' = 0 /\ arLast' = 0 /\ arUsage' = 0
    /\ arHeld' = <<>> /\ arKept' = 0
    /\ UNCHANGED <<arKind, arBase, arFree>>

\* The alignment is not looked at.
PoolAllocate(size) ==
    /\ arKind = "pool" /\ size <= ObjectSize /\ arFree # <<>>
    /\ arHeld' = Append(arHeld, [ptr |-> Head(arFree), size |-> ObjectSize, padding |-> 0])
    /\ arFree' = Tail(arFree)
    /\ arUsage' = arUsage + ObjectSize
    /\ UNCHANGED <<arKind, arBase, arOffset, arLast, arKept>>

PoolDeallocate(i) ==
    /\ arKind = "pool"
    /\ arFree' = <<arHeld[i].ptr>> \o arFree
    /\ arHeld' = RemoveAt(arHeld, i)
    /\ arUsage' = arUsage - ObjectSize
    /\ UNCHANGED <<arKind, arBase, arOffset, arLast, arKept>>

ArenaNext ==
    \/ \E size \in ArSizes, alignment \in ArAlignments : BumpAllocate(size, alignment)
    \/ \E size \in ArSizes : PoolAllocate(size)
    \/ \E i \in DOMAIN arHeld : PoolDeallocate(i)
    \/ StackDeallocate \/ ResetArena
-----------------------------------------------------------------------------
(* Properties *)

HeldWords(b) == b.ptr - ArHeaderSize .. b.ptr + b.size - 1
DataWords(b) == b.ptr .. b.ptr + b.size - 1
ArenaSize == IF arKind = "pool" THEN ArObjects * ObjectSize ELSE ArCapacity

\* Blocks held at the same time share no word, their headers included, lie in the buffer, and none
\* is on the free list; and the usage reported is the number of words held or, on the stack, given
\* back out of the allocator's reach.
ArenasAreSound ==
    /\ \A i \in DOMAIN arHeld : HeldWords(arHeld[i]) \subseteq arBase .. arBase + ArenaSize - 1
    /\ \A i, j \in DOMAIN arHeld : i # j => HeldWords(arHeld[i]) \cap HeldWords(arHeld[j]) = {}
    /\ \A i \in DOMAIN arHeld : arHeld[i].ptr \notin ToSet(arFree)
    /\ IsInjective(arFree)
    /\ arUsage = Cardinality(UNION {DataWords(arHeld[i]) : i \in DOMAIN arHeld}) + arKept
=============================================================================
