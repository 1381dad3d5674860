--------------------------- MODULE FreeListAllocator ---------------------------
(***************************************************************************)
(* CFreeListAllocator (src/private/memory/free_list_allocator.cpp): first  *)
(* fit from a list of free blocks kept in order of address.  Addresses and *)
(* sizes count words of eight bytes; the buffer begins wherever malloc     *)
(* puts it, on an address of sixteen bytes.  The statistics are left out.  *)
(***************************************************************************)
EXTENDS Naturals, Sequences, SequencesExt

CONSTANTS FlCapacity,
          FlSizes, FlAlignments   \* what callers ask for, in words

HeaderSize == 2         \* sizeof(SAllocationHeader)
FreeBlockSize == 2      \* sizeof(SFreeBlock)

ASSUME FreeListAssumption ==
    /\ FlCapacity \in Nat /\ FlCapacity >= FreeBlockSize
    /\ FlSizes \subseteq Nat /\ FlAlignments \subseteq Nat \ {0}

VARIABLES flBase,       \* m_buffer
          flFree,       \* m_freeList, from its head: addr, size
          flBlocks      \* blocks handed out: ptr, and the header's size and padding

freeListVars == <<flBase, flFree, flBlocks>>

FreeListInit ==
    /\ flBase \in {4, 6}
    /\ flFree = << [addr |-> flBase, size |-> FlCapacity] >>
    /\ flBlocks = {}

AlignUp(addr, alignment) == ((addr + alignment - 1) \div alignment) * alignment

PaddingAt(addr, alignment) == AlignUp(addr + HeaderSize, alignment) - (addr + HeaderSize)
TotalSize(addr, size, alignment) == HeaderSize + PaddingAt(addr, alignment) + size

Fits(block, size, alignment) == block.size >= TotalSize(block.addr, size, alignment)

\* What is left of the block stays in its place in the list, unless it is too small for a block.
Split(block, total) ==
    IF block.size - total > FreeBlockSize
    THEN << [addr |-> block.addr + total, size |-> block.size - total] >>
    ELSE <<>>

FlAllocate(size, alignment) ==
    /\ \E i \in DOMAIN flFree :
          /\ Fits(flFree[i], size, alignment)
          /\ \A j \in 1 .. i - 1 : ~Fits(flFree[j], size, alignment)
          /\ LET addr == flFree[i].addr
             IN  /\ flFree' = SubSeq(flFree, 1, i - 1)
                              \o Split(flFree[i], TotalSize(addr, size, alignment))
                              \o SubSeq(flFree, i + 1, Len(flFree))
                 /\ flBlocks' = flBlocks \cup
                       {[ptr |-> AlignUp(addr + HeaderSize, alignment), size |-> size,
                         padding |-> PaddingAt(addr, alignment)]}
    /\ UNCHANGED flBase

\* The padding before the header forgotten.
BlockAddrUnpadded(b) == b.ptr - HeaderSize

\* The block's extent, as Deallocate finds it in the header.
BlockAddr(b) == b.ptr - HeaderSize - b.padding
BlockSize(b) == HeaderSize + b.padding + b.size
Extent(b) == [addr |-> BlockAddr(b), size |-> BlockSize(b)]

\* Before the first block that is not below it.
InsertSorted(list, block) ==
    LET n == CHOOSE n \in 0 .. Len(list) :
                /\ \A i \in 1 .. n : list[i].addr < block.addr
                /\ n < Len(list) => list[n + 1].addr >= block.addr
    IN  SubSeq(list, 1, n) \o <<block>> \o SubSeq(list, n + 1, Len(list))

\* The block joins the last one of the list if it begins at its end.
Joined(list, block) ==
    LET n == Len(list)
    IN  IF n > 0 /\ list[n].addr + list[n].size = block.addr
        THEN [list EXCEPT ![n] = [addr |-> @.addr, size |-> @.size + block.size]]
        ELSE Append(list, block)

CoalesceFreeBlocks(list) ==
    LET joined[n \in 0 .. Len(list)] == IF n = 0 THEN <<>> ELSE Joined(joined[n - 1], list[n])
    IN  joined[Len(list)]

FlDeallocate(b) ==
    /\ b \in flBlocks
    /\ flFree' = CoalesceFreeBlocks(InsertSorted(flFree, Extent(b)))
    /\ flBlocks' = flBlocks \ {b}
    /\ UNCHANGED flBase

FreeListNext ==
    \/ \E size \in FlSizes, alignment \in FlAlignments : FlAllocate(size, alignment)
    \/ \E b \in flBlocks : FlDeallocate(b)
-----------------------------------------------------------------------------
(* Properties *)

Words(addr, size) == addr .. addr + size - 1
Apart(a, b) == Words(a.addr, a.size) \cap Words(b.addr, b.size) = {}

\* No word is part of two blocks, whatever was split, freed in whatever order and merged; every
\* block lies in the buffer, and free blocks that touch are one.
FreeListIsSound ==
    /\ \A e \in {Extent(b) : b \in flBlocks} \cup ToSet(flFree) :
          Words(e.addr, e.size) \subseteq Words(flBase, FlCapacity) /\ e.size >= FreeBlockSize
    /\ \A b, d \in flBlocks : b # d => Apart(Extent(b), Extent(d))
    /\ \A b \in flBlocks, f \in ToSet(flFree) : Apart(Extent(b), f)
    /\ \A i, j \in DOMAIN flFree : i < j => flFree[i].addr + flFree[i].size < flFree[j].addr
=============================================================================
