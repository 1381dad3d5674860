--------------------------- MODULE EventLoopProofs ---------------------------
(***************************************************************************)
(* Proofs about the queue of posts, for any number of producers and cells, *)
(* about the event loop that drains it, for any sets of posts and          *)
(* descriptors, and about its poller on both platforms.                    *)
(*                                                                         *)
(* The cells of the queue form a chain: the stub, then the cells in the    *)
(* order of their exchanges.  The consumer stands as far along it as it    *)
(* has received values, the head is its end, and each next pointer on it   *)
(* is either set to the next cell of the chain or still to be set by the   *)
(* one producer that has exchanged the head and not yet linked.            *)
(*                                                                         *)
(* Every step of the loop is a step of the queue or leaves it alone, so    *)
(* what is shown of the queue holds inside the loop.                       *)
(***************************************************************************)
EXTENDS MCEventLoop, SequenceFilterProofs, SequenceTheorems, TLAPS

(* The chain of cells, as a function of the place.                         *)
chain == [i \in 0 .. Len(order) |-> IF i = 0 THEN Stub ELSE order[i]]

(* The histories: received is a prefix of order, and no cell occurs twice. *)
HistoryInv ==
  /\ Len(received) <= Len(order)
  /\ \A i \in 1 .. Len(received) : received[i] = order[i]
  /\ \A i, j \in 1 .. Len(order) : order[i] = order[j] => i = j

(* m_tail and m_head stand on the chain.                                   *)
EndsInv ==
  /\ tail = chain[Len(received)]
  /\ head = chain[Len(order)]

(* A producer before its exchange owns a cell that nobody else knows of.   *)
FreshInv ==
  \A p \in Producers : pc[p] = "exchange" =>
    /\ node[p] \in Nodes
    /\ next[node[p]] = Null
    /\ \A i \in 1 .. Len(order) : order[i] # node[p]
    /\ \A q \in Producers : pc[q] = "exchange" /\ node[q] = node[p] => q = p

(* A producer before its store owns a gap ahead of the consumer.           *)
GapInv ==
  \A p \in Producers : pc[p] = "link" =>
    \E i \in Len(received) + 1 .. Len(order) :
      /\ node[p] = order[i]
      /\ prevHead[p] = chain[i - 1]
      /\ next[chain[i - 1]] = Null

(* Gaps have different owners, and there is no gap without an owner.       *)
LinkInv ==
  /\ \A p, q \in Producers :
       pc[p] = "link" /\ pc[q] = "link" /\ node[p] = node[q] => p = q
  /\ \A i \in 0 .. Len(order) - 1 :
       \/ next[chain[i]] = chain[i + 1]
       \/ /\ next[chain[i]] = Null
          /\ \E p \in Producers : pc[p] = "link" /\ node[p] = chain[i + 1]
  /\ next[chain[Len(order)]] = Null

(* Which cells are allocated, while the queue lives and while it goes.     *)
HeapInv ==
  /\ life = "live" =>
       \A c \in Cells :
         c \in allocated <=>
           \/ \E i \in Len(received) .. Len(order) : c = chain[i]
           \/ \E p \in Producers : pc[p] = "exchange" /\ c = node[p]
  /\ life # "live" => \A p \in Producers : pc[p] = "idle"
  /\ life = "destroying" =>
       \E k \in 0 .. Len(order) + 1 :
         /\ cursor = IF k = Len(order) + 1 THEN Null ELSE chain[k]
         /\ \A c \in Cells : c \in allocated <=> \E i \in k .. Len(order) : c = chain[i]
  /\ life = "gone" => allocated = {}

MpscInv == /\ MpscTypeOK
           /\ HistoryInv
           /\ EndsInv
           /\ FreshInv
           /\ GapInv
           /\ LinkInv
           /\ HeapInv

-----------------------------------------------------------------------------
(* The chain's cells are cells, and no two places hold the same one.       *)
LEMMA ChainCells ==
  ASSUME MpscTypeOK, HistoryInv
  PROVE  /\ \A i \in 0 .. Len(order) : chain[i] \in Cells
         /\ \A i, j \in 0 .. Len(order) : chain[i] = chain[j] => i = j
         /\ \A i \in 0 .. Len(order) : chain[i] # Null
         /\ Len(order) \in Nat /\ Len(received) \in Nat
  BY MpscAssumption DEF MpscTypeOK, HistoryInv, chain, Cells

LEMMA InitInv == MpscInit => MpscInv
  <1> SUFFICES ASSUME MpscInit PROVE MpscInv
    OBVIOUS
  <1> USE DEF MpscInit
  <1>0. Len(order) = 0 /\ Len(received) = 0 /\ chain[0] = Stub
    BY DEF chain
  <1>1. MpscTypeOK
    BY MpscAssumption DEF MpscTypeOK, Cells
  <1>2. HistoryInv
    BY DEF HistoryInv
  <1>3. EndsInv
    BY <1>0 DEF EndsInv
  <1>4. FreshInv /\ GapInv
    BY DEF FreshInv, GapInv
  <1>5. LinkInv
    BY <1>0 DEF LinkInv, Cells
  <1>6. HeapInv
    BY <1>0 DEF HeapInv, Cells
  <1> QED
    BY <1>1, <1>2, <1>3, <1>4, <1>5, <1>6 DEF MpscInv

(* Each action keeps the types.                                            *)
LEMMA TypeStep ==
  ASSUME MpscInv, [MpscNext]_mpscVars
  PROVE  MpscTypeOK'
  <1> USE DEF MpscTypeOK
  <1>0. MpscTypeOK
    BY DEF MpscInv
  <1>1. ASSUME NEW p \in Producers, NEW n \in Nodes, Enqueue(p, n)
        PROVE  MpscTypeOK'
    BY <1>0, <1>1 DEF Enqueue, Cells
  <1>2. ASSUME NEW p \in Producers, Exchange(p)
        PROVE  MpscTypeOK'
    <2>1. node[p] \in Nodes
      BY <1>2 DEF MpscInv, FreshInv, Exchange
    <2> QED
      BY <1>0, <1>2, <2>1 DEF Exchange, Cells
  <1>3. ASSUME NEW p \in Producers, Link(p)
        PROVE  MpscTypeOK'
    BY <1>0, <1>3 DEF Link, Cells
  <1>4. CASE Dequeue
    <2>1. next[tail] \in Nodes
      <3>1. PICK i \in 0 .. Len(order) : tail = chain[i]
        BY ChainCells, <1>0 DEF MpscInv, EndsInv, HistoryInv
      <3>2. i \in 0 .. Len(order) - 1
        BY <3>1, <1>4, ChainCells, <1>0 DEF Dequeue, MpscInv, LinkInv
      <3>3. next[tail] = chain[i + 1]
        BY <3>1, <3>2, <1>4 DEF Dequeue, MpscInv, LinkInv
      <3> QED
        BY <3>2, <3>3, ChainCells, <1>0 DEF MpscInv, chain
    <2> QED
      BY <1>0, <1>4, <2>1 DEF Dequeue, Cells
  <1>5. CASE DestroyBegin
    BY <1>0, <1>5 DEF DestroyBegin
  <1>6. CASE DestroyStep
    BY <1>0, <1>6 DEF DestroyStep
  <1>7. CASE UNCHANGED mpscVars
    BY <1>0, <1>7 DEF mpscVars
  <1> QED
    BY <1>1, <1>2, <1>3, <1>4, <1>5, <1>6, <1>7 DEF MpscNext

(* Enqueue brings in a cell that is neither on the chain nor in another    *)
(* producer's hands.                                                       *)
LEMMA EnqueueStep ==
  ASSUME MpscInv, MpscTypeOK', NEW p \in Producers, NEW n \in Nodes, Enqueue(p, n)
  PROVE  MpscInv'
  <1> USE DEF MpscInv, MpscTypeOK
  <1>0. /\ chain' = chain
        /\ \A i \in 0 .. Len(order) : chain[i] # n
        /\ \A i \in 1 .. Len(order) : order[i] # n
        /\ \A q \in Producers : pc[q] = "exchange" => node[q] # n
    BY MpscAssumption DEF Enqueue, Used, chain
  <1>1. HistoryInv'
    BY DEF HistoryInv, Enqueue
  <1>2. EndsInv'
    BY <1>0, ChainCells DEF EndsInv, Enqueue, HistoryInv
  <1>3. FreshInv'
    <2> SUFFICES ASSUME NEW q \in Producers, pc'[q] = "exchange"
                 PROVE  /\ node'[q] \in Nodes
                        /\ next'[node'[q]] = Null
                        /\ \A i \in 1 .. Len(order') : order'[i] # node'[q]
                        /\ \A r \in Producers : pc'[r] = "exchange" /\ node'[r] = node'[q] => r = q
      BY DEF FreshInv
    <2>1. CASE q = p
      BY <2>1, <1>0 DEF Enqueue, Cells
    <2>2. CASE q # p
      BY <2>2, <1>0 DEF Enqueue, FreshInv, Cells
    <2> QED
      BY <2>1, <2>2
  <1>4. GapInv'
    <2> SUFFICES ASSUME NEW q \in Producers, pc'[q] = "link"
                 PROVE  \E i \in Len(received') + 1 .. Len(order') :
                          /\ node'[q] = order'[i]
                          /\ prevHead'[q] = chain'[i - 1]
                          /\ next'[chain'[i - 1]] = Null
      BY DEF GapInv
    <2>1. q # p /\ pc[q] = "link" /\ node'[q] = node[q]
      BY DEF Enqueue
    <2>2. PICK i \in Len(received) + 1 .. Len(order) :
            node[q] = order[i] /\ prevHead[q] = chain[i - 1] /\ next[chain[i - 1]] = Null
      BY <2>1 DEF GapInv
    <2>3. i - 1 \in 0 .. Len(order) /\ chain[i - 1] # n
      BY <1>0, ChainCells
    <2>4. next'[chain[i - 1]] = Null
      BY <2>2, <2>3, ChainCells DEF Enqueue
    <2> QED
      BY <1>0, <2>1, <2>2, <2>3, <2>4 DEF Enqueue
  <1>5. LinkInv'
    <2>1. \A i \in 0 .. Len(order) : next'[chain[i]] = next[chain[i]]
      BY <1>0, ChainCells DEF Enqueue
    <2>2. \A q \in Producers : /\ pc'[q] = "link" <=> pc[q] = "link"
                               /\ pc[q] = "link" => node'[q] = node[q]
      BY DEF Enqueue
    <2>3. order' = order /\ Len(order) \in Nat
      BY DEF Enqueue
    <2>4. \A q, r \in Producers :
            pc'[q] = "link" /\ pc'[r] = "link" /\ node'[q] = node'[r] => q = r
      BY <2>2 DEF LinkInv
    <2>5. ASSUME NEW i \in 0 .. Len(order) - 1
          PROVE  \/ next'[chain[i]] = chain[i + 1]
                 \/ /\ next'[chain[i]] = Null
                    /\ \E q \in Producers : pc'[q] = "link" /\ node'[q] = chain[i + 1]
      <3>1. i \in 0 .. Len(order)
        BY <2>3
      <3> QED
        BY <2>1, <2>2, <3>1 DEF LinkInv
    <2>6. next'[chain[Len(order)]] = Null
      BY <2>1, <2>3 DEF LinkInv
    <2> QED
      BY <1>0, <2>3, <2>4, <2>5, <2>6 DEF LinkInv
  <1>6. HeapInv'
    <2>1. \A q \in Producers : /\ pc'[q] = "exchange" <=> (pc[q] = "exchange" \/ q = p)
                               /\ node'[q] = IF q = p THEN n ELSE node[q]
      BY DEF Enqueue
    <2>2. life' = "live" /\ life = "live" /\ order' = order /\ received' = received
          /\ allocated' = allocated \cup {n} /\ pc[p] = "idle"
      BY DEF Enqueue
    <2>3. ASSUME NEW c \in Cells
          PROVE  c \in allocated' <=>
                   \/ \E i \in Len(received') .. Len(order') : c = chain'[i]
                   \/ \E q \in Producers : pc'[q] = "exchange" /\ c = node'[q]
      <3>1. c \in allocated <=> \/ \E i \in Len(received) .. Len(order) : c = chain[i]
                               \/ \E q \in Producers : pc[q] = "exchange" /\ c = node[q]
        BY <2>2 DEF HeapInv
      <3> QED
        BY <1>0, <2>1, <2>2, <3>1
    <2> QED
      BY <2>2, <2>3 DEF HeapInv
  <1> QED
    BY <1>1, <1>2, <1>3, <1>4, <1>5, <1>6

(* The exchange puts the cell at the end of the chain and leaves a gap     *)
(* before it.                                                              *)
LEMMA ExchangeStep ==
  ASSUME MpscInv, MpscTypeOK', NEW p \in Producers, Exchange(p)
  PROVE  MpscInv'
  <1> USE DEF MpscInv, MpscTypeOK
  <1>n. node[p] \in Nodes /\ next[node[p]] = Null
    BY DEF FreshInv, Exchange
  <1>o. /\ order' = Append(order, node[p])
        /\ Len(order') = Len(order) + 1
        /\ order'[Len(order) + 1] = node[p]
        /\ \A i \in 1 .. Len(order) : order'[i] = order[i]
        /\ received' = received /\ next' = next /\ node' = node
        /\ Len(order) \in Nat /\ Len(received) \in Nat
    BY <1>n DEF Exchange
  <1>0. /\ \A i \in 0 .. Len(order) : chain'[i] = chain[i]
        /\ chain'[Len(order) + 1] = node[p]
        /\ chain'[Len(order)] = head
    BY <1>o DEF chain, EndsInv
  <1>1. HistoryInv'
    BY <1>o DEF HistoryInv, FreshInv, Exchange
  <1>2. EndsInv'
    BY <1>0, <1>o DEF EndsInv, Exchange, HistoryInv
  <1>3. FreshInv'
    BY <1>o DEF FreshInv, Exchange
  <1>4. GapInv'
    <2> SUFFICES ASSUME NEW q \in Producers, pc'[q] = "link"
                 PROVE  \E i \in Len(received') + 1 .. Len(order') :
                          /\ node'[q] = order'[i]
                          /\ prevHead'[q] = chain'[i - 1]
                          /\ next'[chain'[i - 1]] = Null
      BY DEF GapInv
    <2>1. CASE q = p
      <3>1. prevHead'[p] = head /\ next[head] = Null
        BY DEF Exchange, LinkInv, EndsInv
      <3>2. Len(order) + 1 \in Len(received') + 1 .. Len(order')
        BY <1>o DEF HistoryInv
      <3>3. (Len(order) + 1) - 1 = Len(order)
        BY <1>o
      <3> QED
        BY <2>1, <3>1, <3>2, <3>3, <1>o, <1>0
    <2>2. CASE q # p
      <3>1. pc[q] = "link" /\ prevHead'[q] = prevHead[q]
        BY <2>2 DEF Exchange
      <3>2. PICK i \in Len(received) + 1 .. Len(order) :
              node[q] = order[i] /\ prevHead[q] = chain[i - 1] /\ next[chain[i - 1]] = Null
        BY <3>1 DEF GapInv
      <3>3. i - 1 \in 0 .. Len(order) /\ i \in Len(received') + 1 .. Len(order')
        BY <1>o
      <3> QED
        BY <3>1, <3>2, <3>3, <1>o, <1>0
    <2> QED
      BY <2>1, <2>2
  <1>5. LinkInv'
    <2>1. \A q \in Producers : pc'[q] = "link" <=> (pc[q] = "link" \/ q = p)
      BY DEF Exchange
    <2>2. \A q \in Producers : pc[q] = "link" => node[q] # node[p]
      BY DEF GapInv, FreshInv, Exchange
    <2>3. \A q, r \in Producers :
            pc'[q] = "link" /\ pc'[r] = "link" /\ node'[q] = node'[r] => q = r
      BY <2>1, <2>2, <1>o DEF LinkInv
    <2>4. ASSUME NEW i \in 0 .. Len(order') - 1
          PROVE  \/ next'[chain'[i]] = chain'[i + 1]
                 \/ /\ next'[chain'[i]] = Null
                    /\ \E q \in Producers : pc'[q] = "link" /\ node'[q] = chain'[i + 1]
      <3>1. CASE i = Len(order)
        BY <3>1, <1>0, <1>o, <2>1 DEF LinkInv, EndsInv
      <3>2. CASE i \in 0 .. Len(order) - 1
        <4>1. i \in 0 .. Len(order) /\ i + 1 \in 0 .. Len(order)
          BY <3>2, <1>o
        <4>2. \/ next[chain[i]] = chain[i + 1]
              \/ /\ next[chain[i]] = Null
                 /\ \E q \in Producers : pc[q] = "link" /\ node[q] = chain[i + 1]
          BY <3>2 DEF LinkInv
        <4> QED
          BY <4>1, <4>2, <1>0, <1>o, <2>1
      <3> QED
        BY <3>1, <3>2, <1>o
    <2> QED
      BY <2>3, <2>4, <1>0, <1>n, <1>o DEF LinkInv
  <1>6. HeapInv'
    <2>1. \A q \in Producers : pc'[q] = "exchange" <=> (pc[q] = "exchange" /\ q # p)
      BY DEF Exchange
    <2>2. life = "live" /\ life' = "live" /\ allocated' = allocated /\ pc[p] = "exchange"
      BY DEF Exchange, HeapInv
    <2>3. \A q \in Producers : pc[q] = "exchange" /\ node[q] = node[p] => q = p
      BY <2>2 DEF FreshInv
    <2>4. ASSUME NEW c \in Cells
          PROVE  (\E i \in Len(received') .. Len(order') : c = chain'[i])
                   <=> (c = node[p] \/ \E i \in Len(received) .. Len(order) : c = chain[i])
      <3>1. /\ Len(order) + 1 \in Len(received') .. Len(order')
            /\ Len(received) .. Len(order) \subseteq 0 .. Len(order)
            /\ Len(received) .. Len(order) \subseteq Len(received') .. Len(order')
            /\ \A i \in Len(received') .. Len(order') :
                 i = Len(order) + 1 \/ i \in Len(received) .. Len(order)
        BY <1>o DEF HistoryInv
      <3> QED
        BY <3>1, <1>0
    <2> QED
      BY <2>1, <2>2, <2>3, <2>4, <1>o DEF HeapInv
  <1> QED
    BY <1>1, <1>2, <1>3, <1>4, <1>5, <1>6

(* The store closes the producer's own gap and no other.                   *)
LEMMA LinkStep ==
  ASSUME MpscInv, MpscTypeOK', NEW p \in Producers, Link(p)
  PROVE  MpscInv'
  <1> USE DEF MpscInv, MpscTypeOK
  <1>0. /\ chain' = chain /\ order' = order /\ received' = received /\ node' = node
        /\ Len(order) \in Nat /\ Len(received) \in Nat
        /\ \A q \in Producers : pc'[q] = IF q = p THEN "idle" ELSE pc[q]
        /\ pc[p] = "link"
        /\ \A q \in Producers \ {p} : prevHead'[q] = prevHead[q]
    BY DEF Link, chain
  <1>g. PICK g \in Len(received) + 1 .. Len(order) :
          node[p] = order[g] /\ prevHead[p] = chain[g - 1] /\ next[chain[g - 1]] = Null
    BY <1>0 DEF GapInv
  <1>i. g \in 0 .. Len(order) /\ g - 1 \in 0 .. Len(order) /\ chain[g] = order[g]
    BY <1>0 DEF chain
  <1>x. \A c \in Cells : next'[c] = IF c = chain[g - 1] THEN chain[g] ELSE next[c]
    BY <1>g, <1>i, ChainCells DEF Link
  <1>n. \A i \in 0 .. Len(order) :
          next'[chain[i]] = IF i = g - 1 THEN chain[g] ELSE next[chain[i]]
    BY <1>x, <1>i, ChainCells
  <1>1. HistoryInv'
    BY <1>0 DEF HistoryInv
  <1>2. EndsInv'
    BY <1>0 DEF EndsInv, Link
  <1>3. FreshInv'
    <2> SUFFICES ASSUME NEW q \in Producers, pc'[q] = "exchange"
                 PROVE  /\ node[q] \in Nodes
                        /\ next'[node[q]] = Null
                        /\ \A i \in 1 .. Len(order) : order[i] # node[q]
                        /\ \A r \in Producers : pc'[r] = "exchange" /\ node[r] = node[q] => r = q
      BY <1>0 DEF FreshInv
    <2>1. pc[q] = "exchange"
      BY <1>0
    <2>2. node[q] # chain[g - 1] /\ node[q] \in Cells
      BY <2>1, <1>i, MpscAssumption DEF FreshInv, chain, Cells
    <2> QED
      BY <2>1, <2>2, <1>x, <1>0 DEF FreshInv
  <1>4. GapInv'
    <2> SUFFICES ASSUME NEW q \in Producers, pc'[q] = "link"
                 PROVE  \E i \in Len(received) + 1 .. Len(order) :
                          /\ node[q] = order[i]
                          /\ prevHead'[q] = chain[i - 1]
                          /\ next'[chain[i - 1]] = Null
      BY <1>0 DEF GapInv
    <2>1. q # p /\ pc[q] = "link" /\ node[q] # node[p]
      BY <1>0 DEF LinkInv
    <2>2. PICK i \in Len(received) + 1 .. Len(order) :
            node[q] = order[i] /\ prevHead[q] = chain[i - 1] /\ next[chain[i - 1]] = Null
      BY <2>1 DEF GapInv
    <2>3. i # g /\ i - 1 \in 0 .. Len(order) /\ i - 1 # g - 1
      BY <2>1, <2>2, <1>g, <1>0
    <2> QED
      BY <2>1, <2>2, <2>3, <1>n, <1>0
  <1>5. LinkInv'
    <2>1. ASSUME NEW i \in 0 .. Len(order) - 1
          PROVE  \/ next'[chain[i]] = chain[i + 1]
                 \/ /\ next'[chain[i]] = Null
                    /\ \E q \in Producers : pc'[q] = "link" /\ node[q] = chain[i + 1]
      <3>0. i \in 0 .. Len(order) /\ i + 1 \in 0 .. Len(order)
        BY <1>0
      <3>1. CASE i = g - 1
        <4>1. i + 1 = g
          BY <3>1, <1>0
        <4> QED
          BY <3>0, <3>1, <4>1, <1>n
      <3>2. CASE i # g - 1
        <4>1. i + 1 # g
          BY <3>2, <1>0
        <4>2. chain[i + 1] # node[p]
          BY <4>1, <3>0, <1>g, <1>i, ChainCells
        <4> QED
          BY <3>0, <3>2, <4>2, <1>n, <1>0 DEF LinkInv
      <3> QED
        BY <3>1, <3>2
    <2>2. next'[chain[Len(order)]] = Null
      <3>1. Len(order) \in 0 .. Len(order) /\ Len(order) # g - 1
        BY <1>0
      <3>2. next[chain[Len(order)]] = Null
        BY DEF LinkInv
      <3> QED
        BY <3>1, <3>2, <1>n
    <2> QED
      BY <2>1, <2>2, <1>0 DEF LinkInv
  <1>6. HeapInv'
    <2>1. life = "live" /\ life' = "live" /\ allocated' = allocated
      BY <1>0 DEF Link, HeapInv
    <2>2. \A q \in Producers : pc'[q] = "exchange" <=> pc[q] = "exchange"
      BY <1>0
    <2> QED
      BY <2>1, <2>2, <1>0 DEF HeapInv
  <1> QED
    BY <1>1, <1>2, <1>3, <1>4, <1>5, <1>6

(* The consumer moves one place along the chain, behind every gap.         *)
LEMMA DequeueStep ==
  ASSUME MpscInv, MpscTypeOK', Dequeue
  PROVE  MpscInv'
  <1> USE DEF MpscInv, MpscTypeOK
  <1> DEFINE d == Len(received)
  <1>0. /\ chain' = chain /\ order' = order /\ node' = node /\ pc' = pc /\ next' = next
        /\ prevHead' = prevHead /\ head' = head
        /\ Len(order) \in Nat /\ d \in Nat
    BY DEF Dequeue, chain
  <1>1. d \in 0 .. Len(order) - 1 /\ next[tail] = chain[d + 1] /\ chain[d + 1] = order[d + 1]
    <2>1. tail = chain[d] /\ d \in 0 .. Len(order) /\ next[chain[d]] # Null
      BY <1>0 DEF EndsInv, Dequeue, HistoryInv
    <2>2. d \in 0 .. Len(order) - 1
      BY <2>1, <1>0 DEF LinkInv
    <2>3. chain[d + 1] = order[d + 1]
      BY <2>2, <1>0 DEF chain
    <2>4. next[chain[d]] = chain[d + 1]
      BY <2>1, <2>2 DEF LinkInv
    <2> QED
      BY <2>1, <2>2, <2>3, <2>4
  <1>2. /\ received' = Append(received, order[d + 1])
        /\ Len(received') = d + 1
        /\ \A i \in 1 .. d : received'[i] = received[i]
        /\ received'[d + 1] = order[d + 1]
    BY <1>1, <1>0 DEF Dequeue
  <1>3. HistoryInv'
    BY <1>0, <1>1, <1>2 DEF HistoryInv
  <1>4. EndsInv'
    BY <1>0, <1>1, <1>2 DEF EndsInv, Dequeue
  <1>5. FreshInv'
    BY <1>0 DEF FreshInv
  <1>6. GapInv'
    <2> SUFFICES ASSUME NEW q \in Producers, pc[q] = "link"
                 PROVE  \E i \in d + 2 .. Len(order) :
                          /\ node[q] = order[i]
                          /\ prevHead[q] = chain[i - 1]
                          /\ next[chain[i - 1]] = Null
      BY <1>0, <1>2 DEF GapInv
    <2>1. PICK i \in d + 1 .. Len(order) :
            node[q] = order[i] /\ prevHead[q] = chain[i - 1] /\ next[chain[i - 1]] = Null
      BY DEF GapInv
    <2>2. i # d + 1
      BY <2>1, <1>0 DEF Dequeue, EndsInv
    <2> QED
      BY <2>1, <2>2, <1>0
  <1>7. LinkInv'
    BY <1>0 DEF LinkInv
  <1>8. HeapInv'
    <2>1. life = "live" /\ life' = "live" /\ allocated' = allocated \ {chain[d]}
      BY DEF Dequeue, EndsInv
    <2>2. ASSUME NEW c \in Cells
          PROVE  c \in allocated' <=>
                   \/ \E i \in d + 1 .. Len(order) : c = chain[i]
                   \/ \E p \in Producers : pc[p] = "exchange" /\ c = node[p]
      <3>1. c \in allocated <=> \/ \E i \in d .. Len(order) : c = chain[i]
                               \/ \E p \in Producers : pc[p] = "exchange" /\ c = node[p]
        BY <2>1 DEF HeapInv
      <3>2. \A i \in d + 1 .. Len(order) : chain[i] # chain[d]
        BY <1>0, <1>1, ChainCells
      <3>3. \A p \in Producers : pc[p] = "exchange" => node[p] # chain[d]
        BY <1>0, <1>1, MpscAssumption DEF FreshInv, chain
      <3>4. \A i \in d .. Len(order) : i = d \/ i \in d + 1 .. Len(order)
        BY <1>0
      <3>5. \A i \in d + 1 .. Len(order) : i \in d .. Len(order)
        BY <1>0
      <3> QED
        BY <2>1, <3>1, <3>2, <3>3, <3>4, <3>5
    <2> QED
      BY <2>1, <2>2, <1>0, <1>2 DEF HeapInv
  <1> QED
    BY <1>3, <1>4, <1>5, <1>6, <1>7, <1>8

(* The destructor starts at the consumer's place, with every gap closed.   *)
LEMMA DestroyBeginStep ==
  ASSUME MpscInv, MpscTypeOK', DestroyBegin
  PROVE  MpscInv'
  <1> USE DEF MpscInv, MpscTypeOK
  <1>0. /\ chain' = chain /\ order' = order /\ received' = received /\ node' = node
        /\ pc' = pc /\ next' = next /\ prevHead' = prevHead /\ head' = head /\ tail' = tail
        /\ allocated' = allocated
        /\ Len(order) \in Nat /\ Len(received) \in Nat
        /\ \A p \in Producers : pc[p] = "idle"
    BY DEF DestroyBegin, chain
  <1>1. HistoryInv' /\ EndsInv' /\ FreshInv' /\ GapInv' /\ LinkInv'
    BY <1>0 DEF HistoryInv, EndsInv, FreshInv, GapInv, LinkInv
  <1>2. HeapInv'
    <2>1. life = "live" /\ life' = "destroying" /\ cursor' = tail
      BY DEF DestroyBegin
    <2>2. Len(received) \in 0 .. Len(order) + 1 /\ Len(received) # Len(order) + 1
      BY <1>0 DEF HistoryInv
    <2>3. cursor' = chain[Len(received)]
      BY <2>1 DEF EndsInv
    <2>4. \A c \in Cells :
            c \in allocated <=> \E i \in Len(received) .. Len(order) : c = chain[i]
      BY <1>0, <2>1 DEF HeapInv
    <2> QED
      BY <1>0, <2>1, <2>2, <2>3, <2>4 DEF HeapInv
  <1> QED
    BY <1>1, <1>2

(* The destructor follows the next pointers, which by now are the chain.   *)
LEMMA DestroyStepStep ==
  ASSUME MpscInv, MpscTypeOK', DestroyStep
  PROVE  MpscInv'
  <1> USE DEF MpscInv, MpscTypeOK
  <1>0. /\ chain' = chain /\ order' = order /\ received' = received /\ node' = node
        /\ pc' = pc /\ next' = next /\ prevHead' = prevHead /\ head' = head /\ tail' = tail
        /\ Len(order) \in Nat /\ Len(received) \in Nat
        /\ life = "destroying"
    BY DEF DestroyStep, chain
  <1>1. \A p \in Producers : pc[p] = "idle"
    BY <1>0 DEF HeapInv
  <1>2. HistoryInv' /\ EndsInv' /\ FreshInv' /\ GapInv' /\ LinkInv'
    BY <1>0 DEF HistoryInv, EndsInv, FreshInv, GapInv, LinkInv
  <1>k. PICK k \in 0 .. Len(order) + 1 :
          /\ cursor = IF k = Len(order) + 1 THEN Null ELSE chain[k]
          /\ \A c \in Cells : c \in allocated <=> \E i \in k .. Len(order) : c = chain[i]
    BY <1>0 DEF HeapInv
  <1>3. CASE cursor = Null
    <2>1. k = Len(order) + 1
      BY <1>3, <1>k, <1>0, ChainCells
    <2>2. k .. Len(order) = {}
      BY <2>1, <1>0
    <2>3. \A c \in Cells : c \notin allocated
      BY <1>k, <2>2
    <2>4. allocated = {}
      BY <2>3
    <2>5. life' = "gone" /\ allocated' = allocated
      BY <1>3 DEF DestroyStep
    <2> QED
      BY <1>0, <1>1, <1>2, <2>4, <2>5 DEF HeapInv
  <1>4. CASE cursor # Null
    <2>1. /\ k \in 0 .. Len(order) /\ cursor = chain[k]
          /\ k + 1 \in 0 .. Len(order) + 1
      BY <1>4, <1>k, <1>0
    <2>2. /\ life' = "destroying" /\ cursor' = next[chain[k]]
          /\ allocated' = allocated \ {chain[k]}
      BY <1>4, <1>0, <2>1 DEF DestroyStep
    <2>3. next[chain[k]] = IF k + 1 = Len(order) + 1 THEN Null ELSE chain[k + 1]
      <3>1. CASE k = Len(order)
        BY <3>1, <1>0 DEF LinkInv
      <3>2. CASE k \in 0 .. Len(order) - 1
        <4>1. next[chain[k]] = chain[k + 1]
          BY <3>2, <1>1 DEF LinkInv
        <4> QED
          BY <4>1, <3>2, <1>0
      <3> QED
        BY <3>1, <3>2, <2>1, <1>0
    <2>4. ASSUME NEW c \in Cells
          PROVE  c \in allocated' <=> \E i \in k + 1 .. Len(order) : c = chain[i]
      <3>1. \A i \in k + 1 .. Len(order) : chain[i] # chain[k] /\ i \in k .. Len(order)
        BY <1>0, <2>1, ChainCells
      <3>2. \A i \in k .. Len(order) : i = k \/ i \in k + 1 .. Len(order)
        BY <1>0
      <3> QED
        BY <1>k, <2>2, <3>1, <3>2
    <2>5. HeapInv'
      BY <1>0, <1>1, <2>1, <2>2, <2>3, <2>4 DEF HeapInv
    <2> QED
      BY <1>2, <2>5
  <1> QED
    BY <1>3, <1>4

(* The chain invariant is inductive: CMpscQueue keeps it whatever producers*)
(* and consumer do.                                                        *)
THEOREM MpscInvariant == MpscSpec => []MpscInv
  <1>1. MpscInit => MpscInv
    BY InitInv
  <1>2. MpscInv /\ [MpscNext]_mpscVars => MpscInv'
    <2> SUFFICES ASSUME MpscInv, [MpscNext]_mpscVars
                 PROVE  MpscInv'
      OBVIOUS
    <2>0. MpscTypeOK'
      BY TypeStep
    <2>1. ASSUME NEW p \in Producers, NEW n \in Nodes, Enqueue(p, n)
          PROVE  MpscInv'
      BY <2>0, <2>1, EnqueueStep
    <2>2. ASSUME NEW p \in Producers, Exchange(p)
          PROVE  MpscInv'
      BY <2>0, <2>2, ExchangeStep
    <2>3. ASSUME NEW p \in Producers, Link(p)
          PROVE  MpscInv'
      BY <2>0, <2>3, LinkStep
    <2>4. CASE Dequeue
      BY <2>0, <2>4, DequeueStep
    <2>5. CASE DestroyBegin
      BY <2>0, <2>5, DestroyBeginStep
    <2>6. CASE DestroyStep
      BY <2>0, <2>6, DestroyStepStep
    <2>7. CASE UNCHANGED mpscVars
      <3>1. chain' = chain
        BY <2>7 DEF mpscVars, chain
      <3>2. HistoryInv' /\ EndsInv' /\ FreshInv'
        BY <2>7, <3>1 DEF mpscVars, MpscInv, HistoryInv, EndsInv, FreshInv
      <3>3. GapInv' /\ LinkInv'
        BY <2>7, <3>1 DEF mpscVars, MpscInv, GapInv, LinkInv
      <3>4. HeapInv'
        BY <2>7, <3>1 DEF mpscVars, MpscInv, HeapInv
      <3> QED
        BY <2>0, <3>2, <3>3, <3>4 DEF MpscInv
    <2> QED
      BY <2>1, <2>2, <2>3, <2>4, <2>5, <2>6, <2>7 DEF MpscNext
  <1> QED
    BY <1>1, <1>2, PTL DEF MpscSpec

(* The queue's variables keep their types for every set of producers and   *)
(* cells.                                                                  *)
THEOREM MpscTypeCorrect == MpscSpec => []MpscTypeOK
  <1>1. MpscInv => MpscTypeOK
    BY DEF MpscInv
  <1> QED
    BY <1>1, MpscInvariant, PTL

(* No producer of CMpscQueue::Push writes through a deleted predecessor,   *)
(* Dequeue never reads a deleted cell and the destructor never stands on   *)
(* one, for any number of producers and values.                            *)
THEOREM MpscNoUseAfterFree == MpscSpec => []NoUseAfterFree
  <1>1. MpscInv => NoUseAfterFree
    <2> SUFFICES ASSUME MpscInv PROVE NoUseAfterFree
      OBVIOUS
    <2> USE DEF MpscInv
    <2>0. Len(order) \in Nat /\ Len(received) \in Nat /\ Len(received) <= Len(order)
      BY ChainCells DEF HistoryInv
    <2>1. ASSUME NEW p \in Producers, pc[p] = "link"
          PROVE  prevHead[p] \in allocated
      <3>1. life = "live"
        BY <2>1 DEF HeapInv
      <3>2. PICK i \in Len(received) + 1 .. Len(order) : prevHead[p] = chain[i - 1]
        BY <2>1 DEF GapInv
      <3>3. i - 1 \in Len(received) .. Len(order) /\ i - 1 \in 0 .. Len(order)
        BY <2>0
      <3> QED
        BY <3>1, <3>2, <3>3, ChainCells DEF HeapInv
    <2>2. ASSUME life = "live"
          PROVE  tail \in allocated /\ head \in allocated
      <3>1. /\ Len(received) \in Len(received) .. Len(order)
            /\ Len(order) \in Len(received) .. Len(order)
        BY <2>0
      <3> QED
        BY <2>2, <3>1 DEF HeapInv, EndsInv, MpscTypeOK
    <2>3. ASSUME life = "destroying", cursor # Null
          PROVE  cursor \in allocated
      <3>1. PICK k \in 0 .. Len(order) + 1 :
              /\ cursor = IF k = Len(order) + 1 THEN Null ELSE chain[k]
              /\ \A c \in Cells : c \in allocated <=> \E i \in k .. Len(order) : c = chain[i]
        BY <2>3 DEF HeapInv
      <3>2. k \in k .. Len(order) /\ k \in 0 .. Len(order) /\ cursor = chain[k]
        BY <2>0, <2>3, <3>1
      <3> QED
        BY <3>1, <3>2, ChainCells
    <2> QED
      BY <2>1, <2>2, <2>3 DEF NoUseAfterFree
  <1> QED
    BY <1>1, MpscInvariant, PTL

(* Once ~CMpscQueue has run, no cell is left allocated.                    *)
THEOREM MpscNoCellLeaked == MpscSpec => []NoCellLeaked
  <1>1. MpscInv => NoCellLeaked
    BY DEF MpscInv, HeapInv, NoCellLeaked
  <1> QED
    BY <1>1, MpscInvariant, PTL

(* What is left of a sequence behind its first n elements, when one is     *)
(* appended.                                                               *)
LEMMA RestOfAppend ==
  ASSUME NEW S, NEW s \in Seq(S), NEW x \in S, NEW n \in 0 .. Len(s)
  PROVE  SubSeq(Append(s, x), n + 1, Len(Append(s, x)))
           = Append(SubSeq(s, n + 1, Len(s)), x)
  <1> DEFINE m == Len(s)
             t == Append(s, x)
             l == SubSeq(t, n + 1, m + 1)
             r == SubSeq(s, n + 1, m)
  <1>1. /\ m \in Nat /\ n \in 0 .. m /\ t \in Seq(S) /\ Len(t) = m + 1
        /\ \A i \in 1 .. m : t[i] = s[i]
        /\ t[m + 1] = x
    OBVIOUS
  <1>2. /\ l \in Seq(S) /\ Len(l) = m + 1 - n
        /\ \A i \in 1 .. m + 1 - n : l[i] = t[n + i]
    <2> HIDE DEF m, t
    <2>1. n + 1 \in 1 .. m + 2 /\ \A i \in 1 .. m + 1 - n : (n + 1) + i - 1 = n + i
      BY <1>1
    <2> QED
      BY <1>1, <2>1, SMTT(40)
  <1>3. /\ r \in Seq(S) /\ Len(r) = m - n
        /\ \A i \in 1 .. m - n : r[i] = s[n + i]
    BY <1>1
  <1>4. t[m + 1] = x /\ \A i \in 1 .. m - n : t[n + i] = s[n + i]
    BY <1>1
  <1> HIDE DEF t, l, r, m
  <1>5. /\ Append(r, x) \in Seq(S) /\ Len(Append(r, x)) = Len(r) + 1
        /\ \A i \in 1 .. Len(r) : Append(r, x)[i] = r[i]
        /\ Append(r, x)[Len(r) + 1] = x
    BY <1>3
  <1> DEFINE a == Append(r, x)
  <1> HIDE DEF a
  <1>6. /\ a \in Seq(S) /\ Len(l) = Len(a)
        /\ \A i \in 1 .. Len(l) : l[i] = a[i]
    <2>1. /\ a \in Seq(S) /\ Len(a) = m - n + 1
          /\ \A i \in 1 .. m - n : a[i] = r[i]
          /\ a[m - n + 1] = x
      BY <1>3, <1>5 DEF a
    <2>2. Len(l) = Len(a)
      BY <1>1, <1>2, <2>1
    <2>3. ASSUME NEW i \in 1 .. Len(l)
          PROVE  l[i] = a[i]
      <3>1. i \in 1 .. m + 1 - n /\ (i = m - n + 1 \/ i \in 1 .. m - n)
        BY <1>1, <1>2
      <3>2. CASE i = m - n + 1
        <4>1. n + i = m + 1
          BY <3>2, <1>1
        <4> QED
          BY <3>1, <3>2, <4>1, <1>2, <1>4, <2>1
      <3>3. CASE i \in 1 .. m - n
        BY <3>1, <3>3, <1>2, <1>3, <1>4, <2>1
      <3> QED
        BY <3>1, <3>2, <3>3
    <2> QED
      BY <2>1, <2>2, <2>3
  <1>7. l = a
    BY <1>2, <1>6, SeqEqual
  <1> QED
    BY <1>1, <1>7 DEF a, t, l, r, m

(* Every step of the list is a step of the abstract queue, or changes      *)
(* neither what is queued nor what was delivered.                          *)
LEMMA FifoStep ==
  ASSUME MpscInv, [MpscNext]_mpscVars
  PROVE  [Fifo!Next]_(Fifo!vars)
  <1> USE DEF Fifo!vars
  <1> DEFINE queue == SubSeq(order, Len(received) + 1, Len(order))
  <1>0. /\ Len(order) \in Nat /\ Len(received) \in Nat /\ Len(received) <= Len(order)
        /\ order \in Seq(Nodes) /\ received \in Seq(Nodes)
    BY DEF MpscInv, HistoryInv, MpscTypeOK
  <1>1. ASSUME NEW p \in Producers, Exchange(p)
        PROVE  Fifo!Put(node[p]) /\ node[p] \in Nodes
    <2>1. node[p] \in Nodes /\ order' = Append(order, node[p]) /\ received' = received
      BY <1>1 DEF Exchange, MpscInv, FreshInv
    <2>2. queue' = Append(queue, node[p])
      <3>1. Len(received) \in 0 .. Len(order)
        BY <1>0
      <3>2. SubSeq(Append(order, node[p]), Len(received) + 1, Len(Append(order, node[p])))
              = Append(SubSeq(order, Len(received) + 1, Len(order)), node[p])
        BY <1>0, <2>1, <3>1, RestOfAppend
      <3> QED
        BY <2>1, <3>2
    <2> QED
      BY <2>1, <2>2 DEF Fifo!Put
  <1>2. ASSUME Dequeue
        PROVE  Fifo!Take
    <2>1. /\ Len(received) + 1 \in 1 .. Len(order)
          /\ next[tail] = order[Len(received) + 1]
      <3>1. tail = chain[Len(received)] /\ Len(received) \in 0 .. Len(order)
            /\ next[chain[Len(received)]] # Null
        BY <1>0, <1>2 DEF MpscInv, EndsInv, Dequeue
      <3>2. Len(received) \in 0 .. Len(order) - 1
        BY <1>0, <3>1 DEF MpscInv, LinkInv
      <3>3. chain[Len(received) + 1] = order[Len(received) + 1]
        BY <1>0, <3>2 DEF chain
      <3>4. next[chain[Len(received)]] = chain[Len(received) + 1]
        BY <3>1, <3>2 DEF MpscInv, LinkInv
      <3> QED
        BY <1>0, <3>1, <3>2, <3>3, <3>4
    <2>2. received' = Append(received, order[Len(received) + 1]) /\ order' = order
          /\ Len(received') = Len(received) + 1
      BY <1>0, <1>2, <2>1 DEF Dequeue
    <2>3. queue # <<>> /\ Head(queue) = order[Len(received) + 1]
      <3>1. Len(queue) = Len(order) - Len(received) /\ Len(queue) # 0
        BY <1>0, <2>1
      <3>2. Len(order) \in Len(received) + 1 .. Len(order)
        BY <1>0, <2>1
      <3>3. Head(queue) = order[Len(received) + 1]
        BY <1>0, <2>1, <3>2, HeadTailOfSubSeq
      <3>4. Len(<<>>) = 0
        OBVIOUS
      <3> QED
        BY <3>1, <3>3, <3>4, Zenon
    <2>4. queue' = Tail(queue)
      <3>1. Tail(queue) = SubSeq(order, Len(received) + 2, Len(order))
        <4>1. Len(order) \in Len(received) + 1 .. Len(order)
          BY <1>0, <2>1
        <4>2. Tail(queue) = SubSeq(order, (Len(received) + 1) + 1, Len(order))
          BY <1>0, <2>1, <4>1, HeadTailOfSubSeq
        <4> QED
          BY <1>0, <4>2
      <3>2. queue' = SubSeq(order, (Len(received) + 1) + 1, Len(order))
        BY <2>2
      <3>3. (Len(received) + 1) + 1 = Len(received) + 2
        BY <1>0
      <3> QED
        BY <3>1, <3>2, <3>3
    <2> QED
      BY <2>2, <2>3, <2>4 DEF Fifo!Take
  <1>3. ASSUME order' = order, received' = received
        PROVE  UNCHANGED Fifo!vars
    BY <1>3
  <1>4. \/ \E p \in Producers : Exchange(p)
        \/ Dequeue
        \/ order' = order /\ received' = received
    BY DEF MpscNext, Enqueue, Link, DestroyBegin, DestroyStep, mpscVars
  <1> QED
    BY <1>1, <1>2, <1>3, <1>4 DEF Fifo!Next

(* CMpscQueue implements a first-in first-out queue in the order of the    *)
(* exchanges, for any number of producers: Dequeue returns each value once *)
(* and never out of order.                                                 *)
THEOREM MpscImplementsFifo == MpscSpec => ImplementsFifo
  <1>1. MpscInit => Fifo!Init
    BY DEF MpscInit, Fifo!Init
  <1>2. MpscInv /\ [MpscNext]_mpscVars => [Fifo!Next]_(Fifo!vars)
    BY FifoStep
  <1> QED
    BY <1>1, <1>2, MpscInvariant, PTL DEF MpscSpec, ImplementsFifo, Fifo!Spec

-----------------------------------------------------------------------------
(* The loop.                                                                *)

LoopPcs == {"test", "wait", "reset", "watches", "drain", "posts", "timers", "callback", "exited"}

LoopTypeOK ==
  /\ posterPc \in [Producers -> {"none", "posting", "wake"}]
  /\ wakeSignal \in BOOLEAN
  /\ loopPc \in LoopPcs /\ resume \in {"test", "watches", "posts", "timers"}
  /\ loopPc = "callback" => resume # "test"
  /\ termPc \in {"up", "wake", "join", "reset", "down"}
  /\ runningPosts \in Seq(Nodes) /\ ran \in Seq(Nodes)
  /\ watches \subseteq [id : Nat, waitable : Descriptors]
  /\ reported \subseteq [id : Nat, waitable : Descriptors]
  /\ timers \subseteq [id : Nat, when : Nat]
  /\ nextId \in Nat /\ now \in Nat /\ passNow \in Nat /\ passEnd \in Nat

(* The posts taken off the queue are those that ran, then those that are   *)
(* still to run.                                                           *)
RunInv ==
  /\ Len(received) = Len(ran) + Len(runningPosts)
  /\ \A i \in 1 .. Len(ran) : ran[i] = received[i]
  /\ \A i \in 1 .. Len(runningPosts) : runningPosts[i] = received[Len(ran) + i]

(* An id is given out once, to a watch or to a timer; a key still to be    *)
(* served is the id of a watch that Wait reported.                         *)
IdInv ==
  /\ \A x \in watches \cup reported : x.id < nextId
  /\ \A x, y \in watches \cup reported : x.id = y.id => x = y
  /\ \A t \in timers : t.id < nextId
  /\ \A t, u \in timers : t.id = u.id => t = u
  /\ \A k \in readyKeys : \E x \in reported : x.id = k

(* Where the loop has drained the queue and not yet waited again.          *)
AfterDrain ==
  \/ loopPc \in {"posts", "timers", "test", "wait"}
  \/ loopPc = "callback" /\ resume \in {"posts", "timers"}

(* A post that came in after the drain has raised the signal, or will.     *)
WakeInv ==
  AfterDrain /\ next[tail] # Null /\ ~wakeSignal => \E p \in Producers : posterPc[p] = "wake"

LoopInv == LoopTypeOK /\ RunInv /\ IdInv /\ WakeInv

(* The loop's steps, without the fairness that its safety does not need.   *)
LoopSafety == Init /\ [][Next]_vars

-----------------------------------------------------------------------------
PollPcs == {"none", "callbacks", "blocked", "reset", "poll", "collect", "pollAgain", "stopped", "down"}

PollTypeOK ==
  /\ platform \in Platforms
  /\ pollPc \in PollPcs
  /\ OnLinux => pollPc \notin {"poll", "collect", "pollAgain"}
  /\ pollEntries \in Seq(Waitables) /\ toPoll \in Seq(Waitables)
  /\ wakeEvent \in BOOLEAN /\ socketEvent \in BOOLEAN /\ woken \in BOOLEAN
  /\ sockets \in [PolledSockets -> {"connecting", "idle", "ready", "ended"}]
  /\ quiet \subseteq PolledSockets

(* No waitable is added twice, and all the handles fit in one wait.        *)
EntriesInv ==
  /\ Distinct(pollEntries)
  /\ OnWindows => Cardinality(Watched \cap PolledEvents) + NumOwnHandles <= MaxHandles

(* A socket that has announced its data has it; a readable one has set the *)
(* event again, or this Wait has found it or has still to look at it.      *)
SocketInv ==
  /\ \A s \in quiet : sockets[s] \in {"ready", "ended"}
  /\ OnWindows /\ pollPc \in {"poll", "collect", "blocked"} =>
       \A s \in Watched \cap PolledSockets :
         sockets[s] \in {"ready", "ended"} =>
           socketEvent \/ s \in pollKeys \/ (pollPc = "poll" /\ s \in ToSet(toPoll))
  /\ OnWindows /\ pollPc = "blocked" => pollKeys = {}

WokenInv ==
  /\ pollPc # "down" /\ woken => wakeEvent
  /\ pollPc = "none" => ~woken

TakenInv ==
  /\ pollPc \notin {"stopped", "down"} => taken \subseteq pollKeys
  /\ OnLinux => taken = {}

PollInv ==
  PollTypeOK /\ EntriesInv /\ SocketInv /\ WokenInv /\ TakenInv /\ PollerIsClosed

PollSafety == PollInit /\ platform \in Platforms /\ [][PollNext /\ UNCHANGED platform]_<<pollVars, platform>>

LoopAndPollerInv == LoopInv /\ PollInv

-----------------------------------------------------------------------------
(* Every step of the loop is a step of its queue, or does not touch it.    *)
LEMMA QueueStep == [Next]_vars => [MpscNext]_mpscVars
  <1> SUFFICES ASSUME [Next]_vars PROVE [MpscNext]_mpscVars
    OBVIOUS
  <1>1. CASE \E p \in Producers : PostStep(p) \/ \E n \in Nodes : Post(p, n)
    BY <1>1 DEF PostStep, PostExchange, PostLink, PostWake, Post, MpscNext
  <1>2. CASE LoopStep \/ WaitReturn(TRUE) \/ WaitFail
    BY <1>2 DEF LoopStep, TestStopping, WaitReturn, WaitFail, ResetWake, ServeWatch, WatchesServed,
                DrainPost, Drained, RunPost, BeginTimers, RunTimer, EndPass, CallbackReturn, MpscNext
  <1>3. CASE CallbackStep
    BY <1>3 DEF CallbackStep, Watch, Unwatch, ScheduleAt, CancelTimer
  <1>4. CASE (\E d \in Descriptors : Toggle(d)) \/ Tick
    BY <1>4 DEF Toggle, Tick
  <1>5. CASE TerminateFlag \/ TerminateStep
    BY <1>5 DEF TerminateFlag, TerminateStep, TerminateWake, TerminateJoin, TerminateReset, MpscNext
  <1>6. CASE Done \/ UNCHANGED vars
    BY <1>6 DEF Done, vars
  <1> QED
    BY <1>1, <1>2, <1>3, <1>4, <1>5, <1>6 DEF Next

LEMMA LoopQueue == LoopSafety => []MpscInv
  <1>1. Init => MpscInit
    BY DEF Init
  <1> QED
    BY <1>1, QueueStep, MpscInvariant, PTL DEF LoopSafety, MpscSpec

LEMMA LoopInit == Init => LoopInv
  <1> SUFFICES ASSUME Init PROVE LoopInv
    OBVIOUS
  <1> USE DEF Init, MpscInit
  <1>1. LoopTypeOK
    <2>1. posterPc \in [Producers -> {"none", "posting", "wake"}]
      OBVIOUS
    <2>2. runningPosts \in Seq(Nodes) /\ ran \in Seq(Nodes)
      OBVIOUS
    <2>3. loopPc \in LoopPcs /\ resume \in {"test", "watches", "posts", "timers"}
          /\ termPc \in {"up", "wake", "join", "reset", "down"}
      BY DEF LoopPcs
    <2> QED
      BY <2>1, <2>2, <2>3 DEF LoopTypeOK
  <1>2. RunInv /\ IdInv
    BY DEF RunInv, IdInv
  <1>3. WakeInv
    <2>1. next[tail] = Null
      BY DEF Cells
    <2> QED
      BY <2>1 DEF WakeInv
  <1> QED
    BY <1>1, <1>2, <1>3 DEF LoopInv

-----------------------------------------------------------------------------
LEMMA PostSteps ==
  ASSUME LoopInv, MpscInv, NEW p \in Producers,
         PostStep(p) \/ \E n \in Nodes : Post(p, n)
  PROVE  LoopInv'
  <1> USE DEF LoopInv
  <1>1. CASE \E n \in Nodes : Post(p, n)
    <2>1. PICK n \in Nodes : Post(p, n)
      BY <1>1
    <2> USE <2>1 DEF Post, Enqueue
    <2>2. LoopTypeOK'
      BY DEF LoopTypeOK
    <2>3. RunInv' /\ IdInv'
      BY DEF RunInv, IdInv
    <2>4. WakeInv'
      <3>1. next'[tail'] # Null => next[tail] # Null
        BY DEF MpscInv, MpscTypeOK
      <3>2. AfterDrain' = AfterDrain
        BY DEF AfterDrain
      <3> QED
        BY <3>1, <3>2 DEF WakeInv, CanPost, LoopTypeOK
    <2> QED
      BY <2>2, <2>3, <2>4
  <1>2. CASE PostExchange(p)
    <2> USE <1>2 DEF PostExchange, Exchange, loopVars
    <2>1. LoopTypeOK' /\ RunInv' /\ IdInv'
      BY DEF LoopTypeOK, RunInv, IdInv
    <2>2. WakeInv'
      BY DEF WakeInv, AfterDrain
    <2> QED
      BY <2>1, <2>2
  <1>3. CASE PostLink(p)
    <2> USE <1>3 DEF PostLink, Link
    <2>1. LoopTypeOK' /\ RunInv' /\ IdInv'
      BY DEF LoopTypeOK, RunInv, IdInv
    <2>2. posterPc'[p] = "wake"
      BY DEF LoopTypeOK
    <2>3. WakeInv'
      BY <2>2 DEF WakeInv
    <2> QED
      BY <2>1, <2>3
  <1>4. CASE PostWake(p)
    <2> USE <1>4 DEF PostWake, mpscVars
    <2>1. LoopTypeOK' /\ RunInv' /\ IdInv'
      BY DEF LoopTypeOK, RunInv, IdInv
    <2>2. WakeInv'
      BY DEF WakeInv
    <2> QED
      BY <2>1, <2>2
  <1> QED
    BY <1>1, <1>2, <1>3, <1>4 DEF PostStep

LEMMA WaitSteps ==
  ASSUME LoopInv, MpscInv,
         TestStopping \/ WaitReturn(FALSE) \/ WaitReturn(TRUE) \/ WaitFail \/ ResetWake
  PROVE  LoopInv'
  <1> USE DEF LoopInv, TestStopping, WaitReturn, WaitFail, ResetWake, mpscVars
  <1>1. LoopTypeOK'
    BY DEF LoopTypeOK, LoopPcs, ReadyWatches
  <1>2. RunInv'
    BY DEF RunInv
  <1>3. IdInv'
    BY DEF IdInv, ReadyWatches
  <1>4. WakeInv'
    BY DEF WakeInv, AfterDrain
  <1> QED
    BY <1>1, <1>2, <1>3, <1>4

LEMMA ServeSteps ==
  ASSUME LoopInv, MpscInv, WatchesServed \/ \E k \in readyKeys : ServeWatch(k)
  PROVE  LoopInv'
  <1> USE DEF LoopInv, WatchesServed, ServeWatch, mpscVars
  <1>1. LoopTypeOK'
    BY DEF LoopTypeOK, LoopPcs
  <1>2. RunInv'
    BY DEF RunInv
  <1>3. IdInv'
    BY DEF IdInv
  <1>4. WakeInv'
    BY DEF WakeInv, AfterDrain
  <1> QED
    BY <1>1, <1>2, <1>3, <1>4

LEMMA DrainPostStep ==
  ASSUME LoopInv, MpscInv, DrainPost
  PROVE  LoopInv'
  <1> USE DEF LoopInv, DrainPost, Dequeue
  <1>1. next[tail] \in Nodes
    <2>0. /\ Len(order) \in Nat /\ Len(received) \in Nat /\ Len(received) <= Len(order)
          /\ order \in Seq(Nodes)
      BY ChainCells DEF MpscInv, HistoryInv, MpscTypeOK
    <2>1. Len(received) # Len(order)
      BY DEF MpscInv, LinkInv, EndsInv
    <2>2. Len(received) \in 0 .. Len(order) - 1 /\ Len(received) + 1 \in 1 .. Len(order)
      BY <2>0, <2>1
    <2>3. next[tail] = chain[Len(received) + 1]
      BY <2>2 DEF MpscInv, LinkInv, EndsInv
    <2>4. chain[Len(received) + 1] = order[Len(received) + 1]
      BY <2>0, <2>2 DEF chain
    <2> QED
      BY <2>0, <2>2, <2>3, <2>4
  <1>2. received \in Seq(Nodes) /\ runningPosts \in Seq(Nodes) /\ ran \in Seq(Nodes)
    BY DEF MpscInv, MpscTypeOK, LoopTypeOK
  <1>3. LoopTypeOK'
    BY <1>1 DEF LoopTypeOK
  <1>4. RunInv'
    <2> DEFINE n == next[tail]
    <2>1. received' = Append(received, n) /\ runningPosts' = Append(runningPosts, n) /\ ran' = ran
      OBVIOUS
    <2>2. n \in Nodes
      BY <1>1
    <2> HIDE DEF n, DrainPost, Dequeue, LoopInv
    <2>3. /\ Len(ran) \in Nat /\ Len(runningPosts) \in Nat /\ Len(received) \in Nat
          /\ Len(received') = Len(received) + 1 /\ received'[Len(received) + 1] = n
          /\ Len(runningPosts') = Len(runningPosts) + 1 /\ runningPosts'[Len(runningPosts) + 1] = n
      BY <1>2, <2>1, <2>2
    <2>4. /\ \A i \in 1 .. Len(received) : received'[i] = received[i]
          /\ \A i \in 1 .. Len(runningPosts) : runningPosts'[i] = runningPosts[i]
      BY <1>2, <2>1, <2>2
    <2>5. RunInv
      BY DEF LoopInv
    <2>6. Len(received') = Len(ran') + Len(runningPosts')
      BY <2>1, <2>3, <2>5 DEF RunInv
    <2>7. \A i \in 1 .. Len(ran') : ran'[i] = received'[i]
      BY <2>1, <2>3, <2>4, <2>5 DEF RunInv
    <2>8. ASSUME NEW i \in 1 .. Len(runningPosts') PROVE runningPosts'[i] = received'[Len(ran') + i]
      <3>1. CASE i \in 1 .. Len(runningPosts)
        <4>1. Len(ran) + i \in 1 .. Len(received)
          BY <2>3, <2>5, <3>1 DEF RunInv
        <4> QED
          BY <2>1, <2>4, <2>5, <3>1, <4>1 DEF RunInv
      <3>2. CASE i = Len(runningPosts) + 1
        <4>1. Len(ran) + i = Len(received) + 1
          BY <2>3, <2>5, <3>2 DEF RunInv
        <4> QED
          BY <2>1, <2>3, <3>2, <4>1
      <3> QED
        BY <2>3, <3>1, <3>2
    <2> QED
      BY <2>6, <2>7, <2>8 DEF RunInv
  <1>5. IdInv'
    BY DEF IdInv
  <1>6. WakeInv'
    BY DEF WakeInv, AfterDrain
  <1> QED
    BY <1>3, <1>4, <1>5, <1>6

LEMMA RunPostStep ==
  ASSUME LoopInv, MpscInv, RunPost
  PROVE  LoopInv'
  <1> USE DEF LoopInv
  <1>0. /\ runningPosts # <<>> /\ ran' = Append(ran, Head(runningPosts)) /\ runningPosts' = Tail(runningPosts)
        /\ UNCHANGED received
    BY DEF RunPost, mpscVars
  <1>1. received \in Seq(Nodes) /\ runningPosts \in Seq(Nodes) /\ ran \in Seq(Nodes)
    BY DEF MpscInv, MpscTypeOK, LoopTypeOK
  <1>2. /\ Head(runningPosts) \in Nodes /\ Head(runningPosts) = runningPosts[1]
        /\ Len(runningPosts) \in Nat \ {0} /\ Len(runningPosts') = Len(runningPosts) - 1
        /\ runningPosts' \in Seq(Nodes)
        /\ \A i \in 1 .. Len(runningPosts') : runningPosts'[i] = runningPosts[i + 1] /\ i + 1 \in 1 .. Len(runningPosts)
    BY <1>0, <1>1
  <1>3. /\ ran' \in Seq(Nodes) /\ Len(ran') = Len(ran) + 1 /\ Len(ran) \in Nat
        /\ ran'[Len(ran')] = runningPosts[1] /\ \A i \in 1 .. Len(ran) : ran'[i] = ran[i]
    BY <1>0, <1>1, <1>2
  <1>4. LoopTypeOK'
    BY <1>2, <1>3 DEF LoopTypeOK, LoopPcs, RunPost, mpscVars
  <1>5. RunInv'
    <2>1. Len(received') = Len(ran') + Len(runningPosts')
      <3>1. Len(received) = Len(ran) + Len(runningPosts) /\ received' = received
        BY <1>0 DEF RunInv
      <3>2. Len(ran') = Len(ran) + 1 /\ Len(runningPosts') = Len(runningPosts) - 1
            /\ Len(ran) \in Nat /\ Len(runningPosts) \in Nat
        BY <1>2, <1>3
      <3> HIDE <1>0, <1>1, <1>2, <1>3
      <3> QED
        BY <3>1, <3>2
    <2>2. ASSUME NEW i \in 1 .. Len(ran') PROVE ran'[i] = received'[i]
      <3>1. runningPosts[1] = received[Len(ran) + 1]
        BY <1>2 DEF RunInv
      <3>2. CASE i = Len(ran')
        BY <3>1, <3>2, <1>0, <1>3
      <3>3. CASE i # Len(ran')
        <4>1. i \in 1 .. Len(ran)
          BY <3>3, <1>3
        <4> QED
          BY <4>1, <1>0, <1>3 DEF RunInv
      <3> QED
        BY <3>2, <3>3
    <2>3. ASSUME NEW i \in 1 .. Len(runningPosts')
          PROVE  runningPosts'[i] = received'[Len(ran') + i]
      <3>1. runningPosts[i + 1] = received[Len(ran) + (i + 1)] /\ Len(ran) + (i + 1) = Len(ran') + i
        BY <1>2, <1>3 DEF RunInv
      <3> QED
        BY <3>1, <1>0, <1>2
    <2> QED
      BY <2>1, <2>2, <2>3 DEF RunInv
  <1>6. IdInv'
    BY DEF IdInv, RunPost
  <1>7. WakeInv'
    BY DEF WakeInv, AfterDrain, RunPost, mpscVars
  <1> QED
    BY <1>4, <1>5, <1>6, <1>7

LEMMA TimerAndReturnSteps ==
  ASSUME LoopInv, MpscInv, Drained \/ BeginTimers \/ RunTimer \/ EndPass \/ CallbackReturn
  PROVE  LoopInv'
  <1> USE DEF LoopInv, Drained, BeginTimers, RunTimer, EndPass, CallbackReturn, mpscVars
  <1>1. LoopTypeOK'
    BY DEF LoopTypeOK, LoopPcs
  <1>2. RunInv'
    BY DEF RunInv
  <1>3. IdInv'
    BY DEF IdInv
  <1>4. WakeInv'
    BY DEF WakeInv, AfterDrain, LoopTypeOK
  <1> QED
    BY <1>1, <1>2, <1>3, <1>4

LEMMA CallbackSteps ==
  ASSUME LoopInv, MpscInv, CallbackStep
  PROVE  LoopInv'
  <1> USE DEF LoopInv, mpscVars
  <1>1. CASE \E d \in Descriptors : Watch(d)
    <2>1. PICK d \in Descriptors : Watch(d)
      BY <1>1
    <2> USE <2>1 DEF Watch
    <2>2. LoopTypeOK'
      BY DEF LoopTypeOK
    <2>3. RunInv' /\ WakeInv'
      BY DEF RunInv, WakeInv, AfterDrain
    <2>4. IdInv'
      BY DEF IdInv, LoopTypeOK
    <2> QED
      BY <2>2, <2>3, <2>4
  <1>2. CASE \E x \in watches : Unwatch(x)
    BY <1>2 DEF Unwatch, LoopTypeOK, RunInv, WakeInv, AfterDrain, IdInv
  <1>3. CASE \E when \in 0 .. MaxTime : ScheduleAt(when)
    <2>1. PICK when \in 0 .. MaxTime : ScheduleAt(when)
      BY <1>3
    <2> USE <2>1 DEF ScheduleAt
    <2>2. LoopTypeOK'
      BY DEF LoopTypeOK
    <2>3. RunInv' /\ WakeInv'
      BY DEF RunInv, WakeInv, AfterDrain
    <2>4. IdInv'
      BY DEF IdInv, LoopTypeOK
    <2> QED
      BY <2>2, <2>3, <2>4
  <1>4. CASE \E t \in timers : CancelTimer(t)
    BY <1>4 DEF CancelTimer, LoopTypeOK, RunInv, WakeInv, AfterDrain, IdInv
  <1> QED
    BY <1>1, <1>2, <1>3, <1>4 DEF CallbackStep

LEMMA OutsideSteps ==
  ASSUME LoopInv, MpscInv,
         Tick \/ (\E d \in Descriptors : Toggle(d)) \/ TerminateFlag \/ TerminateStep
           \/ Done \/ UNCHANGED vars
  PROVE  LoopInv'
  <1> USE DEF LoopInv, Tick, Toggle, TerminateFlag, TerminateStep, TerminateWake, TerminateJoin,
          TerminateReset, DestroyBegin, DestroyStep, Done, vars, loopVars, mpscVars
  <1>1. LoopTypeOK'
    <2>1. CASE Tick
      BY <2>1 DEF LoopTypeOK
    <2>2. CASE \E d \in Descriptors : Toggle(d)
      BY <2>2 DEF LoopTypeOK
    <2>3. CASE TerminateFlag \/ TerminateWake
      BY <2>3 DEF LoopTypeOK
    <2>4. CASE TerminateJoin
      BY <2>4 DEF LoopTypeOK
    <2>5. CASE TerminateReset
      BY <2>5 DEF LoopTypeOK
    <2>6. CASE Done \/ UNCHANGED vars
      BY <2>6 DEF LoopTypeOK
    <2> QED
      BY <2>1, <2>2, <2>3, <2>4, <2>5, <2>6
  <1>2. RunInv'
    BY DEF RunInv
  <1>3. IdInv'
    BY DEF IdInv
  <1>4. WakeInv'
    BY DEF WakeInv, AfterDrain
  <1> QED
    BY <1>1, <1>2, <1>3, <1>4

LEMMA LoopKeeps == LoopInv /\ MpscInv /\ [Next]_vars => LoopInv'
  BY PostSteps, WaitSteps, ServeSteps, DrainPostStep, RunPostStep, TimerAndReturnSteps,
     CallbackSteps, OutsideSteps DEF Next, LoopStep

(* The inductive invariant of the loop, on that of its queue.              *)
THEOREM LoopInvariant == LoopSafety => []LoopInv
  BY LoopInit, LoopKeeps, LoopQueue, PTL DEF LoopSafety

-----------------------------------------------------------------------------
(* What the loop has run are the first posts in the order of the exchanges *)
(* of CMpscQueue::Push: DrainPost takes them off the queue in that order   *)
(* and RunPost runs them in it, across any number of drains, with posts    *)
(* coming in from any threads and from the posts themselves.               *)
THEOREM LoopPostsRunInOrder == Spec => []PostsRunInOrder
  <1>1. LoopInv /\ MpscInv => PostsRunInOrder
    <2> SUFFICES ASSUME LoopInv, MpscInv PROVE PostsRunInOrder
      OBVIOUS
    <2>1. /\ Len(ran) \in Nat /\ Len(runningPosts) \in Nat /\ Len(received) \in Nat /\ Len(order) \in Nat
      BY DEF LoopInv, LoopTypeOK, MpscInv, MpscTypeOK
    <2>2. /\ Len(received) = Len(ran) + Len(runningPosts)
          /\ \A i \in 1 .. Len(ran) : ran[i] = received[i]
      BY DEF LoopInv, RunInv
    <2>3. /\ Len(received) <= Len(order)
          /\ \A i \in 1 .. Len(received) : received[i] = order[i]
      BY DEF MpscInv, HistoryInv
    <2> QED
      BY <2>1, <2>2, <2>3 DEF PostsRunInOrder
  <1>2. Spec => LoopSafety
    BY PTL DEF Spec, LoopSafety
  <1> QED
    BY <1>1, <1>2, LoopInvariant, LoopQueue, PTL

(* The key of a watch that RunReadyWatches has still to serve was reported *)
(* for that very watch, whatever the callbacks before it unwatched and     *)
(* watched: ids are never given out twice.                                 *)
THEOREM LoopReadiness == Spec => []ReadinessIsForThisWatch
  <1>1. LoopInv => ReadinessIsForThisWatch
    BY DEF LoopInv, IdInv, ReadinessIsForThisWatch
  <1>2. Spec => LoopSafety
    BY PTL DEF Spec, LoopSafety
  <1> QED
    BY <1>1, <1>2, LoopInvariant, PTL

-----------------------------------------------------------------------------
(* The elements of a list that is cut in two.                              *)
LEMMA CutElements ==
  ASSUME NEW T, NEW s \in Seq(T), NEW k \in 1 .. Len(s)
  PROVE  /\ SubSeq(s, k + 1, Len(s)) \in Seq(T)
         /\ ToSet(s) = ToSet(SubSeq(s, 1, k)) \cup ToSet(SubSeq(s, k + 1, Len(s)))
  <1> DEFINE a == SubSeq(s, 1, k)
             b == SubSeq(s, k + 1, Len(s))
  <1>1. k \in Nat /\ Len(s) \in Nat /\ 1 <= k /\ k <= Len(s)
    OBVIOUS
  <1>2. a \in Seq(T) /\ Len(a) = k /\ \A i \in 1 .. k : a[i] = s[i]
    OBVIOUS
  <1>3. /\ b \in Seq(T) /\ Len(b) = Len(s) - k
        /\ \A i \in 1 .. Len(s) - k : b[i] = s[k + i]
    OBVIOUS
  <1> HIDE DEF a, b
  <1>4. /\ ToSet(a) = {a[i] : i \in 1 .. Len(a)}
        /\ ToSet(b) = {b[i] : i \in 1 .. Len(b)}
        /\ ToSet(s) = {s[i] : i \in 1 .. Len(s)}
    <2>1. \A x \in Seq(T) : ToSet(x) = {x[i] : i \in 1 .. Len(x)}
      BY DEF ToSet
    <2> QED
      BY <1>2, <1>3, <2>1
  <1>5. ASSUME NEW i \in 1 .. Len(s) PROVE s[i] \in ToSet(a) \cup ToSet(b)
    <2>1. CASE i <= k
      BY <1>1, <1>2, <1>4, <2>1
    <2>2. CASE ~ i <= k
      <3>1. i - k \in 1 .. Len(s) - k /\ k + (i - k) = i
        BY <1>1, <2>2
      <3> QED
        BY <1>3, <1>4, <3>1
    <2> QED
      BY <2>1, <2>2
  <1>6. ToSet(a) \subseteq ToSet(s)
    BY <1>1, <1>2, <1>4
  <1>7. ToSet(b) \subseteq ToSet(s)
    <2> SUFFICES ASSUME NEW i \in 1 .. Len(b) PROVE b[i] \in ToSet(s)
      BY <1>4
    <2>1. k + i \in 1 .. Len(s)
      BY <1>1, <1>3
    <2> QED
      BY <1>3, <1>4, <2>1
  <1> QED
    BY <1>3, <1>4, <1>5, <1>6, <1>7 DEF a, b

(* A chunk of WSAPoll is never empty and never longer than what is left.   *)
LEMMA ChunkSize ==
  ASSUME NEW n \in Nat \ {0}
  PROVE  Min({MaxSocketsPerPoll, n}) \in 1 .. n
  <1>1. MaxSocketsPerPoll \in Nat \ {0}
    BY PollerAssumption
  <1>2. \E x \in {MaxSocketsPerPoll, n} : \A y \in {MaxSocketsPerPoll, n} : x <= y
    BY <1>1
  <1>3. /\ Min({MaxSocketsPerPoll, n}) \in {MaxSocketsPerPoll, n}
        /\ \A y \in {MaxSocketsPerPoll, n} : Min({MaxSocketsPerPoll, n}) <= y
    BY <1>2 DEF Min
  <1> QED
    BY <1>1, <1>3

-----------------------------------------------------------------------------
LEMMA PollInitHolds == PollInit /\ platform \in Platforms => PollInv
  <1> SUFFICES ASSUME PollInit, platform \in Platforms PROVE PollInv
    OBVIOUS
  <1> USE DEF PollInit
  <1>1. PollTypeOK
    <2>1. <<>> \in Seq(Waitables)
      OBVIOUS
    <2>2. sockets \in [PolledSockets -> {"connecting", "idle", "ready", "ended"}]
      OBVIOUS
    <2> QED
      BY <2>1, <2>2 DEF PollTypeOK, PollPcs
  <1>2. EntriesInv
    <2>1. Watched = {} /\ Distinct(pollEntries)
      BY DEF Watched, ToSet, Distinct
    <2>2. Cardinality(Watched \cap PolledEvents) = 0
      BY <2>1, FS_EmptySet
    <2> QED
      BY <2>1, <2>2, PollerAssumption DEF EntriesInv, NumOwnHandles
  <1> QED
    BY <1>1, <1>2 DEF PollInv, SocketInv, WokenInv, TakenInv, PollerIsClosed

(* Nothing of EntriesInv changes where the watched entries stay.           *)
LEMMA SameEntries ==
  ASSUME PollInv, UNCHANGED <<pollEntries, platform>>
  PROVE  EntriesInv' /\ Watched' = Watched
  BY DEF PollInv, EntriesInv, Watched, OnWindows

(* The poller's handles are made, closed, and woken from any thread.       *)
LEMMA PollLifeSteps ==
  ASSUME PollInv, UNCHANGED platform, InitializePoller \/ TerminatePoller \/ Wake
  PROVE  PollInv'
  <1>1. CASE InitializePoller
    <2>1. PICK made \in SUBSET {"poll", "wake", "socket"}, isReady \in BOOLEAN :
            IF isReady THEN /\ ownHandles' = made /\ pollPc' = "callbacks"
                            /\ UNCHANGED <<pollEntries, wakeEvent, socketEvent>>
            ELSE CloseHandles /\ pollPc' = "down"
      BY <1>1 DEF InitializePoller
    <2>2. pollPc = "none" /\ UNCHANGED <<sysVars, toPoll, pollKeys, woken, taken>>
      BY <1>1 DEF InitializePoller
    <2>3. CASE isReady
      <3>1. EntriesInv'
        BY <2>1, <2>3, SameEntries
      <3> QED
        BY <2>1, <2>2, <2>3, <3>1
           DEF PollInv, PollTypeOK, PollPcs, SocketInv, WokenInv, TakenInv, PollerIsClosed, sysVars,
               OnLinux, OnWindows, Watched, Waitables, Platforms
    <2>4. CASE ~isReady
      <3>1. CloseHandles /\ pollPc' = "down"
        BY <2>1, <2>4
      <3>2. pollEntries' = <<>> /\ pollEntries' \in Seq(Waitables)
        BY <3>1 DEF CloseHandles
      <3>3. EntriesInv'
        <4>1. Watched' = {} /\ Distinct(pollEntries')
          BY <3>2 DEF Watched, ToSet, Distinct
        <4>2. Cardinality(Watched' \cap PolledEvents) = 0
          BY <4>1, FS_EmptySet
        <4> QED
          BY <4>1, <4>2, PollerAssumption DEF EntriesInv, NumOwnHandles
      <3> QED
        BY <2>2, <3>1, <3>2, <3>3
           DEF PollInv, PollTypeOK, PollPcs, SocketInv, WokenInv, TakenInv, PollerIsClosed, sysVars,
               OnLinux, OnWindows, Platforms, CloseHandles
    <2> QED
      BY <2>3, <2>4
  <1>2. CASE TerminatePoller
    <2>1. /\ CloseHandles /\ pollPc' = "down"
          /\ UNCHANGED <<sysVars, toPoll, pollKeys, woken, taken>>
      BY <1>2 DEF TerminatePoller
    <2>2. pollEntries' = <<>> /\ pollEntries' \in Seq(Waitables)
      BY <2>1 DEF CloseHandles
    <2>3. EntriesInv'
      <3>1. Watched' = {} /\ Distinct(pollEntries')
        BY <2>2 DEF Watched, ToSet, Distinct
      <3>2. Cardinality(Watched' \cap PolledEvents) = 0
        BY <3>1, FS_EmptySet
      <3> QED
        BY <3>1, <3>2, PollerAssumption DEF EntriesInv, NumOwnHandles
    <2> QED
      BY <2>1, <2>2, <2>3
         DEF PollInv, PollTypeOK, PollPcs, SocketInv, WokenInv, TakenInv, PollerIsClosed, sysVars,
             OnLinux, OnWindows, Platforms, CloseHandles
  <1>3. CASE Wake
    <2>1. EntriesInv' /\ Watched' = Watched
      BY <1>3, SameEntries DEF Wake
    <2> QED
      BY <1>3, <2>1
         DEF Wake, IsUp, PollInv, PollTypeOK, SocketInv, WokenInv, TakenInv, PollerIsClosed, sysVars,
             OnLinux, OnWindows, Platforms
  <1> QED
    BY <1>1, <1>2, <1>3

(* A callback watches a waitable, or watches it no longer.                 *)
LEMMA EntrySteps ==
  ASSUME PollInv, UNCHANGED platform, NEW w \in Waitables, AddEntry(w) \/ RemoveEntry(w)
  PROVE  PollInv'
  <1>0. pollEntries \in Seq(Waitables) /\ Distinct(pollEntries)
    BY DEF PollInv, PollTypeOK, EntriesInv
  <1>1. IsFiniteSet(Watched) /\ IsFiniteSet(Watched \cap PolledEvents)
    <2>1. IsFiniteSet(Watched)
      BY <1>0, DistinctLength DEF Watched
    <2> QED
      BY <2>1, FS_Subset
  <1>2. CASE AddEntry(w)
    <2>1. w \notin Watched /\ pollEntries' = Append(pollEntries, w)
      BY <1>2 DEF AddEntry, AddOnLinux, AddOnWindows
    <2>2. Watched' = Watched \cup {w} /\ Distinct(pollEntries') /\ pollEntries' \in Seq(Waitables)
      BY <1>0, <2>1, AppendElements DEF Watched
    <2>3. EntriesInv'
      <3>1. CASE w \notin PolledEvents
        <4>1. Watched' \cap PolledEvents = Watched \cap PolledEvents
          BY <2>2, <3>1
        <4> QED
          BY <2>2, <4>1 DEF EntriesInv, PollInv, OnWindows
      <3>2. CASE w \in PolledEvents
        <4>1. Watched' \cap PolledEvents = (Watched \cap PolledEvents) \cup {w}
          BY <2>2, <3>2
        <4>2. Cardinality(Watched' \cap PolledEvents) = Cardinality(Watched \cap PolledEvents) + 1
          BY <1>1, <2>1, <4>1, FS_AddElement
        <4>3. OnWindows => Cardinality(Watched \cap PolledEvents) < MaxHandles - NumOwnHandles
          BY <1>2, <3>2, PollerAssumption DEF AddEntry, AddOnLinux, AddOnWindows, CanAddEvent, OnLinux, OnWindows
        <4>4. Cardinality(Watched \cap PolledEvents) \in Nat /\ MaxHandles \in Nat
          BY <1>1, FS_CardinalityType, PollerAssumption
        <4>5. OnWindows => Cardinality(Watched' \cap PolledEvents) + NumOwnHandles <= MaxHandles
          BY <4>2, <4>3, <4>4 DEF NumOwnHandles
        <4> QED
          BY <2>2, <4>5 DEF EntriesInv, OnWindows
      <3> QED
        BY <3>1, <3>2
    <2>4. \/ UNCHANGED <<socketEvent, quiet>>
          \/ w \in PolledSockets /\ SelectEvent(w)
      BY <1>2 DEF AddEntry, AddOnLinux, AddOnWindows
    <2>5. /\ pollPc = "callbacks"
          /\ UNCHANGED <<pollPc, ownHandles, wakeEvent, sockets, signalled, toPoll, pollKeys, woken, taken>>
      BY <1>2 DEF AddEntry
    <2>6. socketEvent' \in BOOLEAN /\ quiet' \subseteq PolledSockets
      BY <2>4 DEF SelectEvent, PollInv, PollTypeOK
    <2>7. \A s \in quiet' : sockets[s] \in {"ready", "ended"}
      BY <2>4 DEF SelectEvent, IsReady, PollInv, SocketInv
    <2> QED
      BY <2>2, <2>3, <2>5, <2>6, <2>7
         DEF PollInv, PollTypeOK, SocketInv, WokenInv, TakenInv, PollerIsClosed, OnLinux, OnWindows, Platforms
  <1>3. CASE RemoveEntry(w)
    <2>1. pollEntries' = Keep(pollEntries, Watched \ {w})
      BY <1>3 DEF RemoveEntry
    <2>2. pollEntries' \in Seq(Waitables) /\ Distinct(pollEntries')
      BY <1>0, <2>1, KeepIsFilter, KeepDistinct
    <2>3. Watched' = Watched \cap (Watched \ {w})
      BY <1>0, <2>1, KeepElements DEF Watched
    <2>4. EntriesInv'
      <3>1. Watched' \cap PolledEvents \subseteq Watched \cap PolledEvents
        BY <2>3
      <3>2. /\ Cardinality(Watched' \cap PolledEvents) \in Nat
            /\ Cardinality(Watched \cap PolledEvents) \in Nat
            /\ Cardinality(Watched' \cap PolledEvents) <= Cardinality(Watched \cap PolledEvents)
        BY <1>1, <3>1, FS_Subset, FS_CardinalityType
      <3>3. OnWindows => Cardinality(Watched \cap PolledEvents) + NumOwnHandles <= MaxHandles
        BY DEF PollInv, EntriesInv
      <3>4. OnWindows => Cardinality(Watched' \cap PolledEvents) + NumOwnHandles <= MaxHandles
        BY <3>2, <3>3, PollerAssumption DEF NumOwnHandles
      <3> QED
        BY <2>2, <3>4 DEF EntriesInv, OnWindows
    <2> QED
      BY <1>3, <2>2, <2>4
         DEF RemoveEntry, PollInv, PollTypeOK, SocketInv, WokenInv, TakenInv, PollerIsClosed,
             OnLinux, OnWindows, Platforms, sysVars
  <1> QED
    BY <1>2, <1>3

(* One Wait on Linux.                                                      *)
LEMMA LinuxWaitSteps ==
  ASSUME PollInv, UNCHANGED platform, WaitOnLinux \/ EpollReturn \/ ReadWake
  PROVE  PollInv'
  <1> USE DEF PollInv, PollTypeOK, PollPcs, SocketInv, WokenInv, TakenInv, PollerIsClosed, sysVars,
              OnLinux, OnWindows, Platforms
  <1>1. EntriesInv' /\ Watched' = Watched
    BY SameEntries DEF WaitOnLinux, EpollReturn, ReadWake
  <1>2. CASE WaitOnLinux
    BY <1>1, <1>2 DEF WaitOnLinux
  <1>3. CASE EpollReturn
    BY <1>1, <1>3 DEF EpollReturn
  <1>4. CASE ReadWake
    BY <1>1, <1>4 DEF ReadWake
  <1> QED
    BY <1>2, <1>3, <1>4

(* The poll of the sockets on Windows: begun, a chunk, and done.           *)
LEMMA WindowsPollSteps ==
  ASSUME PollInv, UNCHANGED platform, WaitOnWindows \/ PollChunk \/ PollSockets
  PROVE  PollInv'
  <1> USE DEF PollInv, PollTypeOK, PollPcs, SocketInv, WokenInv, TakenInv, PollerIsClosed, sysVars,
              OnLinux, OnWindows, Platforms
  <1>1. EntriesInv' /\ Watched' = Watched
    BY SameEntries DEF WaitOnWindows, PollChunk, PollSockets
  <1>2. CASE WaitOnWindows
    <2>1. toPoll' \in Seq(Waitables) /\ ToSet(toPoll') = Watched \cap PolledSockets
      BY <1>2, KeepIsFilter, KeepElements DEF WaitOnWindows, SocketsOf, Watched
    <2> QED
      BY <1>1, <1>2, <2>1 DEF WaitOnWindows
  <1>3. CASE PollChunk
    <2> DEFINE size == Min({MaxSocketsPerPoll, Len(toPoll)})
    <2>1. Len(toPoll) \in Nat \ {0}
      BY <1>3 DEF PollChunk
    <2>2. size \in 1 .. Len(toPoll)
      BY <2>1, ChunkSize
    <2>3. /\ pollKeys' = pollKeys \cup {w \in ToSet(SubSeq(toPoll, 1, size)) : IsReady(w)}
          /\ toPoll' = SubSeq(toPoll, size + 1, Len(toPoll))
          /\ UNCHANGED <<pollPc, ownHandles, pollEntries, wakeEvent, socketEvent, sysVars, woken, taken>>
          /\ pollPc \in {"poll", "pollAgain"}
      BY <1>3 DEF PollChunk
    <2> HIDE DEF size
    <2>4. /\ toPoll' \in Seq(Waitables)
          /\ ToSet(toPoll) = ToSet(SubSeq(toPoll, 1, size)) \cup ToSet(toPoll')
      BY <2>2, <2>3, CutElements
    <2>5. \A s \in PolledSockets : IsReady(s) <=> sockets[s] \in {"ready", "ended"}
      BY DEF IsReady
    <2> QED
      BY <1>1, <2>3, <2>4, <2>5
  <1>4. CASE PollSockets
    <2>0. EventsOf(pollEntries) \in Seq(Waitables)
      BY KeepIsFilter DEF EventsOf
    <2>1. toPoll' \in Seq(Waitables)
      BY <1>4, <2>0 DEF PollSockets
    <2>2. toPoll = <<>> /\ ToSet(toPoll) = {}
      BY <1>4 DEF PollSockets, ToSet
    <2> QED
      BY <1>1, <1>4, <2>1, <2>2 DEF PollSockets
  <1> QED
    BY <1>2, <1>3, <1>4

(* The events are looked at one by one; Wait returns, or waits for all.    *)
LEMMA WindowsEventSteps ==
  ASSUME PollInv, UNCHANGED platform, CollectSignalledEvents \/ Collected \/ WaitForMultipleObjects
  PROVE  PollInv'
  <1> USE DEF PollInv, PollTypeOK, PollPcs, SocketInv, WokenInv, TakenInv, PollerIsClosed, sysVars,
              OnLinux, OnWindows, Platforms
  <1>1. EntriesInv' /\ Watched' = Watched
    BY SameEntries DEF CollectSignalledEvents, Collected, WaitForMultipleObjects, TakeSignal
  <1>2. CASE CollectSignalledEvents
    <2>1. toPoll' \in Seq(Waitables)
      BY <1>2 DEF CollectSignalledEvents
    <2>2. UNCHANGED <<pollPc, ownHandles, pollEntries, wakeEvent, socketEvent, woken, sockets, quiet>>
      BY <1>2 DEF CollectSignalledEvents, TakeSignal
    <2>3. /\ pollPc = "collect" /\ pollKeys \subseteq pollKeys'
          /\ taken' \subseteq taken \cup (pollKeys' \ pollKeys)
             \/ taken' \subseteq taken \cup pollKeys'
      BY <1>2 DEF CollectSignalledEvents, TakeSignal
    <2>4. OnLinux => taken' = {}
      BY <1>2 DEF CollectSignalledEvents, TakeSignal
    <2> QED
      BY <1>1, <2>1, <2>2, <2>3, <2>4
  <1>3. CASE Collected
    BY <1>1, <1>3 DEF Collected
  <1>4. CASE WaitForMultipleObjects
    <2>1. toPoll' \in Seq(Waitables)
      BY <1>4, KeepIsFilter DEF WaitForMultipleObjects, SocketsOf
    <2>2. /\ UNCHANGED <<ownHandles, pollEntries, socketEvent, sockets, quiet>>
          /\ OnWindows /\ pollPc = "blocked" /\ wakeEvent' = FALSE
          /\ \/ pollPc' = "pollAgain" /\ ~wakeEvent /\ UNCHANGED woken
             \/ pollPc' = "callbacks" /\ woken' = FALSE
      BY <1>4 DEF WaitForMultipleObjects, TakeSignal
    <2>3. taken' \subseteq pollKeys'
      BY <1>4 DEF WaitForMultipleObjects, TakeSignal
    <2>4. PollTypeOK'
      BY <2>1, <2>2
    <2>5. SocketInv' /\ TakenInv' /\ PollerIsClosed'
      BY <1>1, <2>2, <2>3
    <2>6. WokenInv'
      BY <2>2
    <2> QED
      BY <1>1, <2>4, <2>5, <2>6
  <1> QED
    BY <1>2, <1>3, <1>4

(* A call of Wait fails.                                                   *)
LEMMA WaitFailsStep ==
  ASSUME PollInv, UNCHANGED platform, WaitFails
  PROVE  PollInv'
  <1>1. EntriesInv' /\ Watched' = Watched
    BY SameEntries DEF WaitFails
  <1> QED
    BY <1>1 DEF WaitFails, PollInv, PollTypeOK, PollPcs, SocketInv, WokenInv, TakenInv, PollerIsClosed,
                OnLinux, OnWindows, Platforms

(* The system and the events' owners.                                      *)
LEMMA SystemSteps ==
  ASSUME PollInv, UNCHANGED platform,
         \/ \E s \in PolledSockets : ConnectEnds(s) \/ DataArrives(s) \/ PeerCloses(s) \/ ReceiveSome(s)
         \/ \E w \in PolledEvents : ToggleEvent(w)
  PROVE  PollInv'
  <1> USE DEF PollInv, PollTypeOK, PollPcs, SocketInv, WokenInv, TakenInv, PollerIsClosed,
              OnLinux, OnWindows, Platforms
  <1>1. EntriesInv' /\ Watched' = Watched
    BY SameEntries DEF ConnectEnds, DataArrives, PeerCloses, ReceiveSome, ToggleEvent, SystemStep
  <1>2. ASSUME NEW s \in PolledSockets, ConnectEnds(s) PROVE PollInv'
    <2>1. PollTypeOK'
      BY <1>2 DEF ConnectEnds, Notify, SystemStep
    <2>2. SocketInv'
      BY <1>1, <1>2 DEF ConnectEnds, Notify, SystemStep
    <2>3. WokenInv' /\ TakenInv' /\ PollerIsClosed'
      BY <1>2 DEF ConnectEnds, SystemStep
    <2> QED
      BY <1>1, <2>1, <2>2, <2>3
  <1>3. ASSUME NEW s \in PolledSockets, DataArrives(s) PROVE PollInv'
    BY <1>1, <1>3 DEF DataArrives, Notify, SystemStep
  <1>4. ASSUME NEW s \in PolledSockets, PeerCloses(s) PROVE PollInv'
    BY <1>1, <1>4 DEF PeerCloses, Notify, SystemStep
  <1>5. ASSUME NEW s \in PolledSockets, ReceiveSome(s) PROVE PollInv'
    BY <1>1, <1>5 DEF ReceiveSome, Notify, SystemStep
  <1>6. ASSUME NEW w \in PolledEvents, ToggleEvent(w) PROVE PollInv'
    BY <1>1, <1>6 DEF ToggleEvent
  <1> QED
    BY <1>2, <1>3, <1>4, <1>5, <1>6

LEMMA PollKeeps == PollInv /\ [PollNext /\ UNCHANGED platform]_<<pollVars, platform>> => PollInv'
  <1> SUFFICES ASSUME PollInv, [PollNext /\ UNCHANGED platform]_<<pollVars, platform>>
               PROVE  PollInv'
    OBVIOUS
  <1>1. CASE PollNext /\ UNCHANGED platform
    BY <1>1, PollLifeSteps, EntrySteps, LinuxWaitSteps, WindowsPollSteps, WindowsEventSteps,
       WaitFailsStep, SystemSteps DEF PollNext
  <1>2. CASE UNCHANGED <<pollVars, platform>>
    <2>1. EntriesInv' /\ Watched' = Watched
      BY <1>2, SameEntries DEF pollVars
    <2> QED
      BY <1>2, <2>1 DEF pollVars, PollInv, PollTypeOK, PollPcs, SocketInv, WokenInv, TakenInv,
                        PollerIsClosed, OnLinux, OnWindows, Platforms
  <1> QED
    BY <1>1, <1>2

-----------------------------------------------------------------------------
(* What the poller promises of a wait that blocks.                         *)
LEMMA BlockedOverNothing == PollInv => SleepsOverNothing
  <1> SUFFICES ASSUME PollInv, pollPc = "blocked"
               PROVE  /\ OnWindows => /\ \A s \in Watched \cap PolledSockets : IsReady(s) => socketEvent
                                      /\ Len(EventsOf(pollEntries)) + NumOwnHandles <= MaxHandles
                      /\ woken => wakeEvent
    BY DEF SleepsOverNothing
  <1>1. OnWindows => \A s \in Watched \cap PolledSockets : IsReady(s) => socketEvent
    BY DEF PollInv, SocketInv, IsReady, OnWindows
  <1>2. Len(EventsOf(pollEntries)) = Cardinality(Watched \cap PolledEvents)
    <2>1. pollEntries \in Seq(Waitables) /\ Distinct(pollEntries)
      BY DEF PollInv, PollTypeOK, EntriesInv
    <2>2. /\ EventsOf(pollEntries) \in Seq(Waitables)
          /\ Distinct(EventsOf(pollEntries))
          /\ ToSet(EventsOf(pollEntries)) = Watched \cap PolledEvents
      BY <2>1, KeepIsFilter, KeepDistinct, KeepElements DEF EventsOf, Watched
    <2> QED
      BY <2>2, DistinctLength
  <1> QED
    BY <1>1, <1>2 DEF PollInv, EntriesInv, WokenInv

LEMMA LoopAndPollerKeeps ==
  LoopAndPollerInv /\ MpscInv /\ [LoopAndPollerNext]_allVars => LoopAndPollerInv'
  <1> SUFFICES ASSUME LoopAndPollerInv, MpscInv, [LoopAndPollerNext]_allVars
               PROVE  LoopAndPollerInv'
    OBVIOUS
  <1>1. [Next]_vars /\ [PollNext /\ UNCHANGED platform]_<<pollVars, platform>>
    BY DEF LoopAndPollerNext, allVars
  <1> QED
    BY <1>1, LoopKeeps, PollKeeps DEF LoopAndPollerInv

(* Neither the loop nor its poller ever sleeps over what it was to serve:  *)
(* a post whose thread has gone on, a wake, a readable socket, an event    *)
(* that the wait has reset; and no handle stays open after the poller.     *)
THEOREM LoopSleepsOverNothing == LoopAndPollerSpec => []NothingSleptOver
  <1>1. LoopAndPollerInit => LoopAndPollerInv /\ MpscInit
    BY LoopInit, PollInitHolds DEF LoopAndPollerInit, LoopAndPollerInv, Init
  <1>2. [LoopAndPollerNext]_allVars => [MpscNext]_mpscVars
    <2> SUFFICES ASSUME [LoopAndPollerNext]_allVars PROVE [MpscNext]_mpscVars
      OBVIOUS
    <2>1. [Next]_vars
      BY DEF LoopAndPollerNext, allVars
    <2> QED
      BY <2>1, QueueStep
  <1>3. LoopAndPollerInv => NothingSleptOver
    <2> SUFFICES ASSUME LoopAndPollerInv PROVE NothingSleptOver
      OBVIOUS
    <2>1. NoLostWake
      BY DEF LoopAndPollerInv, LoopInv, WakeInv, AfterDrain, NoLostWake
    <2>2. TakenIsReported
      BY DEF LoopAndPollerInv, PollInv, TakenInv, TakenIsReported
    <2>3. SleepsOverNothing /\ PollerIsClosed
      BY BlockedOverNothing DEF LoopAndPollerInv, PollInv
    <2> QED
      BY <2>1, <2>2, <2>3 DEF NothingSleptOver
  <1> QED
    BY <1>1, <1>2, <1>3, LoopAndPollerKeeps, MpscInvariant, PTL DEF LoopAndPollerSpec, MpscSpec
=============================================================================
