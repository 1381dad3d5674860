----------------------------- MODULE MpscQueue -----------------------------
(***************************************************************************)
(* CMpscQueue (public/tge/threading/mpsc_queue.hpp): a linked list that    *)
(* any number of producers extend at the head, each with an exchange of    *)
(* m_head followed by a separate store of the predecessor's next pointer,  *)
(* and that one consumer shortens at the tail, deleting the cell it leaves.*)
(* Between a producer's exchange and its store the list is broken, and     *)
(* everything behind the gap is out of the consumer's reach.               *)
(*                                                                         *)
(* A cell is allocated once: the queue has no compare-and-swap, so a reused*)
(* address is the same as a new one.  The value a cell holds is the cell   *)
(* itself.                                                                 *)
(***************************************************************************)
EXTENDS Naturals, Sequences

CONSTANTS Producers,   \* threads that call Enqueue
          Nodes,       \* cells the calls of Enqueue may allocate
          Stub,        \* the cell the constructor allocates
          Null         \* nullptr

ASSUME MpscAssumption == /\ Stub \notin Nodes
                         /\ Null \notin Nodes
                         /\ Null # Stub

VARIABLES head,        \* m_head
          tail,        \* m_tail
          next,        \* each cell's next pointer
          allocated,   \* cells allocated and not deleted
          pc,          \* where each producer is inside Push
          node,        \* the cell a producer is pushing
          prevHead,    \* what its exchange returned
          life,        \* the queue itself: live, being destroyed, gone
          cursor,      \* the destructor's walk
          order,       \* history: cells in the order of their exchanges
          received     \* history: values in the order Dequeue returned them

mpscVars == <<head, tail, next, allocated, pc, node, prevHead, life, cursor,
              order, received>>

Cells == Nodes \cup {Stub}

(* Cells some call of Enqueue has already taken.                           *)
Used == {order[i] : i \in 1 .. Len(order)}
          \cup {node[p] : p \in {q \in Producers : pc[q] = "exchange"}}

MpscInit ==
  /\ head = Stub
  /\ tail = Stub
  /\ next = [c \in Cells |-> Null]
  /\ allocated = {Stub}
  /\ pc = [p \in Producers |-> "idle"]
  /\ node = [p \in Producers |-> Null]
  /\ prevHead = [p \in Producers |-> Null]
  /\ life = "live"
  /\ cursor = Null
  /\ order = <<>>
  /\ received = <<>>

-----------------------------------------------------------------------------
(* Enqueue: allocate a cell, move the value in, and clear its next pointer;*)
(* no other thread can see the cell yet.                                   *)
Enqueue(p, n) ==
  /\ life = "live"
  /\ pc[p] = "idle"
  /\ n \notin Used
  /\ allocated' = allocated \cup {n}
  /\ next' = [next EXCEPT ![n] = Null]
  /\ node' = [node EXCEPT ![p] = n]
  /\ pc' = [pc EXCEPT ![p] = "exchange"]
  /\ UNCHANGED <<head, tail, prevHead, life, cursor, order, received>>

(* A Push whose exchange is a load followed by a store: two producers may   *)
(* pick the same predecessor.                                              *)
ExchangeAsLoadThenStore(p) ==
  /\ pc[p] = "exchange"
  /\ \/ /\ prevHead[p] = Null
        /\ prevHead' = [prevHead EXCEPT ![p] = head]
        /\ UNCHANGED <<head, pc, order>>
     \/ /\ prevHead[p] # Null
        /\ head' = node[p]
        /\ order' = Append(order, node[p])
        /\ pc' = [pc EXCEPT ![p] = "link"]
        /\ UNCHANGED prevHead
  /\ UNCHANGED <<tail, next, allocated, node, life, cursor, received>>

(* Push: prevHead = m_head.exchange(node).                                 *)
Exchange(p) ==
  /\ pc[p] = "exchange"
  /\ prevHead' = [prevHead EXCEPT ![p] = head]
  /\ head' = node[p]
  /\ order' = Append(order, node[p])
  /\ pc' = [pc EXCEPT ![p] = "link"]
  /\ UNCHANGED <<tail, next, allocated, node, life, cursor, received>>

(* Push: prevHead->next.store(node).                                       *)
Link(p) ==
  /\ pc[p] = "link"
  /\ next' = [next EXCEPT ![prevHead[p]] = node[p]]
  /\ pc' = [pc EXCEPT ![p] = "idle"]
  /\ prevHead' = [prevHead EXCEPT ![p] = Null]
  /\ UNCHANGED <<head, tail, allocated, node, life, cursor, order, received>>

(* A Dequeue that takes from the newest cell.                              *)
DequeueFromHead ==
  /\ life = "live"
  /\ next[tail] # Null
  /\ received' = Append(received, head)
  /\ tail' = head
  /\ allocated' = allocated \ {tail}
  /\ UNCHANGED <<head, next, pc, node, prevHead, life, cursor, order>>

(* Dequeue: next = tail->next; take its value, advance m_tail, delete the  *)
(* old tail.  Only the consumer reads or writes m_tail, and a producer     *)
(* writes no next pointer twice, so the steps act as one.                  *)
Dequeue ==
  /\ life = "live"
  /\ next[tail] # Null
  /\ received' = Append(received, next[tail])
  /\ tail' = next[tail]
  /\ allocated' = allocated \ {tail}
  /\ UNCHANGED <<head, next, pc, node, prevHead, life, cursor, order>>

(* A destructor that starts behind the tail and so misses its cell.        *)
DestroyBeginAtNext ==
  /\ life = "live"
  /\ \A p \in Producers : pc[p] = "idle"
  /\ life' = "destroying"
  /\ cursor' = next[tail]
  /\ UNCHANGED <<head, tail, next, allocated, pc, node, prevHead, order, received>>

(* ~CMpscQueue: the owner destroys the queue when no producer is in it.    *)
DestroyBegin ==
  /\ life = "live"
  /\ \A p \in Producers : pc[p] = "idle"
  /\ life' = "destroying"
  /\ cursor' = tail
  /\ UNCHANGED <<head, tail, next, allocated, pc, node, prevHead, order, received>>

DestroyStep ==
  /\ life = "destroying"
  /\ IF cursor # Null
     THEN /\ cursor' = next[cursor]
          /\ allocated' = allocated \ {cursor}
          /\ UNCHANGED life
     ELSE /\ life' = "gone"
          /\ UNCHANGED <<cursor, allocated>>
  /\ UNCHANGED <<head, tail, next, pc, node, prevHead, order, received>>

MpscNext == \/ \E p \in Producers : \/ \E n \in Nodes : Enqueue(p, n)
                                    \/ Exchange(p)
                                    \/ Link(p)
            \/ Dequeue
            \/ DestroyBegin
            \/ DestroyStep

MpscSpec == MpscInit /\ [][MpscNext]_mpscVars

-----------------------------------------------------------------------------
(* Type correctness.                                                       *)
MpscTypeOK ==
  /\ head \in Cells
  /\ tail \in Cells
  /\ next \in [Cells -> Cells \cup {Null}]
  /\ allocated \in SUBSET Cells
  /\ pc \in [Producers -> {"idle", "exchange", "link"}]
  /\ node \in [Producers -> Nodes \cup {Null}]
  /\ prevHead \in [Producers -> Cells \cup {Null}]
  /\ life \in {"live", "destroying", "gone"}
  /\ cursor \in Cells \cup {Null}
  /\ order \in Seq(Nodes)
  /\ received \in Seq(Nodes)

(* No use after free: the consumer deletes the cell it leaves while        *)
(* producers still hold raw pointers to cells.  Whatever the interleaving, *)
(* the predecessor a producer is about to write through, the cell the      *)
(* consumer reads next from and the cell the destructor stands on have not *)
(* been deleted.                                                           *)
NoUseAfterFree ==
  /\ \A p \in Producers : pc[p] = "link" => prevHead[p] \in allocated
  /\ life = "live" => tail \in allocated /\ head \in allocated
  /\ life = "destroying" /\ cursor # Null => cursor \in allocated

(* The destructor frees exactly what is left, received or not: no cell     *)
(* leaks.                                                                  *)
NoCellLeaked == life = "gone" => allocated = {}

(* The list of cells implements a first-in first-out queue whose order is  *)
(* that of the exchanges: what Dequeue reads out of the next pointers is   *)
(* always the oldest value not yet returned, never one twice.              *)
Fifo == INSTANCE FifoQueue
          WITH Items <- Nodes,
               queue <- SubSeq(order, Len(received) + 1, Len(order)),
               delivered <- received

ImplementsFifo == Fifo!Spec
=============================================================================
