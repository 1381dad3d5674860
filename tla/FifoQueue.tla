----------------------------- MODULE FifoQueue -----------------------------
(***************************************************************************)
(* What a queue promises its users: items come out once each, in the order *)
(* in which they went in.  MpscQueue is shown to implement it.  A Dequeue  *)
(* that reports "empty" changes nothing and is a stuttering step here, so  *)
(* the promise says nothing about when the queue may report empty.         *)
(***************************************************************************)
EXTENDS Sequences

CONSTANT Items

VARIABLES queue,       \* items that went in and did not come out yet
          delivered    \* items that came out, in order

vars == <<queue, delivered>>

Init == queue = <<>> /\ delivered = <<>>

Put(i) == /\ queue' = Append(queue, i)
          /\ UNCHANGED delivered

Take == /\ queue # <<>>
        /\ delivered' = Append(delivered, Head(queue))
        /\ queue' = Tail(queue)

Next == (\E i \in Items : Put(i)) \/ Take

Spec == Init /\ [][Next]_vars
=============================================================================
