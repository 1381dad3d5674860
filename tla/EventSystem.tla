----------------------------- MODULE EventSystem -----------------------------
(***************************************************************************)
(* Events::Impl::CSystem (private/events/system.cpp): handlers subscribed  *)
(* per event type, dispatched on the emitting thread from a snapshot with  *)
(* no lock held, and a queue of events that the main thread drains once a  *)
(* frame.  A handler, like any other code of its thread, may subscribe,    *)
(* unsubscribe, emit (so that dispatches nest) and queue.                  *)
(*                                                                         *)
(* An entry (SHandler) is named by its handle; the handle also names the   *)
(* handler's function.  A queued event is a record of its type and of its  *)
(* number among all queued events.                                         *)
(***************************************************************************)
EXTENDS Naturals, Sequences, FiniteSets, FiniteSetsExt, SequenceFilters

CONSTANTS Threads,
          Main,         \* the thread that runs the frame loop
          Types,        \* event types
          MaxHandles,   \* bound: subscriptions
          MaxQueued,    \* bound: events queued
          MaxDispatches \* bound: dispatches under way at once, nested or not

ASSUME EventAssumption ==
  /\ Main \in Threads
  /\ MaxHandles \in Nat /\ MaxQueued \in Nat /\ MaxDispatches \in Nat

VARIABLES handlers,       \* SEventSlot::handlers of each type
          snapshot,       \* SEventSlot::snapshot
          dirty,          \* SEventSlot::dirty
          numDead,        \* SEventSlot::numDead
          alive,          \* handles whose entry is alive
          subscriptions,  \* m_subscriptions: handle and type
          nextHandle,     \* m_nextHandle
          queue,          \* m_queue
          draining,       \* m_draining, still to dispatch
          frames,         \* each thread's dispatches, innermost last
          numQueued,      \* history: events queued so far
          drainEnd,       \* history: numQueued when the last drain swapped
          lastDrained,    \* history: the event dispatched last
          removedBy       \* history: which thread unsubscribed a handle

eventVars == <<handlers, snapshot, dirty, numDead, alive, subscriptions, nextHandle, queue,
          draining, frames, numQueued, drainEnd, lastDrained, removedBy>>

Handles == 1 .. MaxHandles

EventInit ==
  /\ handlers = [t \in Types |-> <<>>]
  /\ snapshot = [t \in Types |-> <<>>]
  /\ dirty = [t \in Types |-> FALSE]
  /\ numDead = [t \in Types |-> 0]
  /\ alive = {}
  /\ subscriptions = {}
  /\ nextHandle = 1
  /\ queue = <<>>
  /\ draining = <<>>
  /\ frames = [th \in Threads |-> <<>>]
  /\ numQueued = 0
  /\ drainEnd = 0
  /\ lastDrained = 0
  /\ removedBy = [h \in Handles |-> {}]

-----------------------------------------------------------------------------
Top(th) == frames[th][Len(frames[th])]
WithTop(th, f) == [frames EXCEPT ![th][Len(frames[th])] = f]
IsAt(th, where) == frames[th] # <<>> /\ Top(th).at = where

(* A thread runs user code when it is in a handler, or in no dispatch and  *)
(* (the main thread) in no drain.                                          *)
CanCall(th) == \/ IsAt(th, "handler")
               \/ frames[th] = <<>> /\ (th = Main => draining = <<>>)

(* Swaps the last handler into the place of a dead one.                    *)
CompactBySwap(list, living) ==
  IF \A i \in 1 .. Len(list) : list[i] \in living THEN list
  ELSE LET last == list[Len(list)]
       IN [i \in 1 .. Len(list) - 1 |-> IF list[i] \in living THEN list[i] ELSE last]

(* std::erase_if of the dead.                                              *)
Compact(list, living) == Keep(list, living)

Subscribe(th, t) ==
  /\ CanCall(th)
  /\ nextHandle <= MaxHandles
  /\ nextHandle' = nextHandle + 1
  /\ alive' = alive \cup {nextHandle}
  /\ handlers' = [handlers EXCEPT ![t] = Append(@, nextHandle)]
  /\ dirty' = [dirty EXCEPT ![t] = TRUE]
  /\ subscriptions' = subscriptions \cup {[handle |-> nextHandle, type |-> t]}
  /\ UNCHANGED <<snapshot, numDead, queue, draining, frames, numQueued, drainEnd,
                 lastDrained, removedBy>>

(* Unsubscribe: mark the entry dead, and compact the list when the dead    *)
(* outnumber the living.                                                   *)
Unsubscribe(th, s) ==
  /\ CanCall(th)
  /\ s \in subscriptions
  /\ alive' = alive \ {s.handle}
  /\ dirty' = [dirty EXCEPT ![s.type] = TRUE]
  /\ IF (numDead[s.type] + 1) * 2 > Len(handlers[s.type])
     THEN /\ handlers' = [handlers EXCEPT ![s.type] = Compact(@, alive')]
          /\ numDead' = [numDead EXCEPT ![s.type] = 0]
     ELSE /\ numDead' = [numDead EXCEPT ![s.type] = @ + 1]
          /\ UNCHANGED handlers
  /\ subscriptions' = subscriptions \ {s}
  /\ removedBy' = [removedBy EXCEPT ![s.handle] = {th}]
  /\ UNCHANGED <<snapshot, nextHandle, queue, draining, frames, numQueued, drainEnd,
                 lastDrained>>

(* GetSnapshot, under m_mutex: rebuild the snapshot if it is dirty.        *)
GetSnapshot(t) ==
  IF dirty[t]
  THEN /\ handlers' = [handlers EXCEPT ![t] = Compact(@, alive)]
       /\ snapshot' = [snapshot EXCEPT ![t] = handlers'[t]]
       /\ dirty' = [dirty EXCEPT ![t] = FALSE]
       /\ numDead' = [numDead EXCEPT ![t] = 0]
  ELSE UNCHANGED <<handlers, snapshot, dirty, numDead>>

(* The dispatches under way on all threads.                                *)
Dispatches == MapThenSumSet(LAMBDA th : Len(frames[th]), Threads)

(* EmitErased begins: take the snapshot, then walk it.                     *)
BeginDispatch(th, t) ==
  /\ GetSnapshot(t)
  /\ frames' = [frames EXCEPT ![th] = Append(@, [at |-> "walk", rest |-> snapshot'[t],
                                                 began |-> nextHandle])]

Emit(th, t) ==
  /\ CanCall(th)
  /\ Dispatches < MaxDispatches
  /\ BeginDispatch(th, t)
  /\ UNCHANGED <<alive, subscriptions, nextHandle, queue, draining, numQueued, drainEnd,
                 lastDrained, removedBy>>

(* Calls every entry of the snapshot, dead or alive.                       *)
TestAliveSkipped(th) ==
  /\ IsAt(th, "walk")
  /\ Top(th).rest # <<>>
  /\ frames' = WithTop(th, [Top(th) EXCEPT !.at = "call"])
  /\ UNCHANGED <<handlers, snapshot, dirty, numDead, alive, subscriptions, nextHandle, queue,
                 draining, numQueued, drainEnd, lastDrained, removedBy>>

(* Load the entry's alive flag: pass over it, or be about to call it.      *)
TestAlive(th) ==
  /\ IsAt(th, "walk")
  /\ Top(th).rest # <<>>
  /\ frames' = WithTop(th, IF Head(Top(th).rest) \in alive
                           THEN [Top(th) EXCEPT !.at = "call"]
                           ELSE [Top(th) EXCEPT !.rest = Tail(@)])
  /\ UNCHANGED <<handlers, snapshot, dirty, numDead, alive, subscriptions, nextHandle, queue,
                 draining, numQueued, drainEnd, lastDrained, removedBy>>

CallHandler(th) ==
  /\ IsAt(th, "call")
  /\ frames' = WithTop(th, [Top(th) EXCEPT !.at = "handler"])
  /\ UNCHANGED <<handlers, snapshot, dirty, numDead, alive, subscriptions, nextHandle, queue,
                 draining, numQueued, drainEnd, lastDrained, removedBy>>

HandlerReturns(th) ==
  /\ IsAt(th, "handler")
  /\ frames' = WithTop(th, [Top(th) EXCEPT !.at = "walk", !.rest = Tail(@)])
  /\ UNCHANGED <<handlers, snapshot, dirty, numDead, alive, subscriptions, nextHandle, queue,
                 draining, numQueued, drainEnd, lastDrained, removedBy>>

EmitReturns(th) ==
  /\ IsAt(th, "walk")
  /\ Top(th).rest = <<>>
  /\ frames' = [frames EXCEPT ![th] = SubSeq(@, 1, Len(@) - 1)]
  /\ UNCHANGED <<handlers, snapshot, dirty, numDead, alive, subscriptions, nextHandle, queue,
                 draining, numQueued, drainEnd, lastDrained, removedBy>>

-----------------------------------------------------------------------------
(* QueueErased, under m_queueMutex.                                        *)
QueueEmit(th, t) ==
  /\ CanCall(th)
  /\ numQueued < MaxQueued
  /\ numQueued' = numQueued + 1
  /\ queue' = Append(queue, [id |-> numQueued', type |-> t])
  /\ UNCHANGED <<handlers, snapshot, dirty, numDead, alive, subscriptions, nextHandle,
                 draining, frames, drainEnd, lastDrained, removedBy>>

(* DispatchQueued, from the main thread's Update: swap the queue out.      *)
DispatchQueued ==
  /\ frames[Main] = <<>>
  /\ draining = <<>>
  /\ draining' = queue
  /\ queue' = draining
  /\ drainEnd' = numQueued
  /\ UNCHANGED <<handlers, snapshot, dirty, numDead, alive, subscriptions, nextHandle, frames,
                 numQueued, lastDrained, removedBy>>

(* Drains the queue itself until it is empty.                              *)
DispatchNextOfQueue ==
  /\ frames[Main] = <<>>
  /\ draining \o queue # <<>>
  /\ LET all == draining \o queue
     IN /\ BeginDispatch(Main, Head(all).type)
        /\ lastDrained' = Head(all).id
        /\ draining' = Tail(all)
        /\ queue' = <<>>
  /\ UNCHANGED <<alive, subscriptions, nextHandle, numQueued, drainEnd, removedBy>>

(* Dispatch the next event of the drain.                                   *)
DispatchNext ==
  /\ frames[Main] = <<>>
  /\ draining # <<>>
  /\ BeginDispatch(Main, Head(draining).type)
  /\ lastDrained' = Head(draining).id
  /\ draining' = Tail(draining)
  /\ UNCHANGED <<alive, subscriptions, nextHandle, queue, numQueued, drainEnd, removedBy>>

-----------------------------------------------------------------------------
DispatchStep(th) == TestAlive(th) \/ CallHandler(th) \/ HandlerReturns(th) \/ EmitReturns(th)

EventNext ==
  \/ \E th \in Threads :
       \/ \E t \in Types : Subscribe(th, t) \/ Emit(th, t) \/ QueueEmit(th, t)
       \/ \E s \in subscriptions : Unsubscribe(th, s)
       \/ DispatchStep(th)
  \/ DispatchQueued
  \/ DispatchNext

EventSpec == EventInit /\ [][EventNext]_eventVars

-----------------------------------------------------------------------------
Ascending(list) == \A i, j \in 1 .. Len(list) : i < j => list[i] < list[j]
Elements(list) == {list[i] : i \in 1 .. Len(list)}
Subscribed(t) == {s.handle : s \in {u \in subscriptions : u.type = t}}

(* Handlers run in the order of their subscriptions, and a subscription    *)
(* made while a dispatch is under way, on its thread or another, waits for *)
(* the next one: what a dispatch has left to call is in order and was all  *)
(* subscribed before it began.                                             *)
DispatchInOrder ==
  \A th \in Threads : \A i \in 1 .. Len(frames[th]) :
    LET f == frames[th][i]
    IN /\ Ascending(f.rest)
       /\ \A h \in Elements(f.rest) : h < f.began

(* A snapshot that is not marked for a rebuild holds exactly the current   *)
(* subscriptions, so that an Emit misses no handler that was subscribed    *)
(* before and reuses no list with a handler removed since.                 *)
SnapshotIsCurrent ==
  \A t \in Types : ~dirty[t] => Elements(snapshot[t]) = Subscribed(t)

(* The count of dead entries that decides on compaction is exact, and      *)
(* compaction keeps the dead from outnumbering the living.                 *)
DeadAreCounted ==
  \A t \in Types :
    /\ numDead[t] = Cardinality(Elements(handlers[t]) \ alive)
    /\ numDead[t] * 2 <= Len(handlers[t])
    /\ Elements(handlers[t]) \cap alive = Subscribed(t)

(* Unsubscribe takes effect at once for the thread that calls it, in the   *)
(* middle of its own dispatches too: it never again calls that handler.    *)
OwnUnsubscribeIsImmediate ==
  \A th \in Threads : IsAt(th, "call") => th \notin removedBy[Head(Top(th).rest)]

(* Queued events are dispatched in the order they were queued, each once;  *)
(* an event queued by a handler of a drain waits for the next drain.       *)
DrainInOrder ==
  [][lastDrained' # lastDrained =>
       lastDrained' = lastDrained + 1 /\ lastDrained' <= drainEnd]_eventVars

(* No queued event is lost between the swap of the queue, its drain and the*)
(* events that handlers and other threads queue meanwhile: what is in the  *)
(* drain and in the queue is all that was queued and not yet dispatched.   *)
BacklogIsComplete ==
  LET backlog == draining \o queue
  IN /\ Len(backlog) = numQueued - lastDrained
     /\ \A i \in 1 .. Len(backlog) : backlog[i].id = lastDrained + i

(* The lists behind a dispatch are right at every step: the handlers, their*)
(* snapshot and the count of the dead, and the queued events.              *)
ListsAreRight == DispatchInOrder /\ SnapshotIsCurrent /\ DeadAreCounted /\ BacklogIsComplete
=============================================================================
