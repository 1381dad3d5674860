----------------------------- MODULE ThreadPool -----------------------------
(***************************************************************************)
(* CThreadPool (private/threading/thread_pool.cpp): worker threads that    *)
(* take work items from one priority queue under m_queueMutex and sleep on *)
(* m_condition while there is none.  A critical section of the mutex is    *)
(* one action; blocking on the condition variable and being notified are   *)
(* steps of their own, so that a lost wakeup would show.                   *)
(*                                                                         *)
(* What a work item does (workerPc "work" and beyond) is JobScheduler's.   *)
(***************************************************************************)
EXTENDS Naturals, FiniteSets

CONSTANTS Workers,       \* the pool's threads
          Jobs,          \* the work a work item stands for
          NoJob,
          Priorities     \* of EJobPriority: High is 0, Normal 1, Low 2

ASSUME PoolAssumption == /\ Workers # {}
                         /\ NoJob \notin Jobs
                         /\ Priorities \subseteq 0 .. 2 /\ Priorities # {}

VARIABLES workQueue,        \* m_workQueue
          nextSequence,     \* m_nextSequence
          shouldTerminate,  \* m_shouldTerminate
          workerPc,         \* where each worker is in WorkerThread
          workerJob,        \* the work it took
          termPc            \* Terminate: not called, flag set, joining, joined

poolVars == <<workQueue, nextSequence, shouldTerminate, workerPc, workerJob, termPc>>

WorkItems == [job : Jobs, priority : Priorities, sequence : Nat]

PoolInit ==
  /\ workQueue = {}
  /\ nextSequence = 0
  /\ shouldTerminate = FALSE
  /\ workerPc = [w \in Workers |-> "test"]
  /\ workerJob = [w \in Workers |-> NoJob]
  /\ termPc = "up"

(* Forgets the priority.                                                   *)
OutranksBySequence(i, k) == i.sequence < k.sequence

(* SWorkItem::operator<, read as "i leaves the queue before k".            *)
Outranks(i, k) == IF i.priority # k.priority THEN i.priority < k.priority
                                             ELSE i.sequence < k.sequence

(* i is m_workQueue.top().                                                 *)
IsTop(i) == i \in workQueue /\ \A k \in workQueue \ {i} : Outranks(i, k)

-----------------------------------------------------------------------------
(* Execute: push under the lock.                                           *)
Push(j, p) ==
  /\ workQueue' = workQueue \cup {[job |-> j, priority |-> p, sequence |-> nextSequence]}
  /\ nextSequence' = nextSequence + 1

(* A notify that reaches nobody.                                           *)
NotifyNone == UNCHANGED workerPc

(* m_condition.notify_one(): one blocked worker re-evaluates its predicate.*)
NotifyOne ==
  LET blocked == {w \in Workers : workerPc[w] = "blocked"}
  IN IF blocked = {} THEN UNCHANGED workerPc
     ELSE \E w \in blocked : workerPc' = [workerPc EXCEPT ![w] = "test"]

(* The predicate of the wait is false: release the lock and sleep.         *)
WorkerBlock(w) ==
  /\ workerPc[w] = "test"
  /\ ~shouldTerminate /\ workQueue = {}
  /\ workerPc' = [workerPc EXCEPT ![w] = "blocked"]
  /\ UNCHANGED <<workQueue, nextSequence, shouldTerminate, workerJob, termPc>>

(* A condition variable may wake without being notified.                   *)
WorkerSpuriousWake(w) ==
  /\ workerPc[w] = "blocked"
  /\ workerPc' = [workerPc EXCEPT ![w] = "test"]
  /\ UNCHANGED <<workQueue, nextSequence, shouldTerminate, workerJob, termPc>>

(* Takes the top work item, i.                                             *)
WorkerTake(w, i) ==
  /\ workerPc[w] = "test"
  /\ IsTop(i)
  /\ workerJob' = [workerJob EXCEPT ![w] = i.job]
  /\ workQueue' = workQueue \ {i}
  /\ workerPc' = [workerPc EXCEPT ![w] = "work"]
  /\ UNCHANGED <<nextSequence, shouldTerminate, termPc>>

(* A worker that leaves as soon as termination is asked for.               *)
WorkerExitUndrained(w) ==
  /\ workerPc[w] = "test"
  /\ shouldTerminate
  /\ workerPc' = [workerPc EXCEPT ![w] = "exited"]
  /\ UNCHANGED <<workQueue, nextSequence, shouldTerminate, workerJob, termPc>>

(* Termination was asked for and nothing is queued.                        *)
WorkerExit(w) ==
  /\ workerPc[w] = "test"
  /\ shouldTerminate /\ workQueue = {}
  /\ workerPc' = [workerPc EXCEPT ![w] = "exited"]
  /\ UNCHANGED <<workQueue, nextSequence, shouldTerminate, workerJob, termPc>>

(* Terminate, its three parts: the flag under the lock, notify_all, join.  *)
TerminateFlag ==
  /\ termPc = "up"
  /\ shouldTerminate' = TRUE
  /\ termPc' = "flagged"
  /\ UNCHANGED <<workQueue, nextSequence, workerPc, workerJob>>

TerminateNotify ==
  /\ termPc = "flagged"
  /\ workerPc' = [w \in Workers |-> IF workerPc[w] = "blocked" THEN "test" ELSE workerPc[w]]
  /\ termPc' = "joining"
  /\ UNCHANGED <<workQueue, nextSequence, shouldTerminate, workerJob>>

TerminateJoin ==
  /\ termPc = "joining"
  /\ \A w \in Workers : workerPc[w] = "exited"
  /\ termPc' = "joined"
  /\ UNCHANGED <<workQueue, nextSequence, shouldTerminate, workerPc, workerJob>>
=============================================================================
