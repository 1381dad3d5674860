---------------------------- MODULE JobScheduler ----------------------------
(***************************************************************************)
(* CJobScheduler (private/threading/job_scheduler.cpp) on CThreadPool, and *)
(* the order in which Internal::Terminate (job_system.cpp) takes them down.*)
(* The two counters are separate relaxed atomics: only the decrement of    *)
(* m_activeJobs is made under m_queueMutex, the mutex of the waiters.      *)
(*                                                                         *)
(* Jobs may submit jobs.  Clients are the threads outside the pool; none   *)
(* of them is inside the scheduler when its owner terminates it.           *)
(***************************************************************************)
EXTENDS ThreadPool

CONSTANT Clients

ASSUME SchedulerAssumption == /\ Workers \cap Clients = {}
                              /\ IsFiniteSet(Jobs)

VARIABLES pendingJobs,   \* m_pendingJobs
          activeJobs,    \* m_activeJobs
          callPc,        \* where each thread is in SubmitJob
          callJob,       \* the job it submits
          callPriority,
          waitPc,        \* where each client is in WaitForAllJobs
          phase          \* history: how far each job is

schedulerVars == <<pendingJobs, activeJobs, callPc, callJob, callPriority,
                   waitPc, phase>>
vars == <<poolVars, schedulerVars>>

Threads == Clients \cup Workers

Init ==
  /\ PoolInit
  /\ pendingJobs = 0
  /\ activeJobs = 0
  /\ callPc = [t \in Threads |-> "none"]
  /\ callJob = [t \in Threads |-> NoJob]
  /\ callPriority = [t \in Threads |-> CHOOSE p \in Priorities : TRUE]
  /\ waitPc = [c \in Clients |-> "none"]
  /\ phase = [j \in Jobs |-> "new"]

(* A thread that may call into the scheduler: a client between calls, or   *)
(* a worker inside a job's body.                                           *)
CanCall(t) == /\ callPc[t] = "none"
              /\ IF t \in Clients THEN termPc = "up" /\ waitPc[t] = "none"
                                  ELSE workerPc[t] = "executing"

(* m_queueMutex of the scheduler: a waiter holds it from its first load    *)
(* until it sleeps or returns.                                             *)
MutexFree == \A c \in Clients : waitPc[c] \notin {"loaded", "refused"}

-----------------------------------------------------------------------------
(* SubmitJob: count the job, then hand it to the pool.                     *)
SubmitJob(t, j, p) ==
  /\ CanCall(t)
  /\ phase[j] = "new"
  /\ pendingJobs' = pendingJobs + 1
  /\ callPc' = [callPc EXCEPT ![t] = "counted"]
  /\ callJob' = [callJob EXCEPT ![t] = j]
  /\ callPriority' = [callPriority EXCEPT ![t] = p]
  /\ phase' = [phase EXCEPT ![j] = "counted"]
  /\ UNCHANGED <<poolVars, activeJobs, waitPc>>

ExecutePush(t) ==
  /\ callPc[t] = "counted"
  /\ Push(callJob[t], callPriority[t])
  /\ callPc' = [callPc EXCEPT ![t] = "pushed"]
  /\ phase' = [phase EXCEPT ![callJob[t]] = "queued"]
  /\ UNCHANGED <<shouldTerminate, workerPc, workerJob, termPc, pendingJobs, activeJobs,
                 callJob, callPriority, waitPc>>

ExecuteNotify(t) ==
  /\ callPc[t] = "pushed"
  /\ NotifyOne
  /\ callPc' = [callPc EXCEPT ![t] = "none"]
  /\ callJob' = [callJob EXCEPT ![t] = NoJob]
  /\ UNCHANGED <<workQueue, nextSequence, shouldTerminate, workerJob, termPc, pendingJobs,
                 activeJobs, callPriority, waitPc, phase>>

(* The pool's part of a worker: nothing of the scheduler changes, except   *)
(* that the history follows the job.                                       *)
Take(w, i) ==
  /\ WorkerTake(w, i)
  /\ phase' = [phase EXCEPT ![i.job] = "taken"]
  /\ UNCHANGED <<pendingJobs, activeJobs, callPc, callJob, callPriority, waitPc>>

Sleep(w) == WorkerBlock(w) /\ UNCHANGED schedulerVars
Wake(w) == WorkerSpuriousWake(w) /\ UNCHANGED schedulerVars
Exit(w) == WorkerExit(w) /\ UNCHANGED schedulerVars

(* A lambda that forgets to leave m_pendingJobs.                           *)
LeavePendingSkipped(w) ==
  /\ workerPc[w] = "work"
  /\ workerPc' = [workerPc EXCEPT ![w] = "left"]
  /\ phase' = [phase EXCEPT ![workerJob[w]] = "left"]
  /\ UNCHANGED <<workQueue, nextSequence, shouldTerminate, workerJob, termPc, pendingJobs,
                 activeJobs, callPc, callJob, callPriority, waitPc>>

(* The work item's lambda: m_pendingJobs.fetch_sub, then in a separate     *)
(* step m_activeJobs.fetch_add, then the job.                              *)
LeavePending(w) ==
  /\ workerPc[w] = "work"
  /\ pendingJobs' = pendingJobs - 1
  /\ workerPc' = [workerPc EXCEPT ![w] = "left"]
  /\ phase' = [phase EXCEPT ![workerJob[w]] = "left"]
  /\ UNCHANGED <<workQueue, nextSequence, shouldTerminate, workerJob, termPc, activeJobs,
                 callPc, callJob, callPriority, waitPc>>

EnterActive(w) ==
  /\ workerPc[w] = "left"
  /\ activeJobs' = activeJobs + 1
  /\ workerPc' = [workerPc EXCEPT ![w] = "executing"]
  /\ phase' = [phase EXCEPT ![workerJob[w]] = "executing"]
  /\ UNCHANGED <<workQueue, nextSequence, shouldTerminate, workerJob, termPc, pendingJobs,
                 callPc, callJob, callPriority, waitPc>>

(* A lambda that decrements outside the mutex.                             *)
SettleUnlocked(w) ==
  /\ workerPc[w] = "executing"
  /\ callPc[w] = "none"
  /\ activeJobs' = activeJobs - 1
  /\ workerPc' = [workerPc EXCEPT ![w] = "settled"]
  /\ phase' = [phase EXCEPT ![workerJob[w]] = "done"]
  /\ UNCHANGED <<workQueue, nextSequence, shouldTerminate, workerJob, termPc, pendingJobs,
                 callPc, callJob, callPriority, waitPc>>

(* The job returns; m_activeJobs is decremented under the mutex.           *)
Settle(w) ==
  /\ workerPc[w] = "executing"
  /\ callPc[w] = "none"
  /\ MutexFree
  /\ activeJobs' = activeJobs - 1
  /\ workerPc' = [workerPc EXCEPT ![w] = "settled"]
  /\ phase' = [phase EXCEPT ![workerJob[w]] = "done"]
  /\ UNCHANGED <<workQueue, nextSequence, shouldTerminate, workerJob, termPc, pendingJobs,
                 callPc, callJob, callPriority, waitPc>>

(* m_completionCondition.notify_all(), then back to the worker's loop.     *)
NotifyWaiters(w) ==
  /\ workerPc[w] = "settled"
  /\ waitPc' = [c \in Clients |-> IF waitPc[c] = "blocked" THEN "test" ELSE waitPc[c]]
  /\ workerPc' = [workerPc EXCEPT ![w] = "test"]
  /\ workerJob' = [workerJob EXCEPT ![w] = NoJob]
  /\ UNCHANGED <<workQueue, nextSequence, shouldTerminate, termPc, pendingJobs, activeJobs,
                 callPc, callJob, callPriority, phase>>

-----------------------------------------------------------------------------
(* WaitForAllJobs: under the mutex load m_pendingJobs, then m_activeJobs.  *)
WaitForAllJobs(c) ==
  /\ CanCall(c)
  /\ waitPc' = [waitPc EXCEPT ![c] = "test"]
  /\ UNCHANGED <<poolVars, pendingJobs, activeJobs, callPc, callJob, callPriority, phase>>

WaitLoadPending(c) ==
  /\ waitPc[c] = "test"
  /\ MutexFree
  /\ waitPc' = [waitPc EXCEPT ![c] = IF pendingJobs = 0 THEN "loaded" ELSE "refused"]
  /\ UNCHANGED <<poolVars, pendingJobs, activeJobs, callPc, callJob, callPriority, phase>>

WaitLoadActive(c) ==
  /\ waitPc[c] = "loaded"
  /\ waitPc' = [waitPc EXCEPT ![c] = IF activeJobs = 0 THEN "none" ELSE "refused"]
  /\ UNCHANGED <<poolVars, pendingJobs, activeJobs, callPc, callJob, callPriority, phase>>

WaitSleep(c) ==
  /\ waitPc[c] = "refused"
  /\ waitPc' = [waitPc EXCEPT ![c] = "blocked"]
  /\ UNCHANGED <<poolVars, pendingJobs, activeJobs, callPc, callJob, callPriority, phase>>

(* A condition variable may wake without being notified.                   *)
WaitSpuriousWake(c) ==
  /\ waitPc[c] = "blocked"
  /\ waitPc' = [waitPc EXCEPT ![c] = "test"]
  /\ UNCHANGED <<poolVars, pendingJobs, activeJobs, callPc, callJob, callPriority, phase>>

(* Internal::Terminate: the pool first.                                    *)
Terminate ==
  /\ \/ TerminateFlag /\ \A c \in Clients : callPc[c] = "none" /\ waitPc[c] = "none"
     \/ TerminateNotify
     \/ TerminateJoin
  /\ UNCHANGED schedulerVars

WorkerStep(w) == \/ \E i \in workQueue : Take(w, i)
                 \/ Sleep(w) \/ Exit(w)
                 \/ LeavePending(w) \/ EnterActive(w) \/ Settle(w) \/ NotifyWaiters(w)

CallStep(t) == ExecutePush(t) \/ ExecuteNotify(t)

WaitStep(c) == WaitLoadPending(c) \/ WaitLoadActive(c) \/ WaitSleep(c)

Next ==
  \/ \E t \in Threads : \/ \E j \in Jobs, p \in Priorities : SubmitJob(t, j, p)
                        \/ CallStep(t)
  \/ \E w \in Workers : WorkerStep(w) \/ Wake(w)
  \/ \E c \in Clients : WaitForAllJobs(c) \/ WaitStep(c) \/ WaitSpuriousWake(c)
  \/ Terminate

Spec == Init /\ [][Next]_vars

(* Every thread that is inside the scheduler or the pool keeps running;    *)
(* nobody has to call anything, and no thread has to wake unnotified.  A   *)
(* worker gets the mutex in the end when waiters release it again and      *)
(* again.                                                                  *)
FairSpec ==
  /\ Spec
  /\ \A w \in Workers : WF_vars(WorkerStep(w)) /\ SF_vars(Settle(w))
  /\ \A t \in Threads : WF_vars(CallStep(t))
  /\ \A c \in Clients : WF_vars(WaitStep(c))
-----------------------------------------------------------------------------
(* Type correctness.                                                       *)
TypeOK ==
  /\ workQueue \in SUBSET WorkItems
  /\ nextSequence \in Nat
  /\ shouldTerminate \in BOOLEAN
  /\ workerPc \in [Workers -> {"test", "blocked", "work", "left", "executing", "settled",
                               "exited"}]
  /\ workerJob \in [Workers -> Jobs \cup {NoJob}]
  /\ termPc \in {"up", "flagged", "joining", "joined"}
  /\ pendingJobs \in Nat
  /\ activeJobs \in Nat
  /\ callPc \in [Threads -> {"none", "counted", "pushed"}]
  /\ callJob \in [Threads -> Jobs \cup {NoJob}]
  /\ callPriority \in [Threads -> Priorities]
  /\ waitPc \in [Clients -> {"none", "test", "loaded", "refused", "blocked"}]
  /\ phase \in [Jobs -> {"new", "counted", "queued", "taken", "left", "executing", "done"}]

PendingJobs == {j \in Jobs : phase[j] \in {"counted", "queued", "taken"}}
ExecutingJobs == {j \in Jobs : phase[j] = "executing"}

(* The counters, updated by unsynchronised atomics on many threads, never  *)
(* drift: m_pendingJobs is the number of jobs submitted and not begun,     *)
(* m_activeJobs the number in their bodies.  Neither can wrap below zero.  *)
CountersAccountForJobs ==
  /\ pendingJobs = Cardinality(PendingJobs)
  /\ activeJobs = Cardinality(ExecutingJobs)

(* The pool drains before it stops: once Terminate has joined the workers, *)
(* no work item is left behind, not even one that a job submitted while    *)
(* the other workers were already leaving.                                 *)
NothingLeftAtJoin ==
  termPc = "joined" =>
    /\ workQueue = {}
    /\ \A j \in Jobs : phase[j] \in {"new", "done"}

(* No item leaves the queue while a more urgent one stays behind.          *)
UrgentFirst ==
  \A i, k \in workQueue :
    /\ \/ i.priority < k.priority
       \/ i.priority = k.priority /\ i.sequence < k.sequence
    /\ k \notin workQueue'
    => i \notin workQueue'

(* "High must win; equal priorities fall back to insertion order"          *)
(* (thread_pool.hpp): no item leaves the queue while one that is more      *)
(* urgent, or as urgent and pushed earlier, stays behind.                  *)
PriorityRespected == [][UrgentFirst]_vars

(* No wakeup is lost: WaitForAllJobs returns once the jobs are done.       *)
WaitReturns == \A c \in Clients : waitPc[c] = "test" ~> waitPc[c] = "none"

(* Scheduler and pool together keep the promise of Executor: each job is   *)
(* started once, and every submitted job finishes.                         *)
Promise == INSTANCE Executor
             WITH Work <- Jobs,
                  waiting <- {j \in Jobs : phase[j] \in {"counted", "queued"}},
                  running <- {j \in Jobs : phase[j] \in {"taken", "left", "executing"}},
                  finished <- {j \in Jobs : phase[j] = "done"}

ImplementsExecutor == Promise!ExecutorSpec
=============================================================================
