------------------------- MODULE JobSchedulerProofs -------------------------
(***************************************************************************)
(* Proofs about the job scheduler on its thread pool, for any sets of      *)
(* workers, clients and jobs.  The counters are related to the jobs by     *)
(* saying, for each phase of a job, who holds it: a caller that has        *)
(* counted it, one item of the queue, or one worker.  Each action then     *)
(* moves one job from one holder to the next.                              *)
(***************************************************************************)
EXTENDS JobScheduler, FiniteSetTheorems, TLAPS

(* The phase of the job that a worker at workerPc[w] holds.                *)
HeldPhase == [work |-> "taken", left |-> "left", executing |-> "executing"]
Holding == {"work", "left", "executing"}

(* The items of the queue are the queued jobs, each once.                  *)
QueueInv ==
  /\ \A i \in workQueue : phase[i.job] = "queued"
  /\ \A i, k \in workQueue : i.job = k.job => i = k
  /\ \A j \in Jobs : phase[j] = "queued" => \E i \in workQueue : i.job = j

(* A job that was taken and is not done is held by one worker.             *)
WorkerInv ==
  /\ \A w \in Workers : workerPc[w] \in Holding =>
       workerJob[w] \in Jobs /\ phase[workerJob[w]] = HeldPhase[workerPc[w]]
  /\ \A w, v \in Workers :
       workerPc[w] \in Holding /\ workerPc[v] \in Holding /\ workerJob[w] = workerJob[v] => w = v
  /\ \A j \in Jobs : phase[j] \in {"taken", "left", "executing"} =>
       \E w \in Workers : workerPc[w] \in Holding /\ workerJob[w] = j

(* A job that is counted and not queued is held by one caller; a worker    *)
(* that calls does so from the body of a job.                              *)
CallInv ==
  /\ \A t \in Threads : callPc[t] = "counted" =>
       callJob[t] \in Jobs /\ phase[callJob[t]] = "counted"
  /\ \A t, u \in Threads :
       callPc[t] = "counted" /\ callPc[u] = "counted" /\ callJob[t] = callJob[u] => t = u
  /\ \A j \in Jobs : phase[j] = "counted" =>
       \E t \in Threads : callPc[t] = "counted" /\ callJob[t] = j
  /\ \A w \in Workers : callPc[w] # "none" => workerPc[w] = "executing"

(* Once termination began no client calls; a worker leaves only then; and  *)
(* the last one to leave found the queue empty.                            *)
TermInv ==
  /\ shouldTerminate <=> termPc # "up"
  /\ termPc # "up" => \A c \in Clients : callPc[c] = "none"
  /\ \A w \in Workers : workerPc[w] = "exited" => shouldTerminate
  /\ (\A w \in Workers : workerPc[w] = "exited") => workQueue = {}
  /\ termPc = "joined" => \A w \in Workers : workerPc[w] = "exited"

SchedulerInv ==
  /\ TypeOK
  /\ CountersAccountForJobs
  /\ QueueInv
  /\ WorkerInv
  /\ CallInv
  /\ TermInv

-----------------------------------------------------------------------------
(* A set of jobs that gains or loses one job gains or loses one in size.   *)
LEMMA Gains ==
  ASSUME NEW P \in SUBSET Jobs, NEW j \in Jobs, j \notin P
  PROVE  Cardinality(P \cup {j}) = Cardinality(P) + 1
  BY SchedulerAssumption, FS_Subset, FS_AddElement

LEMMA Loses ==
  ASSUME NEW P \in SUBSET Jobs, NEW j \in P
  PROVE  /\ Cardinality(P \ {j}) = Cardinality(P) - 1
         /\ Cardinality(P \ {j}) \in Nat
  <1>1. IsFiniteSet(P)
    BY SchedulerAssumption, FS_Subset
  <1>2. IsFiniteSet(P \ {j}) /\ Cardinality(P \ {j}) = Cardinality(P) - 1
    BY <1>1, FS_RemoveElement
  <1> QED
    BY <1>2, FS_CardinalityType

LEMMA SchedulerInit == Init => SchedulerInv
  <1> SUFFICES ASSUME Init PROVE SchedulerInv
    OBVIOUS
  <1> USE DEF Init, PoolInit
  <1>1. TypeOK
    BY PoolAssumption DEF TypeOK, Threads, WorkItems
  <1>2. PendingJobs = {} /\ ExecutingJobs = {}
    BY DEF PendingJobs, ExecutingJobs
  <1>3. CountersAccountForJobs
    BY <1>2, FS_EmptySet DEF CountersAccountForJobs
  <1>4. QueueInv /\ WorkerInv /\ CallInv /\ TermInv
    BY PoolAssumption DEF QueueInv, WorkerInv, CallInv, TermInv, Holding, Threads
  <1> QED
    BY <1>1, <1>3, <1>4 DEF SchedulerInv

-----------------------------------------------------------------------------
LEMMA SubmitJobStep ==
  ASSUME SchedulerInv, NEW t \in Threads, NEW j \in Jobs, NEW p \in Priorities,
         SubmitJob(t, j, p)
  PROVE  SchedulerInv'
  <1> USE SchedulerAssumption DEF SchedulerInv, SubmitJob, TypeOK, poolVars
  <1>1. PendingJobs' = PendingJobs \cup {j} /\ j \notin PendingJobs /\ ExecutingJobs' = ExecutingJobs
    BY DEF PendingJobs, ExecutingJobs
  <1>2. Cardinality(PendingJobs') = Cardinality(PendingJobs) + 1
    <2>1. PendingJobs \in SUBSET Jobs
      BY DEF PendingJobs
    <2> QED
      BY <2>1, <1>1, Gains
  <1>3. CountersAccountForJobs'
    BY <1>1, <1>2 DEF CountersAccountForJobs
  <1>4. TypeOK'
    OBVIOUS
  <1>5. QueueInv'
    BY DEF QueueInv, WorkItems
  <1>6. WorkerInv'
    BY DEF WorkerInv, HeldPhase, Holding
  <1>7. CallInv'
    BY DEF CallInv, CanCall, Threads
  <1>8. TermInv'
    BY DEF TermInv, CanCall, Threads
  <1> QED
    BY <1>3, <1>4, <1>5, <1>6, <1>7, <1>8

LEMMA ExecutePushStep ==
  ASSUME SchedulerInv, NEW t \in Threads, ExecutePush(t)
  PROVE  SchedulerInv'
  <1> USE SchedulerAssumption DEF SchedulerInv, ExecutePush, Push, TypeOK
  <1>0. callJob[t] \in Jobs /\ phase[callJob[t]] = "counted"
    BY DEF CallInv
  <1> DEFINE item == [job |-> callJob[t], priority |-> callPriority[t], sequence |-> nextSequence]
  <1>i. item \in WorkItems /\ item.job = callJob[t] /\ workQueue' = workQueue \cup {item}
    BY <1>0 DEF WorkItems
  <1> HIDE DEF item
  <1>1. PendingJobs' = PendingJobs /\ ExecutingJobs' = ExecutingJobs
    BY <1>0 DEF PendingJobs, ExecutingJobs
  <1>3. CountersAccountForJobs'
    BY <1>1 DEF CountersAccountForJobs
  <1>4. TypeOK'
    BY <1>0, <1>i
  <1>5. QueueInv'
    BY <1>0, <1>i DEF QueueInv, WorkItems
  <1>6. WorkerInv'
    BY <1>0 DEF WorkerInv, HeldPhase, Holding
  <1>7. CallInv'
    BY <1>0 DEF CallInv, Threads
  <1>8. TermInv'
    BY PoolAssumption DEF TermInv, CallInv, Threads
  <1> QED
    BY <1>3, <1>4, <1>5, <1>6, <1>7, <1>8

LEMMA ExecuteNotifyStep ==
  ASSUME SchedulerInv, NEW t \in Threads, ExecuteNotify(t)
  PROVE  SchedulerInv'
  <1> USE SchedulerAssumption DEF SchedulerInv, ExecuteNotify, TypeOK
  <1>0. \/ workerPc' = workerPc
        \/ \E w \in Workers : workerPc[w] = "blocked" /\ workerPc' = [workerPc EXCEPT ![w] = "test"]
    BY DEF NotifyOne
  <1>1. CountersAccountForJobs'
    BY DEF CountersAccountForJobs, PendingJobs, ExecutingJobs
  <1>2. TypeOK'
    BY <1>0
  <1>3. QueueInv'
    BY DEF QueueInv
  <1>4. WorkerInv'
    BY <1>0 DEF WorkerInv, HeldPhase, Holding
  <1>5. CallInv'
    BY <1>0 DEF CallInv, Threads
  <1>6. TermInv'
    BY <1>0 DEF TermInv, Threads
  <1> QED
    BY <1>1, <1>2, <1>3, <1>4, <1>5, <1>6

LEMMA TakeStep ==
  ASSUME SchedulerInv, NEW w \in Workers, NEW i \in workQueue, Take(w, i)
  PROVE  SchedulerInv'
  <1> USE SchedulerAssumption DEF SchedulerInv, Take, WorkerTake, TypeOK
  <1>0. i.job \in Jobs /\ phase[i.job] = "queued"
    BY DEF QueueInv, WorkItems
  <1>1. PendingJobs' = PendingJobs /\ ExecutingJobs' = ExecutingJobs
    BY <1>0 DEF PendingJobs, ExecutingJobs
  <1>2. CountersAccountForJobs'
    BY <1>1 DEF CountersAccountForJobs
  <1>3. TypeOK'
    BY <1>0
  <1>4. QueueInv'
    BY <1>0 DEF QueueInv, WorkItems
  <1>5. WorkerInv'
    BY <1>0 DEF WorkerInv, HeldPhase, Holding
  <1>6. CallInv'
    BY <1>0 DEF CallInv, Threads
  <1>7. TermInv'
    BY DEF TermInv
  <1> QED
    BY <1>2, <1>3, <1>4, <1>5, <1>6, <1>7

(* A worker that sleeps, wakes or leaves holds no job.                     *)
LEMMA SleepWakeExitStep ==
  ASSUME SchedulerInv, NEW w \in Workers, Sleep(w) \/ Wake(w) \/ Exit(w)
  PROVE  SchedulerInv'
  <1> USE SchedulerAssumption
      DEF SchedulerInv, Sleep, Wake, Exit, WorkerBlock, WorkerSpuriousWake, WorkerExit,
          schedulerVars, TypeOK
  <1>0. UNCHANGED <<phase, pendingJobs, activeJobs>>
    OBVIOUS
  <1>1. CountersAccountForJobs'
    <2>1. PendingJobs' = PendingJobs /\ ExecutingJobs' = ExecutingJobs
      BY <1>0 DEF PendingJobs, ExecutingJobs
    <2> QED
      BY <1>0, <2>1 DEF CountersAccountForJobs
  <1>2. TypeOK'
    OBVIOUS
  <1>3. QueueInv'
    BY DEF QueueInv
  <1>4. WorkerInv'
    BY DEF WorkerInv, HeldPhase, Holding
  <1>5. CallInv'
    BY DEF CallInv, Threads
  <1>6. TermInv'
    BY DEF TermInv
  <1> QED
    BY <1>1, <1>2, <1>3, <1>4, <1>5, <1>6

LEMMA LeavePendingStep ==
  ASSUME SchedulerInv, NEW w \in Workers, LeavePending(w)
  PROVE  SchedulerInv'
  <1> USE SchedulerAssumption DEF SchedulerInv, LeavePending, TypeOK
  <1>0. workerJob[w] \in Jobs /\ phase[workerJob[w]] = "taken"
    BY DEF WorkerInv, HeldPhase, Holding
  <1>1. /\ workerJob[w] \in PendingJobs
        /\ PendingJobs' = PendingJobs \ {workerJob[w]}
        /\ ExecutingJobs' = ExecutingJobs
    BY <1>0 DEF PendingJobs, ExecutingJobs
  <1>2. Cardinality(PendingJobs') = Cardinality(PendingJobs) - 1 /\ Cardinality(PendingJobs') \in Nat
    <2>1. PendingJobs \in SUBSET Jobs
      BY DEF PendingJobs
    <2> QED
      BY <2>1, <1>1, Loses
  <1>3. CountersAccountForJobs'
    BY <1>1, <1>2 DEF CountersAccountForJobs
  <1>4. TypeOK'
    BY <1>0, <1>2 DEF CountersAccountForJobs
  <1>5. QueueInv'
    BY <1>0 DEF QueueInv, WorkItems
  <1>6. WorkerInv'
    BY <1>0 DEF WorkerInv, HeldPhase, Holding
  <1>7. CallInv'
    BY <1>0 DEF CallInv, Threads
  <1>8. TermInv'
    BY DEF TermInv
  <1> QED
    BY <1>3, <1>4, <1>5, <1>6, <1>7, <1>8

LEMMA EnterActiveStep ==
  ASSUME SchedulerInv, NEW w \in Workers, EnterActive(w)
  PROVE  SchedulerInv'
  <1> USE SchedulerAssumption DEF SchedulerInv, EnterActive, TypeOK
  <1>0. workerJob[w] \in Jobs /\ phase[workerJob[w]] = "left"
    BY DEF WorkerInv, HeldPhase, Holding
  <1>1. /\ workerJob[w] \notin ExecutingJobs
        /\ ExecutingJobs' = ExecutingJobs \cup {workerJob[w]}
        /\ PendingJobs' = PendingJobs
    BY <1>0 DEF PendingJobs, ExecutingJobs
  <1>2. Cardinality(ExecutingJobs') = Cardinality(ExecutingJobs) + 1
    <2>1. ExecutingJobs \in SUBSET Jobs
      BY DEF ExecutingJobs
    <2> QED
      BY <2>1, <1>0, <1>1, Gains
  <1>3. CountersAccountForJobs'
    BY <1>1, <1>2 DEF CountersAccountForJobs
  <1>4. TypeOK'
    BY <1>0
  <1>5. QueueInv'
    BY <1>0 DEF QueueInv, WorkItems
  <1>6. WorkerInv'
    BY <1>0 DEF WorkerInv, HeldPhase, Holding
  <1>7. CallInv'
    BY <1>0 DEF CallInv, Threads
  <1>8. TermInv'
    BY DEF TermInv
  <1> QED
    BY <1>3, <1>4, <1>5, <1>6, <1>7, <1>8

LEMMA SettleStep ==
  ASSUME SchedulerInv, NEW w \in Workers, Settle(w)
  PROVE  SchedulerInv'
  <1> USE SchedulerAssumption DEF SchedulerInv, Settle, TypeOK
  <1>0. workerJob[w] \in Jobs /\ phase[workerJob[w]] = "executing"
    BY DEF WorkerInv, HeldPhase, Holding
  <1>1. /\ workerJob[w] \in ExecutingJobs
        /\ ExecutingJobs' = ExecutingJobs \ {workerJob[w]}
        /\ PendingJobs' = PendingJobs
    BY <1>0 DEF PendingJobs, ExecutingJobs
  <1>2. /\ Cardinality(ExecutingJobs') = Cardinality(ExecutingJobs) - 1
        /\ Cardinality(ExecutingJobs') \in Nat
    <2>1. ExecutingJobs \in SUBSET Jobs
      BY DEF ExecutingJobs
    <2> QED
      BY <2>1, <1>1, Loses
  <1>3. CountersAccountForJobs'
    BY <1>1, <1>2 DEF CountersAccountForJobs
  <1>4. TypeOK'
    BY <1>0, <1>2 DEF CountersAccountForJobs
  <1>5. QueueInv'
    BY <1>0 DEF QueueInv, WorkItems
  <1>6. WorkerInv'
    BY <1>0 DEF WorkerInv, HeldPhase, Holding
  <1>7. CallInv'
    BY <1>0 DEF CallInv, Threads
  <1>8. TermInv'
    BY DEF TermInv
  <1> QED
    BY <1>3, <1>4, <1>5, <1>6, <1>7, <1>8

LEMMA NotifyWaitersStep ==
  ASSUME SchedulerInv, NEW w \in Workers, NotifyWaiters(w)
  PROVE  SchedulerInv'
  <1> USE SchedulerAssumption DEF SchedulerInv, NotifyWaiters, TypeOK
  <1>1. CountersAccountForJobs'
    BY DEF CountersAccountForJobs, PendingJobs, ExecutingJobs
  <1>2. TypeOK'
    OBVIOUS
  <1>3. QueueInv'
    BY DEF QueueInv
  <1>4. WorkerInv'
    BY DEF WorkerInv, HeldPhase, Holding
  <1>5. CallInv'
    BY DEF CallInv, Threads
  <1>6. TermInv'
    BY DEF TermInv
  <1> QED
    BY <1>1, <1>2, <1>3, <1>4, <1>5, <1>6

(* Waiting touches nothing but the waiter.                                 *)
LEMMA WaitingStep ==
  ASSUME SchedulerInv, NEW c \in Clients,
         WaitForAllJobs(c) \/ WaitStep(c) \/ WaitSpuriousWake(c)
  PROVE  SchedulerInv'
  <1> USE DEF SchedulerInv, WaitForAllJobs, WaitStep, WaitLoadPending, WaitLoadActive, WaitSleep,
              WaitSpuriousWake, poolVars
  <1>1. TypeOK'
    BY DEF TypeOK
  <1>2. CountersAccountForJobs'
    BY DEF CountersAccountForJobs, PendingJobs, ExecutingJobs
  <1>3. QueueInv' /\ WorkerInv' /\ CallInv' /\ TermInv'
    BY DEF QueueInv, WorkerInv, CallInv, TermInv
  <1> QED
    BY <1>1, <1>2, <1>3

LEMMA TerminateStep ==
  ASSUME SchedulerInv, Terminate
  PROVE  SchedulerInv'
  <1> USE SchedulerAssumption
      DEF SchedulerInv, Terminate, TerminateFlag, TerminateNotify, TerminateJoin, schedulerVars,
          TypeOK
  <1>1. CountersAccountForJobs'
    BY DEF CountersAccountForJobs, PendingJobs, ExecutingJobs
  <1>2. TypeOK'
    OBVIOUS
  <1>3. QueueInv'
    BY DEF QueueInv
  <1>4. WorkerInv'
    BY DEF WorkerInv, HeldPhase, Holding
  <1>5. CallInv'
    BY DEF CallInv, Threads
  <1>6. TermInv'
    BY DEF TermInv
  <1> QED
    BY <1>1, <1>2, <1>3, <1>4, <1>5, <1>6

LEMMA StutterStep ==
  ASSUME SchedulerInv, UNCHANGED vars
  PROVE  SchedulerInv'
  <1> USE DEF vars, poolVars, schedulerVars, SchedulerInv
  <1>1. TypeOK' /\ CountersAccountForJobs'
    BY DEF TypeOK, CountersAccountForJobs, PendingJobs, ExecutingJobs
  <1>2. QueueInv' /\ WorkerInv' /\ CallInv' /\ TermInv'
    BY DEF QueueInv, WorkerInv, CallInv, TermInv
  <1> QED
    BY <1>1, <1>2

-----------------------------------------------------------------------------
(* The inductive invariant of the scheduler: each job is held by exactly   *)
(* one caller, item or worker, and the counters count accordingly.         *)
THEOREM SchedulerInvariant == Spec => []SchedulerInv
  <1>1. SchedulerInv /\ [Next]_vars => SchedulerInv'
    <2> SUFFICES ASSUME SchedulerInv, [Next]_vars PROVE SchedulerInv'
      OBVIOUS
    <2>1. ASSUME NEW t \in Threads, NEW j \in Jobs, NEW p \in Priorities, SubmitJob(t, j, p)
          PROVE  SchedulerInv'
      BY <2>1, SubmitJobStep
    <2>2. ASSUME NEW t \in Threads, CallStep(t)
          PROVE  SchedulerInv'
      BY <2>2, ExecutePushStep, ExecuteNotifyStep DEF CallStep
    <2>3. ASSUME NEW w \in Workers, WorkerStep(w) \/ Wake(w)
          PROVE  SchedulerInv'
      BY <2>3, TakeStep, SleepWakeExitStep, LeavePendingStep, EnterActiveStep, SettleStep,
         NotifyWaitersStep DEF WorkerStep
    <2>4. ASSUME NEW c \in Clients, WaitForAllJobs(c) \/ WaitStep(c) \/ WaitSpuriousWake(c)
          PROVE  SchedulerInv'
      BY <2>4, WaitingStep
    <2>5. CASE Terminate
      BY <2>5, TerminateStep
    <2>6. CASE UNCHANGED vars
      BY <2>6, StutterStep
    <2> QED
      BY <2>1, <2>2, <2>3, <2>4, <2>5, <2>6 DEF Next
  <1> QED
    BY <1>1, SchedulerInit, PTL DEF Spec

(* Type correctness; in particular no counter of the scheduler ever wraps. *)
THEOREM SchedulerTypeCorrect == Spec => []TypeOK
  <1>1. SchedulerInv => TypeOK
    BY DEF SchedulerInv
  <1> QED
    BY <1>1, SchedulerInvariant, PTL

(* m_pendingJobs and m_activeJobs never drift, whatever the number of      *)
(* workers, clients and jobs.                                              *)
THEOREM SchedulerCounters == Spec => []CountersAccountForJobs
  <1>1. SchedulerInv => CountersAccountForJobs
    BY DEF SchedulerInv
  <1> QED
    BY <1>1, SchedulerInvariant, PTL

(* Terminate joins the workers only when every submitted job is done.      *)
THEOREM SchedulerDrains == Spec => []NothingLeftAtJoin
  <1>1. SchedulerInv => NothingLeftAtJoin
    <2> SUFFICES ASSUME SchedulerInv, termPc = "joined"
                 PROVE  workQueue = {} /\ \A j \in Jobs : phase[j] \in {"new", "done"}
      BY DEF NothingLeftAtJoin
    <2>1. workQueue = {} /\ \A w \in Workers : workerPc[w] = "exited"
      BY DEF SchedulerInv, TermInv
    <2>2. \A t \in Threads : callPc[t] = "none"
      BY <2>1 DEF SchedulerInv, TermInv, CallInv, Threads
    <2>3. \A j \in Jobs : phase[j] \notin {"counted", "queued", "taken", "left", "executing"}
      BY <2>1, <2>2 DEF SchedulerInv, QueueInv, WorkerInv, CallInv, Holding
    <2> QED
      BY <2>1, <2>3 DEF SchedulerInv, TypeOK
  <1> QED
    BY <1>1, SchedulerInvariant, PTL

-----------------------------------------------------------------------------
(* SWorkItem::operator< and the sequence number make the queue serve the   *)
(* most urgent item first and, among equals, the earliest.                 *)
THEOREM SchedulerPriority == Spec => PriorityRespected
  <1>1. SchedulerInv /\ [Next]_vars => [UrgentFirst]_vars
    <2> SUFFICES ASSUME SchedulerInv, Next PROVE UrgentFirst
      OBVIOUS
    <2>1. ASSUME NEW w \in Workers, NEW x \in workQueue, Take(w, x)
          PROVE  UrgentFirst
      <3> SUFFICES ASSUME NEW i \in workQueue, NEW k \in workQueue,
                          \/ i.priority < k.priority
                          \/ i.priority = k.priority /\ i.sequence < k.sequence,
                          k \notin workQueue'
                   PROVE  i \notin workQueue'
        BY DEF UrgentFirst
      <3>1. k = x
        BY <2>1 DEF Take, WorkerTake
      <3>2. i # k => Outranks(k, i)
        BY <2>1, <3>1 DEF Take, WorkerTake, IsTop
      <3>3. i.priority \in Nat /\ k.priority \in Nat /\ i.sequence \in Nat /\ k.sequence \in Nat
        <4>1. i \in WorkItems /\ k \in WorkItems
          BY DEF SchedulerInv, TypeOK
        <4>2. Priorities \subseteq Nat
          BY PoolAssumption
        <4> QED
          BY <4>1, <4>2 DEF WorkItems
      <3>4. ~Outranks(k, i)
        BY <3>3 DEF Outranks
      <3>5. i = k
        BY <3>2, <3>4
      <3> QED
        BY <3>5
    <2>2. ASSUME workQueue \subseteq workQueue' PROVE UrgentFirst
      BY <2>2 DEF UrgentFirst
    <2>3. \/ \E w \in Workers, x \in workQueue : Take(w, x)
          \/ workQueue \subseteq workQueue'
      BY DEF Next, SubmitJob, CallStep, ExecutePush, Push, ExecuteNotify, WorkerStep, Wake, Sleep,
             Exit, WorkerBlock, WorkerSpuriousWake, WorkerExit, LeavePending, EnterActive, Settle,
             NotifyWaiters, WaitForAllJobs, WaitStep, WaitLoadPending, WaitLoadActive, WaitSleep,
             WaitSpuriousWake, Terminate, TerminateFlag, TerminateNotify, TerminateJoin, poolVars
    <2> QED
      BY <2>1, <2>2, <2>3
  <1> QED
    BY <1>1, SchedulerInvariant, PTL DEF Spec, PriorityRespected

-----------------------------------------------------------------------------
(* The jobs as Executor sees them.                                         *)
Waiting == {j \in Jobs : phase[j] \in {"counted", "queued"}}
Running == {j \in Jobs : phase[j] \in {"taken", "left", "executing"}}
Finished == {j \in Jobs : phase[j] = "done"}

(* A step that moves a job within a stage, or none, is a stutter.          *)
LEMMA StageKept ==
  ASSUME TypeOK, NEW j \in Jobs, NEW y,
         phase' = [phase EXCEPT ![j] = y],
         \/ phase[j] = "counted" /\ y = "queued"
         \/ phase[j] = "taken" /\ y = "left"
         \/ phase[j] = "left" /\ y = "executing"
  PROVE  Waiting' = Waiting /\ Running' = Running /\ Finished' = Finished
  BY DEF TypeOK, Waiting, Running, Finished

LEMMA ExecutorStep ==
  ASSUME SchedulerInv, [Next]_vars
  PROVE  \/ \E j \in Jobs :
              \/ /\ j \notin Waiting \cup Running \cup Finished
                 /\ Waiting' = Waiting \cup {j} /\ Running' = Running /\ Finished' = Finished
              \/ /\ j \in Waiting /\ Waiting' = Waiting \ {j}
                 /\ Running' = Running \cup {j} /\ Finished' = Finished
              \/ /\ j \in Running /\ Running' = Running \ {j}
                 /\ Finished' = Finished \cup {j} /\ Waiting' = Waiting
         \/ Waiting' = Waiting /\ Running' = Running /\ Finished' = Finished
  <1> USE DEF SchedulerInv
  <1>1. ASSUME NEW t \in Threads, NEW j \in Jobs, NEW p \in Priorities, SubmitJob(t, j, p)
        PROVE  /\ j \notin Waiting \cup Running \cup Finished
               /\ Waiting' = Waiting \cup {j} /\ Running' = Running /\ Finished' = Finished
    BY <1>1 DEF SubmitJob, TypeOK, Waiting, Running, Finished
  <1>2. ASSUME NEW w \in Workers, NEW i \in workQueue, Take(w, i)
        PROVE  /\ i.job \in Waiting /\ Waiting' = Waiting \ {i.job}
               /\ Running' = Running \cup {i.job} /\ Finished' = Finished
    <2>1. i.job \in Jobs /\ phase[i.job] = "queued" /\ phase' = [phase EXCEPT ![i.job] = "taken"]
      BY <1>2 DEF Take, QueueInv, TypeOK, WorkItems
    <2> QED
      BY <2>1 DEF TypeOK, Waiting, Running, Finished
  <1>3. ASSUME NEW w \in Workers, Settle(w)
        PROVE  /\ workerJob[w] \in Running /\ Running' = Running \ {workerJob[w]}
               /\ Finished' = Finished \cup {workerJob[w]} /\ Waiting' = Waiting
    <2>1. /\ workerJob[w] \in Jobs /\ phase[workerJob[w]] = "executing"
          /\ phase' = [phase EXCEPT ![workerJob[w]] = "done"]
      BY <1>3 DEF Settle, WorkerInv, HeldPhase, Holding
    <2> QED
      BY <2>1 DEF TypeOK, Waiting, Running, Finished
  <1>4. ASSUME NEW t \in Threads, ExecutePush(t)
        PROVE  Waiting' = Waiting /\ Running' = Running /\ Finished' = Finished
    <2>1. /\ callJob[t] \in Jobs /\ phase[callJob[t]] = "counted"
          /\ phase' = [phase EXCEPT ![callJob[t]] = "queued"]
      BY <1>4 DEF ExecutePush, CallInv
    <2> QED
      BY <2>1, StageKept
  <1>5. ASSUME NEW w \in Workers, LeavePending(w)
        PROVE  Waiting' = Waiting /\ Running' = Running /\ Finished' = Finished
    <2>1. /\ workerJob[w] \in Jobs /\ phase[workerJob[w]] = "taken"
          /\ phase' = [phase EXCEPT ![workerJob[w]] = "left"]
      BY <1>5 DEF LeavePending, WorkerInv, HeldPhase, Holding
    <2> QED
      BY <2>1, StageKept
  <1>6. ASSUME NEW w \in Workers, EnterActive(w)
        PROVE  Waiting' = Waiting /\ Running' = Running /\ Finished' = Finished
    <2>1. /\ workerJob[w] \in Jobs /\ phase[workerJob[w]] = "left"
          /\ phase' = [phase EXCEPT ![workerJob[w]] = "executing"]
      BY <1>6 DEF EnterActive, WorkerInv, HeldPhase, Holding
    <2> QED
      BY <2>1, StageKept
  <1>7. ASSUME phase' = phase
        PROVE  Waiting' = Waiting /\ Running' = Running /\ Finished' = Finished
    BY <1>7 DEF Waiting, Running, Finished
  <1>8. \/ \E t \in Threads, j \in Jobs, p \in Priorities : SubmitJob(t, j, p)
        \/ \E t \in Threads : ExecutePush(t)
        \/ \E w \in Workers : \/ \E i \in workQueue : Take(w, i)
                              \/ LeavePending(w) \/ EnterActive(w) \/ Settle(w)
        \/ phase' = phase
    BY DEF Next, CallStep, ExecuteNotify, WorkerStep, Sleep, Exit, Wake, NotifyWaiters,
           WaitForAllJobs, WaitStep, WaitLoadPending, WaitLoadActive, WaitSleep, WaitSpuriousWake,
           Terminate, schedulerVars, vars
  <1>9. \A i \in workQueue : i.job \in Jobs
    BY DEF TypeOK, WorkItems
  <1>10. \A w \in Workers : Settle(w) => workerJob[w] \in Jobs
    BY <1>3 DEF Running
  <1> QED
    BY <1>1, <1>2, <1>3, <1>4, <1>5, <1>6, <1>7, <1>8, <1>9, <1>10

(* Scheduler and pool implement Executor but for its fairness: each job is *)
(* submitted, started and finished at most once, in that order.            *)
THEOREM SchedulerImplementsExecutor ==
  Spec => Promise!ExecutorInit /\ [][Promise!ExecutorNext]_(Promise!executorVars)
  <1>1. Init => Promise!ExecutorInit
    BY DEF Init, Promise!ExecutorInit
  <1>2. SchedulerInv /\ [Next]_vars => [Promise!ExecutorNext]_(Promise!executorVars)
    <2> SUFFICES ASSUME SchedulerInv, [Next]_vars
                 PROVE  [Promise!ExecutorNext]_(Promise!executorVars)
      OBVIOUS
    <2> QED
      BY ExecutorStep
      DEF Promise!ExecutorNext, Promise!Submit, Promise!Start, Promise!Finish,
          Promise!executorVars, Waiting, Running, Finished
  <1> QED
    BY <1>1, <1>2, SchedulerInvariant, PTL DEF Spec
=============================================================================
