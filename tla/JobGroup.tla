------------------------------ MODULE JobGroup ------------------------------
(***************************************************************************)
(* CJobGroup (private/threading/job_group.cpp): groups of jobs that share  *)
(* a counter and a queue, run either by the pool's workers or by the       *)
(* thread that waits for the group, and that are cancelled together with   *)
(* the groups nested in them.  The pool below is Executor: what a group    *)
(* hands it is a runner, which takes whichever job is at the front of the  *)
(* group's queue, not the one it was submitted for.                        *)
(*                                                                         *)
(* An actor is a piece of code with a program counter: a client thread, a  *)
(* worker running a runner, or the body of a job.  The body of a job is a  *)
(* call made by the actor that popped it, on that actor's thread: while it *)
(* lives the caller stands at "running".                                   *)
(***************************************************************************)
EXTENDS Naturals, Sequences, FiniteSets

CONSTANTS Clients,    \* threads outside the pool
          Workers,    \* threads of the pool
          Groups,
          Jobs,
          GroupOf,    \* the group each job is submitted to
          Creator,    \* the actor whose code constructs each group
          NoGroup, NoJob

ASSUME GroupAssumption ==
  /\ GroupOf \in [Jobs -> Groups]
  /\ Creator \in [Groups -> Clients \cup Jobs]
  /\ NoGroup \notin Groups /\ NoJob \notin Jobs
  /\ Clients \cap Workers = {} /\ Clients \cap Jobs = {} /\ Workers \cap Jobs = {}
  /\ IsFiniteSet(Jobs)

VARIABLES waiting, running, finished,   \* runners in the scheduler (Executor)
          created,      \* groups constructed so far
          parent,       \* SState::parent
          activeJobs,   \* SState::activeJobs
          cancelled,    \* SState::cancelled
          pending,      \* SState::pending
          tCurrent,     \* the thread-local SState::tCurrent of each thread
          thread,       \* the thread each actor runs on
          pc, grp, job, \* each actor's program counter, group and job operand
          look,         \* the group whose flag IsCancelled reads next
          runner,       \* the runner a worker executes
          prev,         \* RunOnePending's saved tCurrent
          dropped,      \* Cancel's local queue
          phase,        \* history: how far each job is
          seen          \* history: the groups around an actor's job that were
                        \* cancelled when it took the job

groupVars == <<created, parent, activeJobs, cancelled, pending>>
testVars == <<look, seen>>
vars == <<waiting, running, finished, groupVars, testVars, tCurrent, thread, pc, grp, job,
          runner, prev, dropped, phase>>

Pool == INSTANCE Executor WITH Work <- Jobs
poolVars == <<waiting, running, finished>>

Threads == Clients \cup Workers
Bodies == Clients \cup Jobs
Actors == Threads \cup Jobs

Init ==
  /\ Pool!ExecutorInit
  /\ created = {}
  /\ parent = [g \in Groups |-> NoGroup]
  /\ activeJobs = [g \in Groups |-> 0]
  /\ cancelled = [g \in Groups |-> FALSE]
  /\ pending = [g \in Groups |-> <<>>]
  /\ tCurrent = [t \in Threads |-> NoGroup]
  /\ thread = [a \in Actors |-> IF a \in Threads THEN a ELSE NoJob]
  /\ pc = [a \in Actors |-> IF a \in Clients THEN "body"
                            ELSE IF a \in Workers THEN "idle" ELSE "unborn"]
  /\ grp = [a \in Actors |-> NoGroup]
  /\ job = [a \in Actors |-> NoJob]
  /\ runner = [w \in Workers |-> NoJob]
  /\ prev = [a \in Actors |-> NoGroup]
  /\ dropped = [a \in Bodies |-> <<>>]
  /\ phase = [j \in Jobs |-> "new"]
  /\ look = [a \in Actors |-> NoGroup]
  /\ seen = [a \in Actors |-> {}]

(* The group a group's creator runs for, from who constructs what.         *)
Enclosing(g) == IF Creator[g] \in Jobs THEN GroupOf[Creator[g]] ELSE NoGroup

(* h is g or a group that encloses it, at any depth: it is in every set of *)
(* groups that has g and the enclosing group of each of its members.       *)
Encloses(h, g) ==
  \A S \in SUBSET Groups :
    g \in S /\ (\A k \in S : Enclosing(k) # NoGroup => Enclosing(k) \in S) => h \in S

(* Who is given the handle of a group to submit to: the code that made it  *)
(* and the group's own jobs.                                               *)
MaySubmit(a, g) == g \in created /\ (a = Creator[g] \/ (a \in Jobs /\ GroupOf[a] = g))

-----------------------------------------------------------------------------
(* CJobGroup(): inherits the group running on the constructing thread.     *)
CreateGroup(a, g) ==
  /\ pc[a] = "body"
  /\ a = Creator[g]
  /\ g \notin created
  /\ created' = created \cup {g}
  /\ parent' = [parent EXCEPT ![g] = tCurrent[thread[a]]]
  /\ UNCHANGED <<poolVars, testVars, activeJobs, cancelled, pending, tCurrent, thread, pc,
                 grp, job,
                 runner, prev, dropped, phase>>

(* SubmitJob, its three steps: raise the counter, push under the mutex,    *)
(* hand a runner to the scheduler.                                         *)
SubmitJob(a, j) ==
  /\ pc[a] = "body"
  /\ MaySubmit(a, GroupOf[j])
  /\ phase[j] = "new"
  /\ activeJobs' = [activeJobs EXCEPT ![GroupOf[j]] = @ + 1]
  /\ pc' = [pc EXCEPT ![a] = "counted"]
  /\ job' = [job EXCEPT ![a] = j]
  /\ phase' = [phase EXCEPT ![j] = "counted"]
  /\ UNCHANGED <<poolVars, testVars, created, parent, cancelled, pending, tCurrent, thread,
                 grp,
                 runner, prev, dropped>>

PushPending(a) ==
  /\ pc[a] = "counted"
  /\ pending' = [pending EXCEPT ![GroupOf[job[a]]] = Append(@, job[a])]
  /\ pc' = [pc EXCEPT ![a] = "pushed"]
  /\ phase' = [phase EXCEPT ![job[a]] = "pending"]
  /\ UNCHANGED <<poolVars, testVars, created, parent, activeJobs, cancelled, tCurrent,
                 thread, grp,
                 job, runner, prev, dropped>>

SubmitRunner(a) ==
  /\ pc[a] = "pushed"
  /\ Pool!Submit(job[a])
  /\ pc' = [pc EXCEPT ![a] = "body"]
  /\ job' = [job EXCEPT ![a] = NoJob]
  /\ UNCHANGED <<groupVars, testVars, tCurrent, thread, grp, runner, prev, dropped, phase>>

(* A worker starts a runner: a call of RunOnePending.                      *)
StartRunner(w, j) ==
  /\ pc[w] = "idle"
  /\ Pool!Start(j)
  /\ pc' = [pc EXCEPT ![w] = "pop"]
  /\ grp' = [grp EXCEPT ![w] = GroupOf[j]]
  /\ runner' = [runner EXCEPT ![w] = j]
  /\ UNCHANGED <<groupVars, testVars, tCurrent, thread, job, prev, dropped, phase>>

-----------------------------------------------------------------------------
(* RunOnePending, by a worker for its runner or by a body inside Wait.     *)

(* RunOnePending returns: to the worker's loop, or to the loop of Wait,    *)
(* which sleeps after a call that found nothing.                           *)
Return(a, ran) ==
  IF a \in Workers
  THEN /\ Pool!Finish(runner[a])
       /\ pc' = [pc EXCEPT ![a] = "idle"]
       /\ runner' = [runner EXCEPT ![a] = NoJob]
       /\ grp' = [grp EXCEPT ![a] = NoGroup]
  ELSE /\ pc' = [pc EXCEPT ![a] = IF ran THEN "waitTest" ELSE "waitSleep"]
       /\ UNCHANGED <<poolVars, runner, grp>>

(* Takes the oldest job of the group, under the mutex.                     *)
Pop(a) ==
  /\ pc[a] = "pop"
  /\ LET g == grp[a]
     IN \/ /\ pending[g] # <<>>
           /\ job' = [job EXCEPT ![a] = Head(pending[g])]
           /\ pending' = [pending EXCEPT ![g] = Tail(@)]
           /\ phase' = [phase EXCEPT ![Head(pending[g])] = "popped"]
           /\ pc' = [pc EXCEPT ![a] = "check"]
           /\ look' = [look EXCEPT ![a] = g]
           /\ seen' = [seen EXCEPT ![a] = {h \in Groups : cancelled[h] /\ Encloses(h, g)}]
           /\ UNCHANGED <<poolVars, grp, runner>>
        \/ /\ pending[g] = <<>>
           /\ Return(a, FALSE)
           /\ UNCHANGED <<pending, job, phase, testVars>>
  /\ UNCHANGED <<created, parent, activeJobs, cancelled, tCurrent, thread, prev, dropped>>

(* Looks at the flag of the job's own group alone.                         *)
CheckFlat(a) ==
  /\ pc[a] = "check"
  /\ pc' = [pc EXCEPT ![a] = IF cancelled[look[a]] THEN "settle" ELSE "start"]
  /\ phase' = IF cancelled[look[a]] THEN [phase EXCEPT ![job[a]] = "skipped"] ELSE phase
  /\ look' = [look EXCEPT ![a] = NoGroup]
  /\ seen' = IF cancelled[look[a]] THEN [seen EXCEPT ![a] = {}] ELSE seen
  /\ UNCHANGED <<poolVars, groupVars, tCurrent, thread, grp, job, runner, prev, dropped>>

(* IsCancelled, one load: a flag that is set ends the test, and the job of *)
(* a cancelled group is not run; else the parent's flag is next.           *)
Check(a) ==
  /\ pc[a] = "check"
  /\ \/ /\ cancelled[look[a]]
        /\ pc' = [pc EXCEPT ![a] = "settle"]
        /\ phase' = [phase EXCEPT ![job[a]] = "skipped"]
        /\ look' = [look EXCEPT ![a] = NoGroup]
        /\ seen' = [seen EXCEPT ![a] = {}]
     \/ /\ ~cancelled[look[a]]
        /\ look' = [look EXCEPT ![a] = parent[look[a]]]
        /\ pc' = IF parent[look[a]] = NoGroup THEN [pc EXCEPT ![a] = "start"] ELSE pc
        /\ UNCHANGED <<phase, seen>>
  /\ UNCHANGED <<poolVars, groupVars, tCurrent, thread, grp, job, runner, prev, dropped>>

(* The test found no flag set.  The body begins, with tCurrent set to the  *)
(* group, whatever has been cancelled since.                               *)
StartBody(a) ==
  /\ pc[a] = "start"
  /\ prev' = [prev EXCEPT ![a] = tCurrent[thread[a]]]
  /\ tCurrent' = [tCurrent EXCEPT ![thread[a]] = grp[a]]
  /\ thread' = [thread EXCEPT ![job[a]] = thread[a]]
  /\ pc' = [pc EXCEPT ![a] = "running", ![job[a]] = "body"]
  /\ phase' = [phase EXCEPT ![job[a]] = "running"]
  /\ seen' = [seen EXCEPT ![a] = {}]
  /\ UNCHANGED <<poolVars, groupVars, look, grp, job, runner, dropped>>

(* The body returns and tCurrent is restored.                              *)
BodyEnds(a) ==
  /\ pc[a] = "running"
  /\ pc[job[a]] = "body"
  /\ tCurrent' = [tCurrent EXCEPT ![thread[a]] = prev[a]]
  /\ prev' = [prev EXCEPT ![a] = NoGroup]
  /\ pc' = [pc EXCEPT ![a] = "settle", ![job[a]] = "ended"]
  /\ phase' = [phase EXCEPT ![job[a]] = "ran"]
  /\ UNCHANGED <<poolVars, testVars, groupVars, thread, grp, job, runner, dropped>>

(* Settles only the jobs that ran.                                         *)
SettleRanOnly(a) ==
  /\ pc[a] = "settle"
  /\ activeJobs' = IF phase[job[a]] = "ran" THEN [activeJobs EXCEPT ![grp[a]] = @ - 1]
                                            ELSE activeJobs
  /\ phase' = [phase EXCEPT ![job[a]] = "settled"]
  /\ job' = [job EXCEPT ![a] = NoJob]
  /\ Return(a, TRUE)
  /\ UNCHANGED <<created, parent, cancelled, pending, testVars, tCurrent, thread, prev,
                 dropped>>

(* activeJobs.fetch_sub(1), without the mutex; the notify that follows     *)
(* ends a sleep that the timeout ends anyway.                              *)
Settle(a) ==
  /\ pc[a] = "settle"
  /\ activeJobs' = [activeJobs EXCEPT ![grp[a]] = @ - 1]
  /\ phase' = [phase EXCEPT ![job[a]] = "settled"]
  /\ job' = [job EXCEPT ![a] = NoJob]
  /\ Return(a, TRUE)
  /\ UNCHANGED <<created, parent, cancelled, pending, testVars, tCurrent, thread, prev,
                 dropped>>

-----------------------------------------------------------------------------
(* Wait, by the code that made the group.                                  *)
Wait(a, g) ==
  /\ pc[a] = "body"
  /\ g \in created /\ a = Creator[g]
  /\ pc' = [pc EXCEPT ![a] = "waitTest"]
  /\ grp' = [grp EXCEPT ![a] = g]
  /\ UNCHANGED <<poolVars, testVars, groupVars, tCurrent, thread, job, runner, prev,
                 dropped, phase>>

(* Takes an empty queue for a finished group.                              *)
WaitTestQueue(a) ==
  /\ pc[a] = "waitTest"
  /\ IF pending[grp[a]] = <<>>
     THEN pc' = [pc EXCEPT ![a] = "body"] /\ grp' = [grp EXCEPT ![a] = NoGroup]
     ELSE pc' = [pc EXCEPT ![a] = "pop"] /\ UNCHANGED grp
  /\ UNCHANGED <<poolVars, testVars, groupVars, tCurrent, thread, job, runner, prev,
                 dropped, phase>>

WaitTest(a) ==
  /\ pc[a] = "waitTest"
  /\ IF activeJobs[grp[a]] = 0
     THEN pc' = [pc EXCEPT ![a] = "body"] /\ grp' = [grp EXCEPT ![a] = NoGroup]
     ELSE pc' = [pc EXCEPT ![a] = "pop"] /\ UNCHANGED grp
  /\ UNCHANGED <<poolVars, testVars, groupVars, tCurrent, thread, job, runner, prev,
                 dropped, phase>>

(* wait_for ends, notified or after its millisecond.                       *)
WaitWake(a) ==
  /\ pc[a] = "waitSleep"
  /\ pc' = [pc EXCEPT ![a] = "waitTest"]
  /\ UNCHANGED <<poolVars, testVars, groupVars, tCurrent, thread, grp, job, runner, prev,
                 dropped,
                 phase>>

(* Cancel, its three steps: the flag, the swap under the mutex, the        *)
(* settlement of what was dropped.  Any code may hold the handle.          *)
Cancel(a, g) ==
  /\ pc[a] = "body"
  /\ g \in created
  /\ cancelled' = [cancelled EXCEPT ![g] = TRUE]
  /\ pc' = [pc EXCEPT ![a] = "flagged"]
  /\ grp' = [grp EXCEPT ![a] = g]
  /\ UNCHANGED <<poolVars, testVars, created, parent, activeJobs, pending, tCurrent,
                 thread, job,
                 runner, prev, dropped, phase>>

CancelSwap(a) ==
  /\ pc[a] = "flagged"
  /\ dropped' = [dropped EXCEPT ![a] = pending[grp[a]]]
  /\ pending' = [pending EXCEPT ![grp[a]] = <<>>]
  /\ phase' = [j \in Jobs |-> IF \E i \in 1 .. Len(pending[grp[a]]) : pending[grp[a]][i] = j
                              THEN "dropped" ELSE phase[j]]
  /\ pc' = [pc EXCEPT ![a] = "swapped"]
  /\ UNCHANGED <<poolVars, testVars, created, parent, activeJobs, cancelled, tCurrent,
                 thread, grp,
                 job, runner, prev>>

CancelSettle(a) ==
  /\ pc[a] = "swapped"
  /\ activeJobs' = [activeJobs EXCEPT ![grp[a]] = @ - Len(dropped[a])]
  /\ phase' = [j \in Jobs |-> IF \E i \in 1 .. Len(dropped[a]) : dropped[a][i] = j
                              THEN "settled" ELSE phase[j]]
  /\ dropped' = [dropped EXCEPT ![a] = <<>>]
  /\ pc' = [pc EXCEPT ![a] = "body"]
  /\ grp' = [grp EXCEPT ![a] = NoGroup]
  /\ UNCHANGED <<poolVars, testVars, created, parent, cancelled, pending, tCurrent, thread,
                 job,
                 runner, prev>>

-----------------------------------------------------------------------------
(* What an actor does on its own, once it is inside one of the operations. *)
Continue(a) == \/ PushPending(a) \/ SubmitRunner(a)
               \/ Pop(a) \/ Check(a) \/ StartBody(a) \/ Settle(a)
               \/ WaitTest(a) \/ WaitWake(a)
               \/ CancelSwap(a) \/ CancelSettle(a)

Next ==
  \/ \E a \in Bodies : \/ \E g \in Groups : CreateGroup(a, g) \/ Wait(a, g) \/ Cancel(a, g)
                       \/ \E j \in Jobs : SubmitJob(a, j)
  \/ \E w \in Workers, j \in Jobs : StartRunner(w, j)
  \/ \E a \in Actors : Continue(a) \/ BodyEnds(a)

Spec == Init /\ [][Next]_vars

(* Threads keep running, the pool starts what it is given (Executor), and  *)
(* the bodies of jobs return: a body that is time and again between two    *)
(* calls does not make calls forever.                                      *)
FairSpec ==
  /\ Spec
  /\ \A a \in Actors : WF_vars(Continue(a)) /\ SF_vars(BodyEnds(a))
  /\ WF_vars(\E w \in Workers, j \in Jobs : StartRunner(w, j))

-----------------------------------------------------------------------------
Unsettled(g) == {j \in Jobs : GroupOf[j] = g /\ phase[j] \notin {"new", "settled"}}

(* "each job's activeJobs count is settled exactly once (popped or         *)
(* dropped)" (job_group.cpp, Cancel): whatever the race between runners,   *)
(* waiters and cancellers, the counter is the number of jobs submitted and *)
(* not yet settled.                                                        *)
CountIsUnsettled == \A g \in Groups : activeJobs[g] = Cardinality(Unsettled(g))

(* Runners take jobs in queue order, not their own, and waiters and        *)
(* Cancel take jobs without a runner.  Still every queue has at least as   *)
(* many runners to come as it has jobs: no job is stranded, even in a      *)
(* group nobody waits for.                                                 *)
RunnersToCome(g) ==
  {j \in Jobs : /\ GroupOf[j] = g
                /\ \/ j \in waiting
                   \/ \E a \in Bodies : pc[a] = "pushed" /\ job[a] = j
                   \/ \E w \in Workers : pc[w] = "pop" /\ runner[w] = j}

NoJobStranded == \A g \in Groups : Len(pending[g]) <= Cardinality(RunnersToCome(g))

(* Saving and restoring tCurrent around bodies that nest on one thread     *)
(* gives each group the parent that its creator belongs to: "a nested      *)
(* group is cancelled together with its parent" (job_group.hpp).           *)
NestingIsRight == \A g \in created : parent[g] = Enclosing(g)

(* Cancellation cascades: a job that is taken from its queue once its      *)
(* group, or a group whose job made that one, at any depth, is cancelled,  *)
(* never begins.  The flags are read one at a time while other threads     *)
(* cancel, so a body may well begin in a group cancelled since its test.   *)
CancelReachesNested ==
  [][\A a \in Actors : pc[a] = "start" /\ pc'[a] = "running" => seen[a] = {}]_vars

(* When Wait returns, no job submitted to the group is queued or in its    *)
(* body on any thread.                                                     *)
WaitMeansDone ==
  [][\A a \in Bodies :
       pc[a] = "waitTest" /\ pc'[a] = "body"
         => \A j \in Jobs : GroupOf[j] = grp[a] => phase[j] \in {"new", "settled"}]_vars

(* Wait returns, also inside jobs that wait for nested groups on every     *)
(* thread of the pool, and whether or not the group is cancelled.          *)
WaitReturns ==
  \A a \in {Creator[g] : g \in Groups} : pc[a] = "waitTest" ~> pc[a] = "body"

(* The state of every group is consistent at every step: its count is      *)
(* exact, its queue has its runners, and its parent is the group it was    *)
(* made in.                                                                *)
GroupsAreSound == CountIsUnsettled /\ NoJobStranded /\ NestingIsRight
=============================================================================
