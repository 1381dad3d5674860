------------------------------ MODULE Executor ------------------------------
(***************************************************************************)
(* What the job scheduler and its thread pool promise to the code above    *)
(* them (job groups, ParallelFor): work handed over is started by some     *)
(* worker, once, and finishes.  JobScheduler is shown to implement this    *)
(* specification; JobGroup is built on it.                                 *)
(***************************************************************************)
CONSTANT Work

VARIABLES waiting,    \* handed over, not started
          running,    \* started by a worker
          finished    \* returned

executorVars == <<waiting, running, finished>>

ExecutorInit == waiting = {} /\ running = {} /\ finished = {}

Submit(w) == /\ w \notin waiting \cup running \cup finished
             /\ waiting' = waiting \cup {w}
             /\ UNCHANGED <<running, finished>>

Start(w) == /\ w \in waiting
            /\ waiting' = waiting \ {w}
            /\ running' = running \cup {w}
            /\ UNCHANGED finished

Finish(w) == /\ w \in running
             /\ running' = running \ {w}
             /\ finished' = finished \cup {w}
             /\ UNCHANGED waiting

ExecutorNext == \E w \in Work : Submit(w) \/ Start(w) \/ Finish(w)

ExecutorSpec ==
  /\ ExecutorInit /\ [][ExecutorNext]_executorVars
  /\ \A w \in Work : WF_executorVars(Start(w)) /\ WF_executorVars(Finish(w))
=============================================================================
