--------------------------- MODULE JobGroupProofs ---------------------------
(***************************************************************************)
(* Proofs about job groups, for any threads, groups and jobs, any nesting  *)
(* of groups and any code that makes and cancels them.                     *)
(*                                                                         *)
(* A job is held by one actor, or is in one queue, at a time; the bodies   *)
(* that nest on a thread are a stack with one actor on top.                *)
(***************************************************************************)
EXTENDS JobGroup, SequenceFilterProofs, TLAPS

HolderPcs == {"counted", "check", "start", "running", "settle"}
GroupPcs == {"pop", "check", "start", "running", "settle", "waitTest", "waitSleep", "flagged", "swapped"}
Pcs == {"unborn", "ended", "idle", "body", "pushed"} \cup HolderPcs \cup GroupPcs
Phases == {"new", "counted", "pending", "popped", "skipped", "running", "ran", "dropped", "settled"}

TypeOK ==
  /\ waiting \subseteq Jobs /\ created \subseteq Groups
  /\ parent \in [Groups -> Groups \cup {NoGroup}]
  /\ cancelled \in [Groups -> BOOLEAN]
  /\ pending \in [Groups -> Seq(Jobs)]
  /\ tCurrent \in [Threads -> Groups \cup {NoGroup}]
  /\ thread \in [Actors -> Threads \cup {NoJob}]
  /\ pc \in [Actors -> Pcs]
  /\ grp \in [Actors -> Groups \cup {NoGroup}]
  /\ job \in [Actors -> Jobs \cup {NoJob}]
  /\ runner \in [Workers -> Jobs \cup {NoJob}]
  /\ prev \in [Actors -> Groups \cup {NoGroup}]
  /\ dropped \in [Bodies -> Seq(Jobs)]
  /\ phase \in [Jobs -> Phases]

(* Workers only run runners; whoever is inside an operation has its group. *)
PcInv ==
  /\ \A w \in Workers : pc[w] \in {"idle", "pop", "check", "start", "running", "settle"}
  /\ \A a \in Bodies : pc[a] # "idle"
  /\ \A a \in Actors : pc[a] \in GroupPcs => grp[a] \in Groups

(* Where the job that an actor holds stands.                               *)
PhasesAt(p) == CASE p = "counted" -> {"counted"} [] p \in {"check", "start"} -> {"popped"}
                 [] p = "running" -> {"running"} [] p = "settle" -> {"skipped", "ran"}

(* A job is in the hands of one actor at most.                             *)
HoldInv ==
  /\ \A a \in Actors : pc[a] \in HolderPcs =>
       job[a] \in Jobs /\ phase[job[a]] \in PhasesAt(pc[a])
  /\ \A a \in Actors : pc[a] \in {"check", "start", "running", "settle"} => grp[a] = GroupOf[job[a]]
  /\ \A a, b \in Actors : pc[a] \in HolderPcs /\ pc[b] \in HolderPcs /\ job[a] = job[b] => a = b

(* A queue has jobs of its group, each once; so has what Cancel dropped.   *)
QueueInv ==
  /\ \A g \in Groups : Distinct(pending[g])
  /\ \A g \in Groups : \A j \in ToSet(pending[g]) : GroupOf[j] = g /\ phase[j] = "pending"

DropInv ==
  /\ \A a \in Bodies : Distinct(dropped[a]) /\ (pc[a] # "swapped" => dropped[a] = <<>>)
  /\ \A a \in Bodies : \A j \in ToSet(dropped[a]) : GroupOf[j] = grp[a] /\ phase[j] = "dropped"
  /\ \A a, b \in Bodies : a # b => ToSet(dropped[a]) \cap ToSet(dropped[b]) = {}

CountInv == activeJobs \in [Groups -> Nat] /\ CountIsUnsettled

(* A runner is handed over after its job has been pushed.                  *)
RunnerInv ==
  /\ \A j \in waiting : phase[j] \notin {"new", "counted"}
  /\ \A a \in Actors : pc[a] = "pushed" =>
       job[a] \in Jobs /\ phase[job[a]] \notin {"new", "counted"}
  /\ \A w \in Workers : pc[w] # "idle" =>
       /\ runner[w] \in Jobs /\ phase[runner[w]] \notin {"new", "counted"}
       /\ grp[w] = GroupOf[runner[w]]

Live(a) == pc[a] \notin {"unborn", "ended"}

(* Of the actors alive on a thread one is on top, and the others wait for  *)
(* the body they called to return.                                         *)
ThreadInv ==
  /\ \A j \in Jobs : Live(j) <=> phase[j] = "running"
  /\ \A a \in Actors : Live(a) => thread[a] \in Threads
  /\ \A a, b \in Actors :
       Live(a) /\ Live(b) /\ thread[a] = thread[b] /\ pc[a] # "running" /\ pc[b] # "running"
         => a = b
  /\ \A a \in Actors : pc[a] = "running" => thread[job[a]] = thread[a]

(* tCurrent is the group of the body on top, prev that of a body below.    *)
OwnGroup(a) == IF a \in Jobs THEN GroupOf[a] ELSE NoGroup

CurrentInv ==
  /\ \A a \in Actors : Live(a) /\ pc[a] # "running" => tCurrent[thread[a]] = OwnGroup(a)
  /\ \A a \in Actors : pc[a] = "running" => prev[a] = OwnGroup(a)

NestInv ==
  /\ NestingIsRight
  /\ \A g \in created : Creator[g] \in Jobs => phase[Creator[g]] # "new"
  /\ \A j \in Jobs : phase[j] # "new" => GroupOf[j] \in created

GroupInv ==
  /\ TypeOK /\ PcInv /\ HoldInv /\ QueueInv /\ DropInv
  /\ CountInv /\ RunnerInv /\ NoJobStranded
  /\ ThreadInv /\ CurrentInv /\ NestInv

-----------------------------------------------------------------------------
LEMMA ActorSets ==
  /\ Clients \subseteq Bodies /\ Jobs \subseteq Bodies /\ Bodies \subseteq Actors
  /\ Workers \subseteq Actors /\ Actors = Bodies \cup Workers
  /\ Workers \cap Bodies = {} /\ Workers \cap Jobs = {}
  /\ Threads \subseteq Actors /\ Threads \cap Jobs = {} /\ Actors = Threads \cup Jobs
  BY GroupAssumption DEF Bodies, Actors, Threads

LEMMA GroupInit == Init => GroupInv
  <1> SUFFICES ASSUME Init PROVE GroupInv
    OBVIOUS
  <1> USE GroupAssumption, ActorSets DEF Init, Pool!ExecutorInit
  <1>1. /\ \A g \in Groups : pending[g] = <<>> /\ ToSet(pending[g]) = {}
        /\ \A a \in Bodies : dropped[a] = <<>> /\ ToSet(dropped[a]) = {}
        /\ <<>> \in Seq(Jobs) /\ Distinct(<<>>)
    BY DEF ToSet, Distinct
  <1>2. TypeOK
    BY <1>1 DEF TypeOK, Pcs, Phases
  <1>3. PcInv /\ HoldInv
    BY DEF PcInv, HoldInv, HolderPcs, GroupPcs, Actors, Threads, Bodies
  <1>4. QueueInv /\ DropInv
    BY <1>1 DEF QueueInv, DropInv
  <1>5. CountInv
    <2>1. \A g \in Groups : Unsettled(g) = {}
      BY DEF Unsettled
    <2> QED
      BY <2>1, FS_EmptySet DEF CountInv, CountIsUnsettled
  <1>6. NoJobStranded
    <2>1. \A g \in Groups : RunnersToCome(g) = {} /\ Len(pending[g]) = 0
      BY <1>1 DEF RunnersToCome, Actors, Threads, Bodies
    <2>2. \A g \in Groups : Cardinality(RunnersToCome(g)) = 0
      BY <2>1, FS_EmptySet
    <2>3. \A g \in Groups : Len(pending[g]) <= Cardinality(RunnersToCome(g))
      BY <2>1, <2>2
    <2> QED
      BY <2>3 DEF NoJobStranded
  <1>7. RunnerInv
    BY DEF RunnerInv, Actors, Threads, Bodies
  <1>8. ThreadInv
    BY DEF ThreadInv, Live, Actors, Threads, Bodies
  <1>9. CurrentInv /\ NestInv
    BY DEF CurrentInv, NestInv, NestingIsRight, OwnGroup, Live, Actors, Threads, Bodies
  <1> QED
    BY <1>2, <1>3, <1>4, <1>5, <1>6, <1>7, <1>8, <1>9 DEF GroupInv

(* The bags that are counted are finite.                                   *)
LEMMA CountedSets ==
  ASSUME NEW g
  PROVE  /\ IsFiniteSet(Unsettled(g)) /\ Cardinality(Unsettled(g)) \in Nat
         /\ IsFiniteSet(RunnersToCome(g)) /\ Cardinality(RunnersToCome(g)) \in Nat
         /\ IsFiniteSet(RunnersToCome(g)') /\ Cardinality(RunnersToCome(g)') \in Nat
  <1>1. Unsettled(g) \subseteq Jobs /\ RunnersToCome(g) \subseteq Jobs /\ RunnersToCome(g)' \subseteq Jobs
    BY DEF Unsettled, RunnersToCome
  <1> QED
    BY <1>1, GroupAssumption, FS_Subset, FS_CardinalityType

LEMMA CountChanges ==
  ASSUME CountInv, NEW g \in Groups, NEW n \in Nat, activeJobs' = [activeJobs EXCEPT ![g] = n],
         Cardinality(Unsettled(g)') = n, \A h \in Groups \ {g} : Unsettled(h)' = Unsettled(h)
  PROVE  CountInv'
  <1>1. activeJobs \in [Groups -> Nat] /\ \A h \in Groups : activeJobs[h] = Cardinality(Unsettled(h))
    BY DEF CountInv, CountIsUnsettled
  <1>2. activeJobs' \in [Groups -> Nat]
    BY <1>1
  <1>3. \A h \in Groups : activeJobs'[h] = Cardinality(Unsettled(h)')
    BY <1>1
  <1> QED
    BY <1>2, <1>3 DEF CountInv, CountIsUnsettled

(* What leaves the queues and the dropped jobs alone leaves them right.    *)
LEMMA SameQueues ==
  ASSUME QueueInv, pending' = pending,
         \A j \in Jobs : phase[j] = "pending" => phase'[j] = "pending", TypeOK
  PROVE  QueueInv'
  <1>1. \A g \in Groups : ToSet(pending[g]) \subseteq Jobs
    <2> SUFFICES ASSUME NEW g \in Groups PROVE ToSet(pending[g]) \subseteq Jobs
      OBVIOUS
    <2>1. pending[g] \in Seq(Jobs)
      BY DEF TypeOK
    <2> QED
      BY <2>1 DEF ToSet
  <1> QED
    BY <1>1 DEF QueueInv

LEMMA SameDropped ==
  ASSUME DropInv, dropped' = dropped, TypeOK,
         \A b \in Bodies : pc[b] = "swapped" => pc'[b] = "swapped" /\ grp'[b] = grp[b],
         \A j \in Jobs : phase[j] = "dropped" => phase'[j] = "dropped"
  PROVE  DropInv'
  <1>1. \A b \in Bodies : ToSet(dropped[b]) \subseteq Jobs
    <2> SUFFICES ASSUME NEW b \in Bodies PROVE ToSet(dropped[b]) \subseteq Jobs
      OBVIOUS
    <2>1. dropped[b] \in Seq(Jobs)
      BY DEF TypeOK
    <2> QED
      BY <2>1 DEF ToSet
  <1>2. \A b \in Bodies : pc'[b] # "swapped" => dropped[b] = <<>>
    BY DEF DropInv
  <1>3. \A b \in Bodies : \A j \in ToSet(dropped[b]) : GroupOf[j] = grp'[b] /\ phase'[j] = "dropped"
    <2> SUFFICES ASSUME NEW b \in Bodies, NEW j \in ToSet(dropped[b])
                 PROVE  GroupOf[j] = grp'[b] /\ phase'[j] = "dropped"
      OBVIOUS
    <2>1. dropped[b] # <<>>
      BY DEF ToSet
    <2> QED
      BY <1>1, <2>1 DEF DropInv
  <1> QED
    BY <1>2, <1>3 DEF DropInv

-----------------------------------------------------------------------------
(* A body constructs a group: it is on top of its thread, so tCurrent is   *)
(* its own group.                                                          *)
LEMMA CreateGroupStep ==
  ASSUME GroupInv, NEW a \in Bodies, NEW g \in Groups, CreateGroup(a, g)
  PROVE  GroupInv'
  <1> USE GroupAssumption, ActorSets DEF GroupInv, CreateGroup, poolVars
  <1>1. Live(a) /\ pc[a] # "running" /\ thread[a] \in Threads
    BY DEF ThreadInv, Live
  <1>2. tCurrent[thread[a]] = OwnGroup(a)
    BY <1>1 DEF CurrentInv
  <1>3. TypeOK'
    BY <1>1 DEF TypeOK
  <1>4. NestInv'
    <2>1. OwnGroup(a) = Enclosing(g)
      BY DEF OwnGroup, Enclosing
    <2>2. a \in Jobs => phase[a] = "running"
      BY <1>1 DEF ThreadInv
    <2> QED
      BY <1>2, <2>1, <2>2 DEF NestInv, NestingIsRight, Enclosing, TypeOK
  <1>5. PcInv' /\ HoldInv' /\ QueueInv' /\ DropInv'
    <2>1. UNCHANGED <<pending, pc, grp, job, dropped, phase>>
      OBVIOUS
    <2>2. PcInv' /\ HoldInv'
      BY <2>1 DEF PcInv, HoldInv
    <2> HIDE DEF CreateGroup
    <2>3. QueueInv'
      BY <2>1 DEF QueueInv
    <2>4. DropInv'
      BY <2>1 DEF DropInv
    <2> QED
      BY <2>2, <2>3, <2>4
  <1>6. CountInv' /\ RunnerInv' /\ NoJobStranded'
    <2>1. \A h \in Groups : Unsettled(h)' = Unsettled(h) /\ RunnersToCome(h)' = RunnersToCome(h)
      BY DEF Unsettled, RunnersToCome
    <2> QED
      BY <2>1 DEF CountInv, CountIsUnsettled, RunnerInv, NoJobStranded
  <1>7. ThreadInv' /\ CurrentInv'
    BY DEF ThreadInv, CurrentInv, Live
  <1> QED
    BY <1>3, <1>4, <1>5, <1>6, <1>7

(* SubmitJob raises the counter for a job that was new.                    *)
LEMMA SubmitJobStep ==
  ASSUME GroupInv, NEW a \in Bodies, NEW j \in Jobs, SubmitJob(a, j)
  PROVE  GroupInv'
  <1> USE GroupAssumption, ActorSets DEF GroupInv, SubmitJob, poolVars
  <1> DEFINE g == GroupOf[j]
  <1>1. TypeOK' /\ PcInv'
    BY DEF TypeOK, PcInv, Pcs, HolderPcs, GroupPcs, Phases
  <1>2. HoldInv'
    <2>1. pc' = [pc EXCEPT ![a] = "counted"] /\ job' = [job EXCEPT ![a] = j]
          /\ phase' = [phase EXCEPT ![j] = "counted"] /\ phase[j] = "new" /\ grp' = grp
      OBVIOUS
    <2>2. \A b \in Actors : pc[b] \in HolderPcs => job[b] # j
      BY <2>1 DEF HoldInv, HolderPcs, PhasesAt
    <2> QED
      BY <2>1, <2>2 DEF HoldInv, HolderPcs, PhasesAt, TypeOK
  <1>3. QueueInv' /\ DropInv'
    BY DEF QueueInv, DropInv, TypeOK
  <1>4. CountInv'
    <2>1. /\ Unsettled(g)' = Unsettled(g) \cup {j} /\ j \notin Unsettled(g)
          /\ \A h \in Groups \ {g} : Unsettled(h)' = Unsettled(h)
      BY DEF Unsettled, TypeOK
    <2>2. Cardinality(Unsettled(g)') = Cardinality(Unsettled(g)) + 1
      BY <2>1, CountedSets, FS_AddElement
    <2>3. g \in Groups /\ activeJobs[g] = Cardinality(Unsettled(g)) /\ activeJobs[g] + 1 \in Nat
      BY CountedSets DEF CountInv, CountIsUnsettled
    <2> HIDE DEF g
    <2>4. activeJobs' = [activeJobs EXCEPT ![g] = activeJobs[g] + 1]
      BY DEF g
    <2> HIDE DEF GroupInv, SubmitJob
    <2>5. CountInv
      BY DEF GroupInv
    <2> QED
      BY <2>1, <2>2, <2>3, <2>4, <2>5, CountChanges
  <1>5. RunnerInv'
    BY DEF RunnerInv, TypeOK, PcInv
  <1>6. NoJobStranded'
    <2>1. \A h \in Groups : RunnersToCome(h)' = RunnersToCome(h)
      BY DEF RunnersToCome, TypeOK, PcInv
    <2> QED
      BY <2>1 DEF NoJobStranded
  <1>7. ThreadInv' /\ CurrentInv'
    BY DEF ThreadInv, CurrentInv, Live, TypeOK
  <1>8. NestInv'
    BY DEF NestInv, NestingIsRight, TypeOK, MaySubmit
  <1> QED
    BY <1>1, <1>2, <1>3, <1>4, <1>5, <1>6, <1>7, <1>8

(* The push: the queue grows by a job whose runner is about to come.       *)
LEMMA PushPendingStep ==
  ASSUME GroupInv, NEW a \in Actors, PushPending(a)
  PROVE  GroupInv'
  <1> USE GroupAssumption, ActorSets DEF GroupInv, PushPending, poolVars
  <1> DEFINE j == job[a]
             g == GroupOf[job[a]]
  <1>1. j \in Jobs /\ g \in Groups /\ phase[j] = "counted" /\ a \in Bodies
    BY DEF HoldInv, HolderPcs, PhasesAt, PcInv
  <1>2. /\ pending \in [Groups -> Seq(Jobs)] /\ pending' = [pending EXCEPT ![g] = Append(pending[g], j)]
        /\ phase \in [Jobs -> Phases] /\ phase' = [phase EXCEPT ![j] = "pending"]
        /\ pc \in [Actors -> Pcs] /\ pc' = [pc EXCEPT ![a] = "pushed"] /\ pc[a] = "counted"
    BY DEF TypeOK
  <1>3. j \notin ToSet(pending[g]) /\ Distinct(pending[g])
    BY <1>1 DEF QueueInv
  <1>4. /\ ToSet(pending'[g]) = ToSet(pending[g]) \cup {j} /\ Distinct(pending'[g])
        /\ Len(pending'[g]) = Len(pending[g]) + 1
        /\ \A h \in Groups \ {g} : pending'[h] = pending[h]
    BY <1>1, <1>2, <1>3, AppendElements
  <1>5. TypeOK' /\ PcInv'
    <2>1. TypeOK'
      BY <1>1, <1>2 DEF TypeOK, Pcs, Phases
    <2>2. PcInv'
      BY <1>1, <1>2 DEF PcInv, HolderPcs, GroupPcs
    <2> QED
      BY <2>1, <2>2
  <1>6. HoldInv'
    <2>1. \A b \in Actors : pc[b] \in HolderPcs /\ b # a => job[b] # j
      BY <1>2 DEF HoldInv, HolderPcs
    <2> QED
      BY <1>1, <1>2, <2>1 DEF HoldInv, HolderPcs
  <1>7. QueueInv'
    BY <1>1, <1>2, <1>4 DEF QueueInv
  <1>8. DropInv'
    <2>1. /\ \A b \in Bodies : pc[b] = "swapped" => pc'[b] = "swapped" /\ grp'[b] = grp[b]
          /\ \A k \in Jobs : phase[k] = "dropped" => phase'[k] = "dropped"
      BY <1>1, <1>2
    <2> QED
      BY <2>1, SameDropped
  <1>9. CountInv'
    <2>1. \A h \in Groups : Unsettled(h)' = Unsettled(h)
      BY <1>1, <1>2 DEF Unsettled
    <2> QED
      BY <2>1 DEF CountInv, CountIsUnsettled
  <1>10. RunnerInv'
    BY <1>1, <1>2 DEF RunnerInv, PcInv
  <1>11. NoJobStranded'
    <2>1. j \notin RunnersToCome(g)
      <3>1. \A k \in RunnersToCome(g) : phase[k] # "counted"
        BY DEF RunnersToCome, RunnerInv
      <3> QED
        BY <1>1, <3>1
    <2>2. RunnersToCome(g)' = RunnersToCome(g) \cup {j}
      BY <1>1, <1>2 DEF RunnersToCome
    <2>3. \A h \in Groups \ {g} : RunnersToCome(h)' = RunnersToCome(h)
      BY <1>1, <1>2 DEF RunnersToCome
    <2>4. Cardinality(RunnersToCome(g)') = Cardinality(RunnersToCome(g)) + 1
      BY <2>1, <2>2, CountedSets, FS_AddElement
    <2>5. \A h \in Groups : Len(pending[h]) \in Nat /\ Len(pending[h]) <= Cardinality(RunnersToCome(h))
      BY <1>2 DEF NoJobStranded
    <2>6. Len(pending'[g]) <= Cardinality(RunnersToCome(g)')
      BY <1>1, <1>4, <2>4, <2>5, CountedSets
    <2>7. \A h \in Groups \ {g} : Len(pending'[h]) <= Cardinality(RunnersToCome(h)')
      BY <1>4, <2>3, <2>5
    <2> QED
      BY <2>6, <2>7 DEF NoJobStranded
  <1>12. ThreadInv' /\ CurrentInv'
    BY <1>1, <1>2 DEF ThreadInv, CurrentInv, Live
  <1>13. NestInv'
    BY <1>1, <1>2 DEF NestInv, NestingIsRight
  <1> QED
    BY <1>5, <1>6, <1>7, <1>8, <1>9, <1>10, <1>11, <1>12, <1>13

(* A runner is handed over, and started: it stays one to come.             *)
LEMMA SubmitRunnerStep ==
  ASSUME GroupInv, NEW a \in Actors, SubmitRunner(a)
  PROVE  GroupInv'
  <1> USE GroupAssumption, ActorSets DEF GroupInv, SubmitRunner, Pool!Submit
  <1>1. /\ job[a] \in Jobs /\ phase[job[a]] \notin {"new", "counted"} /\ a \in Bodies
        /\ pc \in [Actors -> Pcs] /\ pc' = [pc EXCEPT ![a] = "body"] /\ pc[a] = "pushed"
        /\ job \in [Actors -> Jobs \cup {NoJob}] /\ job' = [job EXCEPT ![a] = NoJob]
        /\ UNCHANGED <<groupVars, tCurrent, thread, grp, runner, prev, dropped, phase>>
        /\ waiting' = waiting \cup {job[a]}
    BY DEF RunnerInv, PcInv, TypeOK
  <1>2. TypeOK' /\ PcInv'
    BY <1>1 DEF TypeOK, PcInv, Pcs, HolderPcs, GroupPcs, groupVars
  <1>3. HoldInv'
    BY <1>1 DEF HoldInv, HolderPcs
  <1>4. QueueInv' /\ DropInv'
    <2>1. /\ \A b \in Bodies : pc[b] = "swapped" => pc'[b] = "swapped" /\ grp'[b] = grp[b]
          /\ UNCHANGED <<dropped, pending, phase>>
      BY <1>1 DEF groupVars
    <2> QED
      BY <2>1, SameQueues, SameDropped
  <1>5. CountInv'
    BY <1>1 DEF CountInv, CountIsUnsettled, Unsettled, groupVars
  <1>6. RunnerInv'
    BY <1>1 DEF RunnerInv
  <1>7. NoJobStranded'
    <2>1. \A h \in Groups : RunnersToCome(h)' = RunnersToCome(h)
      BY <1>1 DEF RunnersToCome
    <2> QED
      BY <1>1, <2>1 DEF NoJobStranded, groupVars
  <1>8. ThreadInv' /\ CurrentInv'
    BY <1>1 DEF ThreadInv, CurrentInv, Live
  <1>9. NestInv'
    BY <1>1 DEF NestInv, NestingIsRight, groupVars
  <1> QED
    BY <1>2, <1>3, <1>4, <1>5, <1>6, <1>7, <1>8, <1>9

LEMMA StartRunnerStep ==
  ASSUME GroupInv, NEW w \in Workers, NEW j \in Jobs, StartRunner(w, j)
  PROVE  GroupInv'
  <1> USE GroupAssumption, ActorSets DEF GroupInv, StartRunner, Pool!Start
  <1>1. /\ j \in waiting /\ waiting' = waiting \ {j}
        /\ phase[j] \notin {"new", "counted"}
        /\ pc \in [Actors -> Pcs] /\ pc' = [pc EXCEPT ![w] = "pop"] /\ pc[w] = "idle"
        /\ grp \in [Actors -> Groups \cup {NoGroup}] /\ grp' = [grp EXCEPT ![w] = GroupOf[j]]
        /\ runner \in [Workers -> Jobs \cup {NoJob}] /\ runner' = [runner EXCEPT ![w] = j]
        /\ UNCHANGED <<groupVars, tCurrent, thread, job, prev, dropped, phase>>
        /\ w \in Actors /\ w \notin Bodies
    BY DEF RunnerInv, TypeOK
  <1>2. TypeOK' /\ PcInv'
    BY <1>1 DEF TypeOK, PcInv, Pcs, HolderPcs, GroupPcs, groupVars
  <1>3. HoldInv'
    BY <1>1 DEF HoldInv, HolderPcs
  <1>4. QueueInv' /\ DropInv'
    <2>1. /\ \A b \in Bodies : pc[b] = "swapped" => pc'[b] = "swapped" /\ grp'[b] = grp[b]
          /\ UNCHANGED <<dropped, pending, phase>>
      BY <1>1 DEF groupVars
    <2> QED
      BY <2>1, SameQueues, SameDropped
  <1>5. CountInv'
    BY <1>1 DEF CountInv, CountIsUnsettled, Unsettled, groupVars
  <1>6. RunnerInv'
    BY <1>1 DEF RunnerInv
  <1>7. NoJobStranded'
    <2>1. \A h \in Groups : RunnersToCome(h)' = RunnersToCome(h)
      BY <1>1 DEF RunnersToCome
    <2> QED
      BY <1>1, <2>1 DEF NoJobStranded, groupVars
  <1>8. ThreadInv' /\ CurrentInv'
    BY <1>1 DEF ThreadInv, CurrentInv, Live
  <1>9. NestInv'
    BY <1>1 DEF NestInv, NestingIsRight, groupVars
  <1> QED
    BY <1>2, <1>3, <1>4, <1>5, <1>6, <1>7, <1>8, <1>9

-----------------------------------------------------------------------------
(* RunOnePending takes a job: one runner and one job fewer.                *)
LEMMA PopTakesStep ==
  ASSUME GroupInv, NEW a \in Actors, Pop(a), pending[grp[a]] # <<>>
  PROVE  GroupInv'
  <1> USE GroupAssumption, ActorSets DEF GroupInv
  <1> PICK g \in Groups : g = grp[a] /\ pc[a] = "pop" /\ pending[g] # <<>>
    BY DEF Pop, PcInv, GroupPcs
  <1> PICK j : j = Head(pending[g])
    OBVIOUS
  <1>1. /\ g \in Groups /\ pc[a] = "pop"
        /\ pc \in [Actors -> Pcs] /\ pc' = [pc EXCEPT ![a] = "check"]
        /\ job \in [Actors -> Jobs \cup {NoJob}] /\ job' = [job EXCEPT ![a] = j]
        /\ pending \in [Groups -> Seq(Jobs)] /\ pending' = [pending EXCEPT ![g] = Tail(pending[g])]
        /\ phase \in [Jobs -> Phases] /\ phase' = [phase EXCEPT ![j] = "popped"]
        /\ UNCHANGED <<waiting, created, parent, activeJobs, cancelled, tCurrent, thread, grp,
                       runner, prev, dropped>>
    BY DEF Pop, TypeOK, PcInv, GroupPcs, poolVars
  <1>2. /\ j \in Jobs /\ Tail(pending[g]) \in Seq(Jobs)
        /\ Distinct(Tail(pending[g])) /\ Len(pending[g]) = Len(Tail(pending[g])) + 1
        /\ ToSet(pending[g]) = ToSet(Tail(pending[g])) \cup {j}
        /\ j \notin ToSet(Tail(pending[g]))
    <2>1. pending[g] \in Seq(Jobs) /\ Distinct(pending[g]) /\ pending[g] # <<>>
      BY <1>1 DEF QueueInv
    <2> QED
      BY <2>1, TailElements
  <1>3. phase[j] = "pending" /\ GroupOf[j] = g /\ grp[a] = g
    <2>1. j \in ToSet(pending[g])
      BY <1>2
    <2>2. phase[j] = "pending" /\ GroupOf[j] = g
      BY <1>1, <2>1 DEF QueueInv
    <2> QED
      BY <2>2
  <1>4. TypeOK'
    BY <1>1, <1>2 DEF TypeOK, Pcs, HolderPcs, Phases
  <1>5. PcInv'
    BY <1>1 DEF PcInv, GroupPcs
  <1>6. HoldInv'
    <2>1. \A b \in Actors : pc[b] \in HolderPcs => job[b] # j
      BY <1>3 DEF HoldInv, PhasesAt, HolderPcs
    <2>2. HoldInv
      OBVIOUS
    <2> HIDE DEF GroupInv
    <2>3. /\ pc'[a] = "check" /\ job'[a] = j /\ phase'[j] = "popped" /\ grp' = grp
          /\ \A b \in Actors \ {a} : pc'[b] = pc[b] /\ job'[b] = job[b]
          /\ \A k \in Jobs \ {j} : phase'[k] = phase[k]
      BY <1>1, <1>2
    <2>4. ASSUME NEW b \in Actors, pc'[b] \in HolderPcs
          PROVE  job'[b] \in Jobs /\ phase'[job'[b]] \in PhasesAt(pc'[b])
      <3>1. CASE b = a
        BY <1>2, <2>3, <3>1 DEF PhasesAt
      <3>2. CASE b # a
        <4>1. job'[b] = job[b] /\ pc'[b] = pc[b] /\ job[b] \in Jobs /\ job[b] # j
              /\ phase[job[b]] \in PhasesAt(pc[b])
          BY <2>1, <2>2, <2>3, <2>4, <3>2 DEF HoldInv
        <4> QED
          BY <2>3, <4>1
      <3> QED
        BY <3>1, <3>2
    <2>5. ASSUME NEW b \in Actors, pc'[b] \in {"check", "start", "running", "settle"}
          PROVE  grp'[b] = GroupOf[job'[b]]
      BY <1>3, <2>2, <2>3, <2>5 DEF HoldInv
    <2>6. ASSUME NEW b \in Actors, NEW c \in Actors, pc'[b] \in HolderPcs, pc'[c] \in HolderPcs,
                 job'[b] = job'[c]
          PROVE  b = c
      BY <2>1, <2>2, <2>3, <2>6 DEF HoldInv
    <2> QED
      BY <2>4, <2>5, <2>6 DEF HoldInv
  <1>7. QueueInv'
    <2>1. pending'[g] = Tail(pending[g]) /\ \A h \in Groups \ {g} : pending'[h] = pending[h]
      BY <1>1
    <2>2. \A h \in Groups \ {g} : j \notin ToSet(pending[h])
      BY <1>3 DEF QueueInv
    <2>3. \A k \in Jobs \ {j} : phase'[k] = phase[k]
      BY <1>1
    <2>4. \A h \in Groups : ToSet(pending[h]) \subseteq Jobs
      <3> SUFFICES ASSUME NEW h \in Groups PROVE ToSet(pending[h]) \subseteq Jobs
        OBVIOUS
      <3>1. pending[h] \in Seq(Jobs)
        BY <1>1
      <3> QED
        BY <3>1 DEF ToSet
    <2>5. Distinct(pending'[g]) /\ \A k \in ToSet(pending'[g]) : GroupOf[k] = g /\ phase'[k] = "pending"
      <3>1. \A k \in ToSet(Tail(pending[g])) : k # j /\ k \in ToSet(pending[g]) /\ k \in Jobs
        BY <1>2, <2>4
      <3>2. \A k \in ToSet(Tail(pending[g])) : GroupOf[k] = g /\ phase'[k] = "pending"
        BY <2>3, <3>1 DEF QueueInv
      <3> QED
        BY <1>2, <2>1, <3>2
    <2>6. \A h \in Groups \ {g} : Distinct(pending'[h])
              /\ \A k \in ToSet(pending'[h]) : GroupOf[k] = h /\ phase'[k] = "pending"
      BY <2>1, <2>2, <2>3, <2>4 DEF QueueInv
    <2> QED
      BY <2>5, <2>6 DEF QueueInv
  <1>8. DropInv'
    <2>1. /\ \A b \in Bodies : pc[b] = "swapped" => pc'[b] = "swapped" /\ grp'[b] = grp[b]
          /\ \A k \in Jobs : phase[k] = "dropped" => phase'[k] = "dropped"
          /\ dropped' = dropped
      BY <1>1, <1>3
    <2> QED
      BY <2>1, SameDropped
  <1>9. CountInv'
    <2>1. \A h \in Groups : Unsettled(h)' = Unsettled(h)
      BY <1>1, <1>2, <1>3 DEF Unsettled
    <2> QED
      BY <1>1, <2>1 DEF CountInv, CountIsUnsettled
  <1>10. RunnerInv'
    BY <1>1, <1>2 DEF RunnerInv
  <1>11. NoJobStranded'
    <2>1. \A h \in Groups \ {g} : RunnersToCome(h) \subseteq RunnersToCome(h)'
      <3> SUFFICES ASSUME NEW h \in Groups \ {g}, NEW k \in RunnersToCome(h)
                   PROVE  k \in RunnersToCome(h)'
        OBVIOUS
      <3>1. ~ (a \in Workers /\ runner[a] = k)
        BY <1>1 DEF RunnersToCome, RunnerInv
      <3> QED
        BY <1>1, <3>1 DEF RunnersToCome
    <2>2. RunnersToCome(g) \subseteq RunnersToCome(g)' \cup {IF a \in Workers THEN runner[a] ELSE NoJob}
      <3> SUFFICES ASSUME NEW k \in RunnersToCome(g), ~ (a \in Workers /\ runner[a] = k)
                   PROVE  k \in RunnersToCome(g)'
        OBVIOUS
      <3> QED
        BY <1>1 DEF RunnersToCome
    <2>3. Cardinality(RunnersToCome(g)) <= Cardinality(RunnersToCome(g)') + 1
      <3> DEFINE S == RunnersToCome(g)
                 T == RunnersToCome(g)'
                 x == IF a \in Workers THEN runner[a] ELSE NoJob
      <3>1. /\ IsFiniteSet(T) /\ Cardinality(T) \in Nat /\ IsFiniteSet(S) /\ Cardinality(S) \in Nat
            /\ S \subseteq T \cup {x}
        BY <2>2, CountedSets
      <3> HIDE DEF S, T, x
      <3>2. /\ IsFiniteSet(T \cup {x}) /\ Cardinality(T \cup {x}) \in Nat
            /\ Cardinality(T \cup {x}) <= Cardinality(T) + 1
        <4>1. /\ IsFiniteSet(T \cup {x})
              /\ Cardinality(T \cup {x}) = IF x \in T THEN Cardinality(T) ELSE Cardinality(T) + 1
          BY <3>1, FS_AddElement
        <4> QED
          BY <3>1, <4>1
      <3>3. Cardinality(S) <= Cardinality(T \cup {x})
        BY <3>1, <3>2, FS_Subset
      <3>4. Cardinality(S) <= Cardinality(T) + 1
        BY <3>1, <3>2, <3>3
      <3> QED
        BY <3>4 DEF S, T
    <2>4. \A h \in Groups : Len(pending[h]) \in Nat /\ Len(pending[h]) <= Cardinality(RunnersToCome(h))
      BY <1>1 DEF NoJobStranded
    <2>5. Len(pending'[g]) <= Cardinality(RunnersToCome(g)')
      <3>1. pending'[g] = Tail(pending[g]) /\ Len(Tail(pending[g])) \in Nat
        BY <1>1, <1>2
      <3> QED
        BY <1>1, <1>2, <2>3, <2>4, <3>1, CountedSets
    <2>6. \A h \in Groups \ {g} : Len(pending'[h]) <= Cardinality(RunnersToCome(h)')
      <3> TAKE h \in Groups \ {g}
      <3>1. Cardinality(RunnersToCome(h)) <= Cardinality(RunnersToCome(h)')
        BY <2>1, CountedSets, FS_Subset
      <3>2. pending'[h] = pending[h]
        BY <1>1
      <3> QED
        BY <2>4, <3>1, <3>2, CountedSets
    <2> QED
      BY <2>5, <2>6 DEF NoJobStranded
  <1>12. ThreadInv' /\ CurrentInv'
    <2>1. /\ \A b \in Actors : Live(b)' = Live(b) /\ (pc'[b] = "running" <=> pc[b] = "running")
          /\ \A k \in Jobs : phase'[k] = "running" <=> phase[k] = "running"
          /\ \A b \in Actors : pc[b] = "running" => job'[b] = job[b]
      BY <1>1, <1>2, <1>3 DEF Live
    <2> QED
      BY <1>1, <2>1 DEF ThreadInv, CurrentInv
  <1>13. NestInv'
    BY <1>1, <1>2, <1>3 DEF NestInv, NestingIsRight
  <1> QED
    BY <1>4, <1>5, <1>6, <1>7, <1>8, <1>9, <1>10, <1>11, <1>12, <1>13

(* RunOnePending returns, to a worker's loop or to Wait's.                 *)
LEMMA ReturnEffect ==
  ASSUME GroupInv, NEW a \in Actors, NEW ran, Return(a, ran), pc[a] \in {"pop", "settle"}
  PROVE  /\ waiting' = waiting
         /\ pc'[a] \in {"idle", "waitTest", "waitSleep"} /\ (pc'[a] = "idle" <=> a \in Workers)
         /\ pc' = [pc EXCEPT ![a] = pc'[a]]
         /\ grp'[a] \in Groups \cup {NoGroup} /\ (a \in Bodies => grp'[a] = grp[a])
         /\ grp' = [grp EXCEPT ![a] = grp'[a]]
         /\ runner' \in [Workers -> Jobs \cup {NoJob}]
         /\ \A w \in Workers : w # a => runner'[w] = runner[w]
  <1> USE ActorSets
  <1>1. /\ pc \in [Actors -> Pcs] /\ grp \in [Actors -> Groups \cup {NoGroup}]
        /\ runner \in [Workers -> Jobs \cup {NoJob}]
    BY DEF GroupInv, TypeOK
  <1>2. CASE a \in Workers
    BY <1>1, <1>2 DEF Return, Pool!Finish
  <1>3. CASE a \notin Workers
    <2>1. pc' = [pc EXCEPT ![a] = IF ran THEN "waitTest" ELSE "waitSleep"]
          /\ UNCHANGED <<waiting, runner, grp>>
      BY <1>3 DEF Return, poolVars
    <2> QED
      BY <1>1, <1>3, <2>1
  <1> QED
    BY <1>2, <1>3

(* A call that finds the queue empty, or is done with its job, returns:    *)
(* what it leaves as it was, and how the phase of its job may have changed.*)
LEMMA ReturnKeeps ==
  ASSUME GroupInv, NEW a \in Actors, NEW ran, Return(a, ran), pc[a] \in {"pop", "settle"},
         UNCHANGED <<created, parent, cancelled, pending, tCurrent, thread, prev, dropped>>,
         phase' = IF pc[a] = "settle" THEN [phase EXCEPT ![job[a]] = "settled"] ELSE phase,
         \A b \in Actors \ {a} : job'[b] = job[b], job' \in [Actors -> Jobs \cup {NoJob}],
         pc[a] = "pop" => pending[grp[a]] = <<>>, CountInv'
  PROVE  GroupInv'
  <1> USE GroupAssumption, ActorSets
  <1>0. TypeOK /\ PcInv /\ HoldInv /\ QueueInv /\ DropInv /\ CountInv /\ RunnerInv /\ NoJobStranded
        /\ ThreadInv /\ CurrentInv /\ NestInv
    BY DEF GroupInv
  <1>1. /\ waiting' = waiting
        /\ pc'[a] \in {"idle", "waitTest", "waitSleep"} /\ (pc'[a] = "idle" <=> a \in Workers)
        /\ pc' = [pc EXCEPT ![a] = pc'[a]]
        /\ grp'[a] \in Groups \cup {NoGroup} /\ (a \in Bodies => grp'[a] = grp[a])
        /\ grp' = [grp EXCEPT ![a] = grp'[a]]
        /\ runner' \in [Workers -> Jobs \cup {NoJob}]
        /\ \A w \in Workers : w # a => runner'[w] = runner[w]
    BY ReturnEffect
  <1>2. /\ pc \in [Actors -> Pcs] /\ grp \in [Actors -> Groups \cup {NoGroup}]
        /\ phase \in [Jobs -> Phases]
        /\ pc' \in [Actors -> Pcs] /\ grp' \in [Actors -> Groups \cup {NoGroup}]
        /\ \A b \in Actors \ {a} : pc'[b] = pc[b] /\ grp'[b] = grp[b]
    <2>1. pc'[a] \in Pcs
      BY <1>1 DEF Pcs, HolderPcs, GroupPcs
    <2>2. PICK p \in Pcs, h \in Groups \cup {NoGroup} :
            pc' = [pc EXCEPT ![a] = p] /\ grp' = [grp EXCEPT ![a] = h]
      BY <1>1, <2>1
    <2> QED
      BY <1>0, <2>2 DEF TypeOK
  <1>3. /\ phase' \in [Jobs -> Phases]
        /\ \A j \in Jobs : phase'[j] = phase[j] \/ (j = job[a] /\ pc[a] = "settle"
                             /\ phase[j] \in {"skipped", "ran"} /\ phase'[j] = "settled")
    <2>1. pc[a] = "settle" => job[a] \in Jobs /\ phase[job[a]] \in {"skipped", "ran"}
      BY <1>0 DEF HoldInv, HolderPcs, PhasesAt
    <2> QED
      BY <1>2, <2>1 DEF Phases
  <1>4. TypeOK'
    BY <1>0, <1>1, <1>2, <1>3 DEF TypeOK
  <1>5. PcInv'
    BY <1>0, <1>1, <1>2 DEF PcInv, GroupPcs
  <1>6. HoldInv'
    <2>1. \A b \in Actors : pc'[b] \in HolderPcs =>
             b # a /\ pc'[b] = pc[b] /\ job'[b] = job[b] /\ grp'[b] = grp[b]
      BY <1>1, <1>2 DEF HolderPcs
    <2>2. \A b \in Actors : pc'[b] \in HolderPcs => phase'[job[b]] = phase[job[b]]
      BY <1>0, <1>3, <2>1 DEF HoldInv, HolderPcs
    <2> QED
      BY <1>0, <2>1, <2>2 DEF HoldInv, HolderPcs
  <1>7. QueueInv' /\ DropInv'
    <2>1. /\ \A b \in Bodies : pc[b] = "swapped" => pc'[b] = "swapped" /\ grp'[b] = grp[b]
          /\ \A j \in Jobs : phase[j] \in {"dropped", "pending"} => phase'[j] = phase[j]
      BY <1>2, <1>3
    <2> QED
      BY <1>0, <2>1, SameQueues, SameDropped
  <1>8. RunnerInv'
    <2>1. \A j \in Jobs : phase[j] \notin {"new", "counted"} => phase'[j] \notin {"new", "counted"}
      BY <1>3
    <2>2. \A j \in waiting : j \in Jobs
      BY <1>0 DEF TypeOK
    <2> QED
      BY <1>0, <1>1, <1>2, <2>1, <2>2 DEF RunnerInv
  <1>9. NoJobStranded'
    <2>1. \A h \in Groups : pending[h] # <<>> => RunnersToCome(h) \subseteq RunnersToCome(h)'
      <3> SUFFICES ASSUME NEW h \in Groups, pending[h] # <<>>, NEW j \in RunnersToCome(h)
                   PROVE  j \in RunnersToCome(h)'
        OBVIOUS
      <3>1. ~ (a \in Workers /\ pc[a] = "pop" /\ runner[a] = j)
        BY <1>0 DEF RunnersToCome, RunnerInv
      <3> QED
        BY <1>1, <1>2, <3>1 DEF RunnersToCome
    <2>2. \A h \in Groups : Len(pending[h]) \in Nat /\ Len(pending[h]) <= Cardinality(RunnersToCome(h))
      BY <1>0 DEF NoJobStranded, TypeOK
    <2>3. \A h \in Groups : Len(pending[h]) <= Cardinality(RunnersToCome(h)')
      <3> TAKE h \in Groups
      <3>1. CASE pending[h] # <<>>
        <4>1. Cardinality(RunnersToCome(h)) <= Cardinality(RunnersToCome(h)')
          BY <2>1, <3>1, CountedSets, FS_Subset
        <4> QED
          BY <2>2, <4>1, CountedSets
      <3>2. CASE pending[h] = <<>>
        BY <3>2, CountedSets
      <3> QED
        BY <3>1, <3>2
    <2> QED
      BY <2>3 DEF NoJobStranded
  <1>10. ThreadInv' /\ CurrentInv'
    <2>1. /\ \A b \in Actors : Live(b)' = Live(b) /\ (pc'[b] = "running" <=> pc[b] = "running")
          /\ \A j \in Jobs : phase'[j] = "running" <=> phase[j] = "running"
          /\ \A b \in Actors : pc[b] = "running" => job'[b] = job[b]
      BY <1>1, <1>2, <1>3 DEF Live
    <2> QED
      BY <1>0, <2>1 DEF ThreadInv, CurrentInv
  <1>11. NestInv'
    <2>1. \A j \in Jobs : phase'[j] # "new" <=> phase[j] # "new"
      BY <1>3
    <2> QED
      BY <1>0, <2>1 DEF NestInv, NestingIsRight
  <1> QED
    BY <1>4, <1>5, <1>6, <1>7, <1>8, <1>9, <1>10, <1>11 DEF GroupInv

LEMMA PopNothingStep ==
  ASSUME GroupInv, NEW a \in Actors, Pop(a), pending[grp[a]] = <<>>
  PROVE  GroupInv'
  <1>1. /\ pc[a] = "pop" /\ Return(a, FALSE)
        /\ UNCHANGED <<created, parent, activeJobs, cancelled, pending, tCurrent, thread, prev,
                       dropped, job, phase>>
    BY DEF Pop
  <1>2. CountInv'
    <2>1. \A h \in Groups : Unsettled(h)' = Unsettled(h)
      BY <1>1 DEF Unsettled
    <2> QED
      BY <1>1, <2>1 DEF CountInv, CountIsUnsettled, GroupInv
  <1>3. job' \in [Actors -> Jobs \cup {NoJob}]
    BY <1>1 DEF GroupInv, TypeOK
  <1> QED
    BY <1>1, <1>2, <1>3, ReturnKeeps

(* activeJobs.fetch_sub(1): the job that the caller holds is settled.      *)
LEMMA SettleStep ==
  ASSUME GroupInv, NEW a \in Actors, Settle(a)
  PROVE  GroupInv'
  <1> USE GroupAssumption
  <1>1. /\ pc[a] = "settle" /\ Return(a, TRUE)
        /\ UNCHANGED <<created, parent, cancelled, pending, tCurrent, thread, prev, dropped>>
        /\ activeJobs' = [activeJobs EXCEPT ![grp[a]] = activeJobs[grp[a]] - 1]
        /\ phase' = [phase EXCEPT ![job[a]] = "settled"]
        /\ job' = [job EXCEPT ![a] = NoJob]
    BY DEF Settle
  <1>2. /\ job[a] \in Jobs /\ phase[job[a]] \in {"skipped", "ran"} /\ grp[a] = GroupOf[job[a]]
        /\ phase \in [Jobs -> Phases] /\ job \in [Actors -> Jobs \cup {NoJob}]
    BY <1>1 DEF GroupInv, HoldInv, HolderPcs, PhasesAt, TypeOK
  <1> PICK j \in Jobs, g \in Groups : j = job[a] /\ g = GroupOf[j]
    BY <1>2
  <1>3. CountInv'
    <2>1. /\ Unsettled(g)' = Unsettled(g) \ {j} /\ j \in Unsettled(g)
          /\ \A h \in Groups \ {g} : Unsettled(h)' = Unsettled(h)
      BY <1>1, <1>2 DEF Unsettled
    <2>2. Cardinality(Unsettled(g)') = Cardinality(Unsettled(g)) - 1
      <3>1. /\ IsFiniteSet(Unsettled(g)) /\ Cardinality(Unsettled(g)) \in Nat
            /\ j \in Unsettled(g)
        BY <2>1, CountedSets
      <3>2. Cardinality(Unsettled(g) \ {j}) = Cardinality(Unsettled(g)) - 1
        BY <3>1, FS_RemoveElement
      <3> QED
        BY <2>1, <3>2
    <2>3. IsFiniteSet(Unsettled(g)') /\ Cardinality(Unsettled(g)') \in Nat
      BY <2>1, CountedSets, FS_RemoveElement, FS_CardinalityType
    <2>4. activeJobs[g] = Cardinality(Unsettled(g)) /\ CountInv
      BY DEF GroupInv, CountInv, CountIsUnsettled
    <2>5. activeJobs' = [activeJobs EXCEPT ![g] = activeJobs[g] - 1] /\ activeJobs[g] - 1 \in Nat
      BY <1>1, <1>2, <2>2, <2>3, <2>4
    <2> QED
      BY <2>1, <2>2, <2>4, <2>5, CountChanges
  <1>4. job' \in [Actors -> Jobs \cup {NoJob}]
        /\ \A b \in Actors \ {a} : job'[b] = job[b]
    BY <1>1, <1>2
  <1> QED
    BY <1>1, <1>3, <1>4, ReturnKeeps

-----------------------------------------------------------------------------
(* A job that an actor has taken is not alive yet, and the actor is on top.*)
LEMMA CheckStep ==
  ASSUME GroupInv, NEW a \in Actors, Check(a)
  PROVE  GroupInv'
  <1> USE GroupAssumption, ActorSets DEF GroupInv
  <1>0. /\ job[a] \in Jobs /\ phase[job[a]] = "popped" /\ grp[a] = GroupOf[job[a]] /\ pc[a] = "check"
    BY DEF Check, HoldInv, HolderPcs, PhasesAt
  <1> PICK j \in Jobs : j = job[a]
    BY <1>0
  <1>1. pc \in [Actors -> Pcs] /\ phase \in [Jobs -> Phases]
    BY DEF TypeOK
  <1>2. /\ UNCHANGED <<waiting, groupVars, tCurrent, thread, prev, grp, job, runner, dropped>>
        /\ created' = created /\ parent' = parent /\ activeJobs' = activeJobs
        /\ cancelled' = cancelled /\ pending' = pending
    BY DEF Check, poolVars, groupVars
  <1>3. /\ Live(a) /\ pc[j] \in {"unborn", "ended"}
    BY <1>0 DEF ThreadInv, Live
  <1>4. \A b \in Actors \ {a} : pc[b] \in HolderPcs => job[b] # j
    BY <1>0 DEF HoldInv, HolderPcs
  <1>5. \/ pc' = [pc EXCEPT ![a] = "settle"] /\ phase' = [phase EXCEPT ![j] = "skipped"]
        \/ pc' = [pc EXCEPT ![a] = "start"] /\ phase' = phase
        \/ pc' = pc /\ phase' = phase
    BY DEF Check
  <1>6. /\ pc' \in [Actors -> Pcs] /\ phase' \in [Jobs -> Phases]
        /\ \A b \in Actors \ {a} : pc'[b] = pc[b]
        /\ \A k \in Jobs \ {j} : phase'[k] = phase[k]
        /\ pc'[a] \in {"check", "start", "settle"} /\ phase'[j] \in PhasesAt(pc'[a])
        /\ phase'[j] \in {"popped", "skipped"}
    BY <1>0, <1>1, <1>5 DEF Pcs, HolderPcs, Phases, PhasesAt
  <1>7. TypeOK'
    BY <1>2, <1>6 DEF TypeOK
  <1>8. PcInv'
    <2>1. \A w \in Workers : pc'[w] \in {"idle", "pop", "check", "start", "running", "settle"}
      BY <1>6 DEF PcInv
    <2>2. \A b \in Bodies : pc'[b] # "idle"
      BY <1>6 DEF PcInv
    <2>3. \A b \in Actors : pc'[b] \in GroupPcs => grp'[b] \in Groups
      BY <1>0, <1>2, <1>6 DEF PcInv
    <2> QED
      BY <2>1, <2>2, <2>3 DEF PcInv
  <1>9. HoldInv'
    <2>1. \A b \in Actors : pc'[b] \in HolderPcs => b = a \/ (pc'[b] = pc[b] /\ phase'[job[b]] = phase[job[b]])
      <3> SUFFICES ASSUME NEW b \in Actors \ {a}, pc[b] \in HolderPcs PROVE phase'[job[b]] = phase[job[b]]
        BY <1>6
      <3>1. job[b] \in Jobs \ {j}
        BY <1>4 DEF HoldInv
      <3> QED
        BY <1>6, <3>1
    <2> QED
      BY <1>0, <1>2, <1>6, <2>1 DEF HoldInv, HolderPcs
  <1>10. QueueInv' /\ DropInv'
    <2>1. /\ \A b \in Bodies : pc[b] = "swapped" => pc'[b] = "swapped" /\ grp'[b] = grp[b]
          /\ \A k \in Jobs : phase[k] \in {"dropped", "pending"} => phase'[k] = phase[k]
          /\ dropped' = dropped
      BY <1>0, <1>2, <1>6
    <2> QED
      BY <1>2, <2>1, SameQueues, SameDropped
  <1>11. CountInv'
    <2>1. \A h \in Groups : Unsettled(h)' = Unsettled(h)
      BY <1>0, <1>6 DEF Unsettled
    <2> QED
      BY <1>2, <2>1 DEF CountInv, CountIsUnsettled
  <1>12. \A k \in Jobs : phase'[k] \in {"new", "counted"} <=> phase[k] \in {"new", "counted"}
    BY <1>0, <1>6
  <1>13. RunnerInv'
    <2>1. /\ \A b \in Actors : pc'[b] = "pushed" => pc[b] = "pushed"
          /\ \A w \in Workers : pc'[w] # "idle" => pc[w] # "idle"
      BY <1>0, <1>6
    <2> QED
      BY <1>2, <1>12, <2>1 DEF RunnerInv, TypeOK
  <1>14. NoJobStranded'
    <2>1. /\ \A b \in Actors : pc'[b] = "pushed" <=> pc[b] = "pushed"
          /\ \A w \in Workers : pc'[w] = "pop" <=> pc[w] = "pop"
      BY <1>0, <1>6
    <2>2. \A h \in Groups : RunnersToCome(h)' = RunnersToCome(h)
      BY <1>2, <2>1 DEF RunnersToCome
    <2> QED
      BY <1>2, <2>2 DEF NoJobStranded
  <1>15. ThreadInv' /\ CurrentInv'
    <2>1. /\ \A b \in Actors : Live(b)' = Live(b) /\ (pc'[b] = "running" <=> pc[b] = "running")
          /\ \A k \in Jobs : phase'[k] = "running" <=> phase[k] = "running"
      BY <1>0, <1>6 DEF Live
    <2> QED
      BY <1>2, <2>1 DEF ThreadInv, CurrentInv
  <1>16. NestInv'
    <2>1. \A k \in Jobs : phase'[k] # "new" <=> phase[k] # "new"
      BY <1>0, <1>6
    <2> QED
      BY <1>2, <2>1 DEF NestInv, NestingIsRight
  <1> QED
    BY <1>7, <1>8, <1>9, <1>10, <1>11, <1>13, <1>14, <1>15, <1>16

(* A body that begins was not alive, and is on top of its thread.          *)
LEMMA StartBodyStep ==
  ASSUME GroupInv, NEW a \in Actors, StartBody(a)
  PROVE  GroupInv'
  <1> USE GroupAssumption, ActorSets DEF GroupInv
  <1>0. /\ job[a] \in Jobs /\ phase[job[a]] = "popped" /\ grp[a] = GroupOf[job[a]] /\ pc[a] = "start"
    BY DEF StartBody, HoldInv, HolderPcs, PhasesAt
  <1> PICK j \in Jobs : j = job[a]
    BY <1>0
  <1>1. /\ pc \in [Actors -> Pcs] /\ phase \in [Jobs -> Phases] /\ thread \in [Actors -> Threads \cup {NoJob}]
        /\ tCurrent \in [Threads -> Groups \cup {NoGroup}] /\ prev \in [Actors -> Groups \cup {NoGroup}]
        /\ grp[a] \in Groups
    BY <1>0 DEF TypeOK
  <1>2. /\ UNCHANGED <<waiting, groupVars, grp, job, runner, dropped>>
        /\ created' = created /\ parent' = parent /\ activeJobs' = activeJobs
        /\ cancelled' = cancelled /\ pending' = pending
    BY DEF StartBody, poolVars, groupVars
  <1>3. /\ Live(a) /\ ~Live(j) /\ a # j /\ thread[a] \in Threads
        /\ pc[j] \in {"unborn", "ended"}
    BY <1>0 DEF ThreadInv, Live
  <1>4. \A b \in Actors \ {a} : pc[b] \in HolderPcs => job[b] # j
    BY <1>0 DEF HoldInv, HolderPcs
  <1>5. phase' = [phase EXCEPT ![j] = "running"]
    BY DEF StartBody
  <1>6. /\ \A b \in Actors \ {a, j} : pc'[b] = pc[b]
        /\ pc' \in [Actors -> Pcs]
        /\ pc'[a] = "running" /\ pc'[j] = "body"
        /\ prev' = [prev EXCEPT ![a] = tCurrent[thread[a]]]
        /\ tCurrent' = [tCurrent EXCEPT ![thread[a]] = grp[a]]
        /\ thread' = [thread EXCEPT ![j] = thread[a]]
    <2>1. /\ pc' = [pc EXCEPT ![a] = "running", ![j] = "body"]
          /\ prev' = [prev EXCEPT ![a] = tCurrent[thread[a]]]
          /\ tCurrent' = [tCurrent EXCEPT ![thread[a]] = grp[a]]
          /\ thread' = [thread EXCEPT ![j] = thread[a]]
      BY DEF StartBody
    <2> QED
      BY <1>1, <1>3, <2>1 DEF Pcs, HolderPcs
  <1>7. TypeOK'
    <2>1. prev' \in [Actors -> Groups \cup {NoGroup}] /\ tCurrent' \in [Threads -> Groups \cup {NoGroup}]
          /\ thread' \in [Actors -> Threads \cup {NoJob}] /\ phase' \in [Jobs -> Phases]
      BY <1>1, <1>3, <1>5, <1>6 DEF Phases
    <2> QED
      BY <1>2, <1>6, <2>1 DEF TypeOK
  <1>8. PcInv'
    <2>1. \A b \in Actors : pc'[b] \in GroupPcs => b = a \/ pc'[b] = pc[b]
      BY <1>3, <1>6 DEF GroupPcs
    <2> QED
      BY <1>1, <1>2, <1>3, <1>6, <2>1 DEF PcInv
  <1>9. HoldInv'
    <2>1. \A b \in Actors : pc'[b] \in HolderPcs => b = a \/ (pc'[b] = pc[b] /\ phase'[job[b]] = phase[job[b]])
      BY <1>1, <1>3, <1>4, <1>5, <1>6 DEF HolderPcs
    <2>2. phase'[j] \in PhasesAt(pc'[a]) /\ pc'[a] = "running"
      BY <1>1, <1>5, <1>6 DEF PhasesAt
    <2> QED
      BY <1>0, <1>2, <2>1, <2>2 DEF HoldInv, HolderPcs
  <1>10. QueueInv' /\ DropInv'
    <2>1. /\ \A b \in Bodies : pc[b] = "swapped" => pc'[b] = "swapped" /\ grp'[b] = grp[b]
          /\ \A k \in Jobs : phase[k] \in {"dropped", "pending"} => phase'[k] = phase[k]
          /\ dropped' = dropped
      BY <1>0, <1>1, <1>2, <1>3, <1>5, <1>6
    <2> QED
      BY <1>2, <2>1, SameQueues, SameDropped
  <1>11. CountInv'
    <2>1. \A h \in Groups : Unsettled(h)' = Unsettled(h)
      BY <1>0, <1>1, <1>5 DEF Unsettled
    <2> QED
      BY <1>2, <2>1 DEF CountInv, CountIsUnsettled
  <1>12. \A k \in Jobs : phase'[k] \in {"new", "counted"} <=> phase[k] \in {"new", "counted"}
    BY <1>0, <1>1, <1>5
  <1>13. RunnerInv'
    <2>1. /\ \A b \in Actors : pc'[b] = "pushed" => pc[b] = "pushed"
          /\ \A w \in Workers : pc'[w] # "idle" => pc[w] # "idle"
      BY <1>0, <1>1, <1>3, <1>6
    <2> QED
      BY <1>2, <1>12, <2>1 DEF RunnerInv, TypeOK
  <1>14. NoJobStranded'
    <2>1. /\ \A b \in Actors : pc'[b] = "pushed" <=> pc[b] = "pushed"
          /\ \A w \in Workers : pc'[w] = "pop" <=> pc[w] = "pop"
      BY <1>0, <1>1, <1>3, <1>6
    <2>2. \A h \in Groups : RunnersToCome(h)' = RunnersToCome(h)
      BY <1>2, <2>1 DEF RunnersToCome
    <2> QED
      BY <1>2, <2>2 DEF NoJobStranded
  <1>15. ThreadInv' /\ CurrentInv'
    <2>1. /\ \A b \in Actors : Live(b)' <=> Live(b) \/ b = j
          /\ \A b \in Actors : pc'[b] = "running" <=> pc[b] = "running" \/ b = a
          /\ \A k \in Jobs : phase'[k] = "running" <=> phase[k] = "running" \/ k = j
      BY <1>0, <1>1, <1>3, <1>5, <1>6 DEF Live
    <2>2. /\ \A b \in Actors \ {j} : thread'[b] = thread[b]
          /\ thread'[j] = thread[a]
      BY <1>1, <1>6
    <2>3. \A b \in Actors : Live(b) /\ pc[b] # "running" /\ thread[b] = thread[a] => b = a
      BY <1>0, <1>3 DEF ThreadInv
    <2>4. \A b \in Actors : pc[b] = "running" => job[b] # j /\ Live(b) /\ job[b] \in Jobs
      BY <1>0, <1>4 DEF HoldInv, HolderPcs, Live
    <2>5. ThreadInv'
      BY <1>0, <1>2, <1>3, <2>1, <2>2, <2>3, <2>4 DEF ThreadInv
    <2>6. CurrentInv'
      <3>1. tCurrent'[thread[a]] = OwnGroup(j) /\ prev'[a] = OwnGroup(a)
        BY <1>0, <1>1, <1>3, <1>6 DEF OwnGroup, CurrentInv
      <3>2. \A b \in Actors \ {a, j} : Live(b) /\ pc[b] # "running" => tCurrent'[thread[b]] = tCurrent[thread[b]]
        BY <1>1, <1>6, <2>3 DEF ThreadInv
      <3>3. \A b \in Actors \ {a} : prev'[b] = prev[b]
        BY <1>1, <1>6
      <3> QED
        BY <1>3, <2>1, <2>2, <3>1, <3>2, <3>3 DEF CurrentInv
    <2> QED
      BY <2>5, <2>6
  <1>16. NestInv'
    <2>1. \A k \in Jobs : phase'[k] # "new" <=> phase[k] # "new"
      BY <1>0, <1>1, <1>5
    <2> QED
      BY <1>2, <2>1 DEF NestInv, NestingIsRight
  <1> QED
    BY <1>7, <1>8, <1>9, <1>10, <1>11, <1>13, <1>14, <1>15, <1>16

(* The body on top of the thread returns to the actor that called it.      *)
LEMMA BodyEndsStep ==
  ASSUME GroupInv, NEW a \in Actors, BodyEnds(a)
  PROVE  GroupInv'
  <1> USE GroupAssumption, ActorSets DEF GroupInv
  <1>0. /\ job[a] \in Jobs /\ phase[job[a]] = "running" /\ grp[a] = GroupOf[job[a]]
        /\ pc[a] = "running" /\ pc[job[a]] = "body"
    BY DEF BodyEnds, HoldInv, HolderPcs, PhasesAt
  <1> PICK j \in Jobs : j = job[a]
    BY <1>0
  <1>1. /\ pc \in [Actors -> Pcs] /\ phase \in [Jobs -> Phases] /\ thread \in [Actors -> Threads \cup {NoJob}]
        /\ tCurrent \in [Threads -> Groups \cup {NoGroup}] /\ prev \in [Actors -> Groups \cup {NoGroup}]
    BY DEF TypeOK
  <1>2. /\ UNCHANGED <<waiting, thread, grp, job, runner, dropped>>
        /\ created' = created /\ parent' = parent /\ activeJobs' = activeJobs
        /\ cancelled' = cancelled /\ pending' = pending
        /\ tCurrent' = [tCurrent EXCEPT ![thread[a]] = prev[a]]
        /\ prev' = [prev EXCEPT ![a] = NoGroup]
        /\ pc' = [pc EXCEPT ![a] = "settle", ![j] = "ended"]
        /\ phase' = [phase EXCEPT ![j] = "ran"]
    BY DEF BodyEnds, poolVars, groupVars
  <1>3. Live(a) /\ Live(j) /\ a # j /\ thread[a] \in Threads /\ thread[j] = thread[a]
    BY <1>0 DEF ThreadInv, Live
  <1>4. \A b \in Actors \ {a} : pc[b] \in HolderPcs => job[b] # j
    BY <1>0 DEF HoldInv, HolderPcs
  <1>6. /\ \A b \in Actors \ {a, j} : pc'[b] = pc[b]
        /\ pc' \in [Actors -> Pcs] /\ pc'[a] = "settle" /\ pc'[j] = "ended"
    BY <1>1, <1>2, <1>3 DEF Pcs, HolderPcs
  <1>7. TypeOK'
    <2>1. prev' \in [Actors -> Groups \cup {NoGroup}] /\ tCurrent' \in [Threads -> Groups \cup {NoGroup}]
          /\ phase' \in [Jobs -> Phases]
      BY <1>1, <1>2, <1>3 DEF Phases
    <2> QED
      BY <1>2, <1>6, <2>1 DEF TypeOK
  <1>8. PcInv'
    <2>1. \A b \in Actors : pc'[b] \in GroupPcs => b = a \/ pc'[b] = pc[b]
      BY <1>3, <1>6 DEF GroupPcs
    <2> QED
      BY <1>0, <1>2, <1>3, <1>6, <2>1 DEF PcInv
  <1>9. HoldInv'
    <2>1. \A b \in Actors : pc'[b] \in HolderPcs => b = a \/ (pc'[b] = pc[b] /\ phase'[job[b]] = phase[job[b]])
      BY <1>1, <1>2, <1>3, <1>4, <1>6 DEF HolderPcs
    <2>2. phase'[j] \in PhasesAt(pc'[a]) /\ pc'[a] \in {"settle", "running"}
      BY <1>1, <1>2, <1>6 DEF PhasesAt
    <2>3. \A b \in Actors : pc'[b] \in HolderPcs => pc[b] \in HolderPcs
      BY <1>0, <2>1 DEF HolderPcs
    <2>4. \A b \in Actors : pc'[b] \in HolderPcs =>
              job[b] \in Jobs /\ phase'[job[b]] \in PhasesAt(pc'[b])
      BY <1>0, <2>1, <2>2, <2>3 DEF HoldInv
    <2>5. \A b \in Actors : pc'[b] \in {"check", "start", "running", "settle"} => grp[b] = GroupOf[job[b]]
      BY <1>0, <2>1 DEF HoldInv, HolderPcs
    <2> QED
      BY <1>2, <2>3, <2>4, <2>5 DEF HoldInv
  <1>10. QueueInv' /\ DropInv'
    <2>1. /\ \A b \in Bodies : pc[b] = "swapped" => pc'[b] = "swapped" /\ grp'[b] = grp[b]
          /\ \A k \in Jobs : phase[k] \in {"dropped", "pending"} => phase'[k] = phase[k]
      BY <1>0, <1>1, <1>2, <1>3, <1>6
    <2> QED
      BY <1>2, <2>1, SameQueues, SameDropped
  <1>11. CountInv'
    <2>1. \A h \in Groups : Unsettled(h)' = Unsettled(h)
      BY <1>0, <1>1, <1>2 DEF Unsettled
    <2> QED
      BY <1>2, <2>1 DEF CountInv, CountIsUnsettled
  <1>12. \A k \in Jobs : phase'[k] \in {"new", "counted"} <=> phase[k] \in {"new", "counted"}
    BY <1>0, <1>1, <1>2
  <1>13. RunnerInv'
    <2>1. /\ \A b \in Actors : pc'[b] = "pushed" => pc[b] = "pushed"
          /\ \A w \in Workers : pc'[w] # "idle" => pc[w] # "idle"
      BY <1>0, <1>1, <1>3, <1>6
    <2> QED
      BY <1>2, <1>12, <2>1 DEF RunnerInv, TypeOK
  <1>14. NoJobStranded'
    <2>1. /\ \A b \in Actors : pc'[b] = "pushed" <=> pc[b] = "pushed"
          /\ \A w \in Workers : pc'[w] = "pop" <=> pc[w] = "pop"
      BY <1>0, <1>1, <1>3, <1>6
    <2>2. \A h \in Groups : RunnersToCome(h)' = RunnersToCome(h)
      BY <1>2, <2>1 DEF RunnersToCome
    <2> QED
      BY <1>2, <2>2 DEF NoJobStranded
  <1>15. /\ \A b \in Actors : Live(b)' <=> Live(b) /\ b # j
         /\ \A b \in Actors : pc'[b] = "running" <=> pc[b] = "running" /\ b # a
         /\ \A k \in Jobs : phase'[k] = "running" <=> phase[k] = "running" /\ k # j
    BY <1>0, <1>1, <1>2, <1>3, <1>6 DEF Live
  <1>16. \A b \in Actors : Live(b) /\ pc[b] # "running" /\ thread[b] = thread[a] => b = j
    BY <1>0, <1>3 DEF ThreadInv
  <1>17. ThreadInv'
    <2>1. \A b, c \in Actors :
            Live(b)' /\ Live(c)' /\ thread[b] = thread[c] /\ pc'[b] # "running" /\ pc'[c] # "running"
              => b = c
      BY <1>15, <1>16 DEF ThreadInv
    <2>2. \A k \in Jobs : Live(k)' <=> phase'[k] = "running"
      BY <1>15 DEF ThreadInv
    <2> QED
      BY <1>2, <1>15, <2>1, <2>2 DEF ThreadInv
  <1>18. CurrentInv'
    <2>1. tCurrent'[thread[a]] = OwnGroup(a)
      BY <1>0, <1>1, <1>2, <1>3 DEF CurrentInv
    <2>2. \A b \in Actors \ {j} : Live(b) /\ pc[b] # "running" => tCurrent'[thread[b]] = tCurrent[thread[b]]
      BY <1>1, <1>2, <1>16 DEF ThreadInv
    <2>3. \A b \in Actors \ {a} : prev'[b] = prev[b]
      BY <1>1, <1>2
    <2>4. CurrentInv /\ thread' = thread
      BY <1>2
    <2> HIDE DEF GroupInv
    <2>5. ASSUME NEW b \in Actors, Live(b)', pc'[b] # "running" PROVE tCurrent'[thread'[b]] = OwnGroup(b)
      <3>1. CASE b = a
        BY <2>1, <2>4, <3>1
      <3>2. CASE b # a
        <4>1. b \in Actors \ {j} /\ Live(b) /\ pc[b] # "running"
          BY <1>15, <2>5, <3>2
        <4> QED
          BY <2>2, <2>4, <4>1 DEF CurrentInv
      <3> QED
        BY <3>1, <3>2
    <2>6. ASSUME NEW b \in Actors, pc'[b] = "running" PROVE prev'[b] = OwnGroup(b)
      BY <1>15, <2>3, <2>4, <2>6 DEF CurrentInv
    <2>7. \A b \in Actors : OwnGroup(b)' = OwnGroup(b)
      BY DEF OwnGroup
    <2> QED
      BY <2>5, <2>6, <2>7 DEF CurrentInv
  <1>19. NestInv'
    <2>1. \A k \in Jobs : phase'[k] # "new" <=> phase[k] # "new"
      BY <1>0, <1>1, <1>2
    <2> QED
      BY <1>2, <2>1 DEF NestInv, NestingIsRight
  <1> QED
    BY <1>7, <1>8, <1>9, <1>10, <1>11, <1>13, <1>14, <1>17, <1>18, <1>19

(* A body enters Wait or Cancel, and goes round Wait's loop.               *)
LEMMA WaitSteps ==
  ASSUME GroupInv, NEW a \in Actors,
         \/ a \in Bodies /\ \E g \in Groups : Wait(a, g) \/ Cancel(a, g)
         \/ WaitTest(a) \/ WaitWake(a)
  PROVE  GroupInv'
  <1> USE GroupAssumption, ActorSets DEF GroupInv
  <1>1. /\ pc \in [Actors -> Pcs] /\ grp \in [Actors -> Groups \cup {NoGroup}]
        /\ cancelled \in [Groups -> BOOLEAN]
    BY DEF TypeOK
  <1>2. /\ UNCHANGED <<waiting, tCurrent, thread, job, runner, prev, dropped, phase>>
        /\ created' = created /\ parent' = parent /\ activeJobs' = activeJobs /\ pending' = pending
    BY DEF Wait, Cancel, WaitTest, WaitWake, poolVars, groupVars
  <1>3. cancelled' \in [Groups -> BOOLEAN]
    BY <1>1 DEF Wait, Cancel, WaitTest, WaitWake, groupVars
  <1>4. PICK p \in {"waitTest", "body", "pop", "flagged"}, g \in Groups \cup {NoGroup} :
            /\ pc' = [pc EXCEPT ![a] = p] /\ grp' = [grp EXCEPT ![a] = g]
            /\ p = "body" \/ g \in Groups
    <2>1. CASE \E g \in Groups : Wait(a, g) \/ Cancel(a, g)
      BY <2>1 DEF Wait, Cancel
    <2>2. CASE WaitTest(a)
      <3>1. grp[a] \in Groups /\ grp' = [grp EXCEPT ![a] = grp'[a]]
        BY <1>1, <2>2 DEF WaitTest, PcInv, GroupPcs
      <3> QED
        BY <1>1, <2>2, <3>1 DEF WaitTest
    <2>3. CASE WaitWake(a)
      <3>1. grp[a] \in Groups /\ grp' = [grp EXCEPT ![a] = grp[a]]
        BY <1>1, <2>3 DEF WaitWake, PcInv, GroupPcs
      <3> QED
        BY <2>3, <3>1 DEF WaitWake
    <2> QED
      BY <2>1, <2>2, <2>3
  <1>5. pc[a] \in {"body", "waitTest", "waitSleep"} /\ a \in Bodies /\ a \notin Workers
    <2>1. pc[a] \in {"body", "waitTest", "waitSleep"}
      BY DEF Wait, Cancel, WaitTest, WaitWake
    <2> QED
      BY <2>1 DEF PcInv
  <1>6. /\ pc' \in [Actors -> Pcs] /\ grp' \in [Actors -> Groups \cup {NoGroup}]
        /\ pc'[a] = p /\ grp'[a] = g
        /\ \A b \in Actors \ {a} : pc'[b] = pc[b] /\ grp'[b] = grp[b]
    BY <1>1, <1>4 DEF Pcs, HolderPcs, GroupPcs
  <1>7. TypeOK'
    BY <1>2, <1>3, <1>6 DEF TypeOK
  <1>8. PcInv'
    BY <1>4, <1>5, <1>6 DEF PcInv, GroupPcs
  <1>9. HoldInv' /\ RunnerInv'
    <2>1. \A b \in Actors : pc'[b] \in HolderPcs \cup {"pushed"} => b # a
      BY <1>4, <1>6 DEF HolderPcs
    <2> QED
      BY <1>2, <1>5, <1>6, <2>1 DEF HoldInv, RunnerInv, HolderPcs
  <1>10. QueueInv' /\ DropInv'
    <2>1. \A b \in Bodies : pc[b] = "swapped" => pc'[b] = "swapped" /\ grp'[b] = grp[b]
      BY <1>5, <1>6
    <2> QED
      BY <1>2, <2>1, SameQueues, SameDropped
  <1>11. CountInv' /\ NoJobStranded'
    <2>1. \A h \in Groups : Unsettled(h)' = Unsettled(h)
      BY <1>2 DEF Unsettled
    <2>2. /\ \A b \in Bodies : pc'[b] = "pushed" <=> pc[b] = "pushed"
          /\ \A w \in Workers : pc'[w] = pc[w]
      BY <1>4, <1>5, <1>6
    <2>3. \A h \in Groups : RunnersToCome(h)' = RunnersToCome(h)
      BY <1>2, <2>2 DEF RunnersToCome
    <2> QED
      BY <1>2, <2>1, <2>3 DEF CountInv, CountIsUnsettled, NoJobStranded
  <1>12. ThreadInv' /\ CurrentInv'
    <2>1. \A b \in Actors : Live(b)' = Live(b) /\ (pc'[b] = "running" <=> pc[b] = "running")
      BY <1>4, <1>5, <1>6 DEF Live
    <2> QED
      BY <1>2, <2>1 DEF ThreadInv, CurrentInv
  <1>13. NestInv'
    BY <1>2 DEF NestInv, NestingIsRight
  <1> QED
    BY <1>7, <1>8, <1>9, <1>10, <1>11, <1>12, <1>13

-----------------------------------------------------------------------------
LEMMA SequenceElements ==
  ASSUME NEW T, NEW s \in Seq(T)
  PROVE  ToSet(s) \subseteq T /\ ToSet(s) = {s[i] : i \in 1 .. Len(s)}
  BY DEF ToSet

(* The swap takes all jobs of the queue at once.                           *)
LEMMA CancelSwapStep ==
  ASSUME GroupInv, NEW a \in Actors, CancelSwap(a)
  PROVE  GroupInv'
  <1> USE GroupAssumption, ActorSets DEF GroupInv
  <1> PICK g \in Groups : g = grp[a] /\ pc[a] = "flagged"
    BY DEF CancelSwap, PcInv, GroupPcs
  <1>1. /\ a \in Bodies
        /\ pending \in [Groups -> Seq(Jobs)] /\ dropped \in [Bodies -> Seq(Jobs)]
        /\ pc \in [Actors -> Pcs] /\ phase \in [Jobs -> Phases]
        /\ pending[g] \in Seq(Jobs) /\ dropped[a] = <<>>
    BY DEF TypeOK, PcInv, DropInv
  <1> DEFINE P == ToSet(pending[g])
  <1>2. P \subseteq Jobs /\ P = {pending[g][i] : i \in 1 .. Len(pending[g])}
    BY <1>1, SequenceElements
  <1>3. /\ dropped' = [dropped EXCEPT ![a] = pending[g]]
        /\ pending' = [pending EXCEPT ![g] = <<>>]
        /\ pc' = [pc EXCEPT ![a] = "swapped"]
        /\ UNCHANGED <<waiting, created, parent, activeJobs, cancelled, tCurrent, thread, grp, job,
                       runner, prev>>
    BY DEF CancelSwap, poolVars
  <1>4. /\ phase' \in [Jobs -> Phases]
        /\ \A k \in Jobs : phase'[k] = IF k \in P THEN "dropped" ELSE phase[k]
    <2>1. phase' = [k \in Jobs |-> IF \E i \in 1 .. Len(pending[g]) : pending[g][i] = k
                                   THEN "dropped" ELSE phase[k]]
      BY DEF CancelSwap
    <2>2. \A k \in Jobs : (\E i \in 1 .. Len(pending[g]) : pending[g][i] = k) <=> k \in P
      BY <1>2
    <2> HIDE DEF P, GroupInv
    <2>3. phase' = [k \in Jobs |-> IF k \in P THEN "dropped" ELSE phase[k]]
      BY <2>1, <2>2
    <2>4. "dropped" \in Phases
      BY DEF Phases
    <2> QED
      BY <1>1, <2>3, <2>4
  <1>5. Distinct(pending[g]) /\ \A k \in P : phase[k] = "pending" /\ GroupOf[k] = g
    BY DEF QueueInv
  <1> PICK Q : Q = P
    OBVIOUS
  <1>6. /\ ToSet(dropped'[a]) = Q /\ dropped'[a] = pending[g]
        /\ \A b \in Bodies \ {a} : dropped'[b] = dropped[b]
        /\ pending'[g] = <<>> /\ \A h \in Groups \ {g} : pending'[h] = pending[h]
        /\ pc'[a] = "swapped" /\ \A b \in Actors \ {a} : pc'[b] = pc[b]
    BY <1>1, <1>3
  <1> HIDE DEF P
  <1>7. /\ TypeOK' /\ PcInv'
    <2>1. /\ pending' \in [Groups -> Seq(Jobs)] /\ dropped' \in [Bodies -> Seq(Jobs)]
          /\ pc' \in [Actors -> Pcs]
      BY <1>1, <1>3 DEF Pcs, GroupPcs
    <2>2. TypeOK'
      BY <1>3, <1>4, <2>1 DEF TypeOK
    <2> QED
      BY <1>1, <1>3, <1>6, <2>2 DEF PcInv, GroupPcs
  <1>8. \A k \in Jobs : phase'[k] = phase[k] \/ (k \in Q /\ phase[k] = "pending" /\ phase'[k] = "dropped")
    BY <1>4, <1>5
  <1>9. HoldInv' /\ RunnerInv'
    <2>1. \A b \in Actors : pc'[b] \in HolderPcs \cup {"pushed"} => b # a /\ pc'[b] = pc[b]
      BY <1>6 DEF HolderPcs
    <2>2. \A b \in Actors : pc'[b] \in HolderPcs => phase'[job[b]] = phase[job[b]] /\ job[b] \in Jobs
      BY <1>8, <2>1 DEF HoldInv, HolderPcs, PhasesAt
    <2>3. HoldInv'
      BY <1>3, <2>1, <2>2 DEF HoldInv, HolderPcs
    <2>4. \A k \in Jobs : phase'[k] \in {"new", "counted"} <=> phase[k] \in {"new", "counted"}
      BY <1>8
    <2>5. \A w \in Workers : pc'[w] = pc[w]
      <3>1. a \notin Workers
        BY <1>1
      <3> QED
        BY <1>6, <3>1
    <2>6. RunnerInv'
      BY <1>3, <2>1, <2>4, <2>5 DEF RunnerInv, TypeOK
    <2> QED
      BY <2>3, <2>6
  <1>10. QueueInv'
    <2>1. \A h \in Groups \ {g} : \A k \in ToSet(pending[h]) : k \in Jobs /\ k \notin Q
      <3> SUFFICES ASSUME NEW h \in Groups \ {g}, NEW k \in ToSet(pending[h])
                   PROVE  k \in Jobs /\ k \notin Q
        OBVIOUS
      <3>1. pending[h] \in Seq(Jobs) /\ GroupOf[k] = h
        BY <1>1 DEF QueueInv
      <3> QED
        BY <1>5, <3>1, SequenceElements
    <2>2. ToSet(pending'[g]) = {} /\ Distinct(pending'[g])
      BY <1>6 DEF ToSet, Distinct
    <2> QED
      BY <1>4, <1>6, <2>1, <2>2 DEF QueueInv
  <1>11. DropInv'
    <2>1. \A b \in Bodies \ {a} : \A k \in ToSet(dropped[b]) : k \in Jobs /\ k \notin Q /\ phase'[k] = "dropped"
      <3> SUFFICES ASSUME NEW b \in Bodies \ {a}, NEW k \in ToSet(dropped[b])
                   PROVE  k \in Jobs /\ k \notin Q /\ phase'[k] = "dropped"
        OBVIOUS
      <3>1. dropped[b] \in Seq(Jobs) /\ phase[k] = "dropped"
        BY <1>1 DEF DropInv
      <3> QED
        BY <1>4, <1>5, <3>1, SequenceElements
    <2>2. \A k \in Q : GroupOf[k] = g /\ phase'[k] = "dropped"
      BY <1>2, <1>4, <1>5
    <2>3. \A b \in Bodies : Distinct(dropped'[b]) /\ (pc'[b] # "swapped" => dropped'[b] = <<>>)
      BY <1>5, <1>6 DEF DropInv
    <2>4. \A b \in Bodies : \A k \in ToSet(dropped'[b]) : GroupOf[k] = grp'[b] /\ phase'[k] = "dropped"
      BY <1>3, <1>6, <2>1, <2>2 DEF DropInv
    <2>5. \A b, c \in Bodies : b # c => ToSet(dropped'[b]) \cap ToSet(dropped'[c]) = {}
      <3> SUFFICES ASSUME NEW b \in Bodies, NEW c \in Bodies, b # c
                   PROVE  ToSet(dropped'[b]) \cap ToSet(dropped'[c]) = {}
        OBVIOUS
      <3>1. CASE b # a /\ c # a
        BY <1>6, <3>1 DEF DropInv
      <3>2. CASE b = a
        BY <1>6, <2>1, <3>2
      <3>3. CASE c = a
        BY <1>6, <2>1, <3>3
      <3> QED
        BY <3>1, <3>2, <3>3
    <2> QED
      BY <2>3, <2>4, <2>5 DEF DropInv
  <1>12. CountInv'
    <2>1. \A h \in Groups : Unsettled(h)' = Unsettled(h)
      BY <1>8 DEF Unsettled
    <2> QED
      BY <1>3, <2>1 DEF CountInv, CountIsUnsettled
  <1>13. NoJobStranded'
    <2>1. /\ \A b \in Bodies : pc'[b] = "pushed" <=> pc[b] = "pushed"
          /\ \A w \in Workers : pc'[w] = pc[w]
      <3> HIDE DEF GroupInv
      <3>1. pc[a] = "flagged" /\ a \notin Workers
        BY <1>1
      <3> QED
        BY <1>1, <1>3, <3>1
    <2>2. \A h \in Groups : RunnersToCome(h)' = RunnersToCome(h)
      BY <1>3, <2>1 DEF RunnersToCome
    <2>3. \A h \in Groups : Len(pending'[h]) <= Cardinality(RunnersToCome(h)')
      <3> TAKE h \in Groups
      <3>1. CASE h = g
        BY <1>6, <3>1, CountedSets
      <3>2. CASE h # g
        BY <1>6, <2>2, <3>2 DEF NoJobStranded
      <3> QED
        BY <3>1, <3>2
    <2> QED
      BY <2>3 DEF NoJobStranded
  <1>14. ThreadInv' /\ CurrentInv'
    <2>1. /\ \A b \in Actors : Live(b)' = Live(b) /\ (pc'[b] = "running" <=> pc[b] = "running")
          /\ \A k \in Jobs : phase'[k] = "running" <=> phase[k] = "running"
      BY <1>6, <1>8 DEF Live
    <2> QED
      BY <1>3, <2>1 DEF ThreadInv, CurrentInv
  <1>15. NestInv'
    <2>1. \A k \in Jobs : phase'[k] # "new" <=> phase[k] # "new"
      BY <1>8
    <2> QED
      BY <1>3, <2>1 DEF NestInv, NestingIsRight
  <1> QED
    BY <1>7, <1>9, <1>10, <1>11, <1>12, <1>13, <1>14, <1>15

(* The settlement of what was dropped: the counter goes down by as many.   *)
LEMMA CancelSettleStep ==
  ASSUME GroupInv, NEW a \in Actors, CancelSettle(a)
  PROVE  GroupInv'
  <1> USE GroupAssumption, ActorSets DEF GroupInv
  <1> PICK g \in Groups : g = grp[a] /\ pc[a] = "swapped"
    BY DEF CancelSettle, PcInv, GroupPcs
  <1>1. /\ a \in Bodies
        /\ dropped \in [Bodies -> Seq(Jobs)] /\ dropped[a] \in Seq(Jobs) /\ Distinct(dropped[a])
        /\ pc \in [Actors -> Pcs] /\ grp \in [Actors -> Groups \cup {NoGroup}]
        /\ phase \in [Jobs -> Phases]
    BY DEF TypeOK, PcInv, DropInv
  <1> PICK D : D = ToSet(dropped[a])
    OBVIOUS
  <1>2. D \subseteq Jobs /\ D = {dropped[a][i] : i \in 1 .. Len(dropped[a])}
    BY <1>1, SequenceElements
  <1>3. /\ dropped' = [dropped EXCEPT ![a] = <<>>]
        /\ activeJobs' = [activeJobs EXCEPT ![g] = activeJobs[g] - Len(dropped[a])]
        /\ pc' = [pc EXCEPT ![a] = "body"]
        /\ grp' = [grp EXCEPT ![a] = NoGroup]
        /\ UNCHANGED <<waiting, created, parent, cancelled, pending, tCurrent, thread, job,
                       runner, prev>>
    BY DEF CancelSettle, poolVars
  <1>4. /\ phase' \in [Jobs -> Phases]
        /\ \A k \in Jobs : phase'[k] = IF k \in D THEN "settled" ELSE phase[k]
    <2>1. phase' = [k \in Jobs |-> IF \E i \in 1 .. Len(dropped[a]) : dropped[a][i] = k
                                   THEN "settled" ELSE phase[k]]
      BY DEF CancelSettle
    <2> QED
      BY <1>1, <1>2, <2>1 DEF Phases
  <1>5. \A k \in D : phase[k] = "dropped" /\ GroupOf[k] = g
    BY <1>1 DEF DropInv
  <1>6. /\ dropped'[a] = <<>> /\ \A b \in Bodies \ {a} : dropped'[b] = dropped[b]
        /\ pc'[a] = "body" /\ \A b \in Actors \ {a} : pc'[b] = pc[b] /\ grp'[b] = grp[b]
        /\ pc' \in [Actors -> Pcs] /\ grp' \in [Actors -> Groups \cup {NoGroup}]
        /\ dropped' \in [Bodies -> Seq(Jobs)]
        /\ a \notin Workers
    BY <1>1, <1>3 DEF Pcs
  <1>7. TypeOK' /\ PcInv'
    <2>1. TypeOK'
      BY <1>3, <1>4, <1>6 DEF TypeOK
    <2> QED
      BY <1>1, <1>6, <2>1 DEF PcInv, GroupPcs
  <1>8. \A k \in Jobs : phase'[k] = phase[k] \/ (k \in D /\ phase[k] = "dropped" /\ phase'[k] = "settled")
    BY <1>4, <1>5
  <1>9. HoldInv' /\ RunnerInv'
    <2>1. \A b \in Actors : pc'[b] \in HolderPcs \cup {"pushed"} => b # a /\ pc'[b] = pc[b]
      BY <1>6 DEF HolderPcs
    <2>2. \A b \in Actors : pc'[b] \in HolderPcs => phase'[job[b]] = phase[job[b]] /\ job[b] \in Jobs
      BY <1>8, <2>1 DEF HoldInv, HolderPcs, PhasesAt
    <2>3. HoldInv'
      BY <1>3, <1>6, <2>1, <2>2 DEF HoldInv, HolderPcs
    <2>4. \A k \in Jobs : phase'[k] \in {"new", "counted"} <=> phase[k] \in {"new", "counted"}
      BY <1>8
    <2>5. \A w \in Workers : pc'[w] = pc[w] /\ grp'[w] = grp[w]
      BY <1>6
    <2>6. RunnerInv'
      BY <1>3, <2>1, <2>4, <2>5 DEF RunnerInv, TypeOK
    <2> QED
      BY <2>3, <2>6
  <1>10. QueueInv'
    <2>1. \A k \in Jobs : phase[k] = "pending" => phase'[k] = "pending"
      BY <1>8
    <2> QED
      BY <1>3, <2>1, SameQueues
  <1>11. DropInv'
    <2>1. \A b \in Bodies \ {a} : \A k \in ToSet(dropped[b]) : phase'[k] = "dropped"
      <3> SUFFICES ASSUME NEW b \in Bodies \ {a}, NEW k \in ToSet(dropped[b])
                   PROVE  phase'[k] = "dropped"
        OBVIOUS
      <3>1. dropped[b] \in Seq(Jobs) /\ phase[k] = "dropped" /\ k \notin D
        BY <1>1 DEF DropInv
      <3> QED
        BY <1>4, <3>1, SequenceElements
    <2>2. ToSet(dropped'[a]) = {} /\ Distinct(dropped'[a])
      BY <1>6 DEF ToSet, Distinct
    <2>3. \A b \in Bodies : Distinct(dropped'[b]) /\ (pc'[b] # "swapped" => dropped'[b] = <<>>)
      BY <1>6, <2>2 DEF DropInv
    <2>4. \A b \in Bodies : \A k \in ToSet(dropped'[b]) : GroupOf[k] = grp'[b] /\ phase'[k] = "dropped"
      BY <1>6, <2>1, <2>2 DEF DropInv
    <2>5. \A b, c \in Bodies : b # c => ToSet(dropped'[b]) \cap ToSet(dropped'[c]) = {}
      BY <1>6, <2>2 DEF DropInv
    <2> QED
      BY <2>3, <2>4, <2>5 DEF DropInv
  <1>12. CountInv'
    <2>1. /\ Unsettled(g)' = Unsettled(g) \ D /\ D \subseteq Unsettled(g)
          /\ \A h \in Groups \ {g} : Unsettled(h)' = Unsettled(h)
      BY <1>2, <1>4, <1>5 DEF Unsettled
    <2>2. Cardinality(D) = Len(dropped[a]) /\ IsFiniteSet(D)
      BY <1>1, DistinctLength
    <2>3. IsFiniteSet(Unsettled(g)) /\ Cardinality(Unsettled(g)) \in Nat /\ Unsettled(g) \cap D = D
      BY <2>1, CountedSets
    <2>4. /\ IsFiniteSet(Unsettled(g) \ D)
          /\ Cardinality(Unsettled(g) \ D) = Cardinality(Unsettled(g)) - Len(dropped[a])
      <3>1. /\ IsFiniteSet(Unsettled(g) \ D)
            /\ Cardinality(Unsettled(g) \ D) = Cardinality(Unsettled(g)) - Cardinality(Unsettled(g) \cap D)
        BY <2>3, FS_Difference
      <3> QED
        BY <2>2, <2>3, <3>1
    <2>5. Cardinality(Unsettled(g) \ D) \in Nat
      BY <2>4, FS_CardinalityType
    <2>6. activeJobs[g] = Cardinality(Unsettled(g))
      BY DEF CountInv, CountIsUnsettled
    <2>7. /\ Cardinality(Unsettled(g)') = Cardinality(Unsettled(g) \ D)
          /\ activeJobs' = [activeJobs EXCEPT ![g] = Cardinality(Unsettled(g) \ D)]
      BY <1>3, <2>1, <2>4, <2>6
    <2> QED
      BY <2>1, <2>5, <2>7, CountChanges
  <1>13. NoJobStranded'
    <2>1. /\ \A b \in Bodies : pc'[b] = "pushed" <=> pc[b] = "pushed"
          /\ \A w \in Workers : pc'[w] = pc[w]
      BY <1>1, <1>6
    <2>2. \A h \in Groups : RunnersToCome(h)' = RunnersToCome(h)
      BY <1>3, <2>1 DEF RunnersToCome
    <2> QED
      BY <1>3, <2>2 DEF NoJobStranded
  <1>14. ThreadInv' /\ CurrentInv'
    <2>1. /\ \A b \in Actors : Live(b)' = Live(b) /\ (pc'[b] = "running" <=> pc[b] = "running")
          /\ \A k \in Jobs : phase'[k] = "running" <=> phase[k] = "running"
      BY <1>6, <1>8 DEF Live
    <2> QED
      BY <1>3, <2>1 DEF ThreadInv, CurrentInv
  <1>15. NestInv'
    <2>1. \A k \in Jobs : phase'[k] # "new" <=> phase[k] # "new"
      BY <1>8
    <2> QED
      BY <1>3, <2>1 DEF NestInv, NestingIsRight
  <1> QED
    BY <1>7, <1>9, <1>10, <1>11, <1>12, <1>13, <1>14, <1>15

-----------------------------------------------------------------------------
LEMMA GroupKeeps == GroupInv /\ [Next]_vars => GroupInv'
  <1> SUFFICES ASSUME GroupInv, [Next]_vars PROVE GroupInv'
    OBVIOUS
  <1> USE ActorSets
  <1>1. CASE \E a \in Bodies : \/ \E g \in Groups : CreateGroup(a, g) \/ Wait(a, g) \/ Cancel(a, g)
                               \/ \E j \in Jobs : SubmitJob(a, j)
    BY <1>1, CreateGroupStep, SubmitJobStep, WaitSteps
  <1>2. CASE \E w \in Workers, j \in Jobs : StartRunner(w, j)
    BY <1>2, StartRunnerStep
  <1>3. ASSUME NEW a \in Actors, Continue(a) \/ BodyEnds(a) PROVE GroupInv'
    BY <1>3, PushPendingStep, SubmitRunnerStep, PopTakesStep, PopNothingStep, CheckStep, StartBodyStep, SettleStep,
       WaitSteps, CancelSwapStep, CancelSettleStep, BodyEndsStep DEF Continue
  <1>4. CASE UNCHANGED vars
    <2> USE DEF vars, groupVars
    <2>1. TypeOK' /\ PcInv' /\ HoldInv' /\ RunnerInv'
      BY <1>4 DEF GroupInv, TypeOK, PcInv, HoldInv, RunnerInv
    <2>2. QueueInv' /\ DropInv'
      BY <1>4 DEF GroupInv, QueueInv, DropInv
    <2>3. CountInv' /\ NoJobStranded'
      BY <1>4 DEF GroupInv, CountInv, CountIsUnsettled, Unsettled, NoJobStranded, RunnersToCome
    <2>4. ThreadInv' /\ CurrentInv' /\ NestInv'
      BY <1>4 DEF GroupInv, ThreadInv, Live, CurrentInv, NestInv, NestingIsRight
    <2> QED
      BY <2>1, <2>2, <2>3, <2>4 DEF GroupInv
  <1> QED
    BY <1>1, <1>2, <1>3, <1>4 DEF Next

(* The inductive invariant of the groups.                                  *)
THEOREM GroupInvariant == Spec => []GroupInv
  BY GroupInit, GroupKeeps, PTL DEF Spec

(* Of any number of jobs in any groups: activeJobs is what is submitted and*)
(* not settled, every queue has its runners to come, and a group's parent  *)
(* is the group that its creator runs for.                                 *)
THEOREM GroupsSound == FairSpec => []GroupsAreSound
  <1>1. GroupInv => GroupsAreSound
    BY DEF GroupInv, CountInv, NestInv, GroupsAreSound
  <1>2. FairSpec => Spec
    BY PTL DEF FairSpec
  <1> QED
    BY <1>1, <1>2, GroupInvariant, PTL

-----------------------------------------------------------------------------
(* The test for cancellation walks up the groups while other threads       *)
(* cancel.  A flag is never reset, so one that was set when the job was    *)
(* taken is still ahead of the walk.                                       *)
TestInv ==
  /\ look \in [Actors -> Groups \cup {NoGroup}]
  /\ seen \in [Actors -> SUBSET Groups]
  /\ \A a \in Actors : pc[a] = "check" =>
       look[a] \in created /\ \A h \in seen[a] : cancelled[h] /\ Encloses(h, look[a])
  /\ \A a \in Actors : pc[a] = "start" => seen[a] = {}

(* What encloses a group and is another one encloses the group around it.  *)
LEMMA EnclosesNext ==
  ASSUME NEW g \in Groups, NEW h \in Groups, Encloses(h, g), h # g, Enclosing(g) \in Groups \cup {NoGroup}
  PROVE  Enclosing(g) # NoGroup /\ Encloses(h, Enclosing(g))
  <1> USE GroupAssumption
  <1>1. Enclosing(g) # NoGroup
    <2>1. ASSUME Enclosing(g) = NoGroup PROVE FALSE
      <3> DEFINE S == {g}
      <3>1. S \in SUBSET Groups /\ g \in S /\ \A k \in S : Enclosing(k) # NoGroup => Enclosing(k) \in S
        BY <2>1
      <3>2. h \in S
        BY <3>1 DEF Encloses
      <3> QED
        BY <3>2
    <2> QED
      BY <2>1
  <1>2. ASSUME NEW S \in SUBSET Groups, Enclosing(g) \in S,
               \A k \in S : Enclosing(k) # NoGroup => Enclosing(k) \in S
        PROVE  h \in S
    <2> DEFINE C == S \cup {g}
    <2>1. C \in SUBSET Groups /\ g \in C /\ \A k \in C : Enclosing(k) # NoGroup => Enclosing(k) \in C
      BY <1>2
    <2>2. h \in C
      BY <2>1 DEF Encloses
    <2> QED
      BY <2>2
  <1> QED
    BY <1>1, <1>2 DEF Encloses

(* The steps that do not touch the test.                                   *)
LEMMA TestUntouched ==
  ASSUME TestInv, look' = look, seen' = seen, created \subseteq created',
         \A g \in Groups : cancelled[g] => cancelled'[g],
         \A a \in Actors : pc'[a] \in {"check", "start"} => pc'[a] = pc[a]
  PROVE  TestInv'
  <1>1. look' \in [Actors -> Groups \cup {NoGroup}] /\ seen' \in [Actors -> SUBSET Groups]
    BY DEF TestInv
  <1>2. ASSUME NEW a \in Actors, pc'[a] = "check"
        PROVE  look'[a] \in created' /\ \A h \in seen'[a] : cancelled'[h] /\ Encloses(h, look'[a])
    <2>1. pc[a] = "check" /\ seen[a] \subseteq Groups
      BY <1>2 DEF TestInv
    <2> QED
      BY <2>1 DEF TestInv
  <1>3. ASSUME NEW a \in Actors, pc'[a] = "start" PROVE seen'[a] = {}
    BY <1>3 DEF TestInv
  <1>4. \A a \in Actors, h \in Groups : Encloses(h, look'[a]) = Encloses(h, look[a])
    OBVIOUS
  <1> QED
    BY <1>1, <1>2, <1>3 DEF TestInv, Encloses, Enclosing

(* A job is taken: the walk begins at its own group.                       *)
LEMMA TestBegins ==
  ASSUME GroupInv, TestInv, NEW a \in Actors, Pop(a)
  PROVE  TestInv'
  <1> USE GroupAssumption, ActorSets
  <1>0. pc[a] = "pop" /\ created' = created /\ cancelled' = cancelled /\ pc \in [Actors -> Pcs]
        /\ grp[a] \in Groups
    BY DEF Pop, GroupInv, TypeOK, PcInv, GroupPcs
  <1>1. CASE pending[grp[a]] = <<>>
    <2>1. look' = look /\ seen' = seen /\ Return(a, FALSE)
      BY <1>1 DEF Pop, testVars
    <2>2. \A b \in Actors : pc'[b] \in {"check", "start"} => pc'[b] = pc[b]
      BY <1>0, <2>1 DEF Return
    <2> QED
      BY <1>0, <2>1, <2>2, TestUntouched
  <1>2. CASE pending[grp[a]] # <<>>
    <2>1. /\ pc' = [pc EXCEPT ![a] = "check"]
          /\ look' = [look EXCEPT ![a] = grp[a]]
          /\ seen' = [seen EXCEPT ![a] = {h \in Groups : cancelled[h] /\ Encloses(h, grp[a])}]
      BY <1>2 DEF Pop
    <2>2. grp[a] \in created
      <3>1. pending[grp[a]] \in Seq(Jobs)
        BY <1>0 DEF GroupInv, TypeOK
      <3>2. PICK j \in ToSet(pending[grp[a]]) : j \in Jobs
        BY <1>2, <3>1 DEF ToSet
      <3>3. GroupOf[j] = grp[a] /\ phase[j] = "pending"
        BY <1>0, <3>2 DEF GroupInv, QueueInv
      <3> QED
        BY <3>2, <3>3 DEF GroupInv, NestInv
    <2>3. look' \in [Actors -> Groups \cup {NoGroup}] /\ seen' \in [Actors -> SUBSET Groups]
      BY <1>0, <2>1 DEF TestInv
    <2>4. ASSUME NEW b \in Actors, pc'[b] = "check"
          PROVE  look'[b] \in created' /\ \A h \in seen'[b] : cancelled'[h] /\ Encloses(h, look'[b])
      <3>1. CASE b = a
        <4>1. look'[a] = grp[a] /\ seen'[a] = {h \in Groups : cancelled[h] /\ Encloses(h, grp[a])}
          BY <2>1 DEF TestInv
        <4> QED
          BY <1>0, <2>2, <3>1, <4>1
      <3>2. CASE b # a
        <4>1. look'[b] = look[b] /\ seen'[b] = seen[b] /\ pc[b] = "check"
          BY <1>0, <2>1, <2>4, <3>2 DEF TestInv
        <4> QED
          BY <1>0, <4>1 DEF TestInv
      <3> QED
        BY <3>1, <3>2
    <2>5. ASSUME NEW b \in Actors, pc'[b] = "start" PROVE seen'[b] = {}
      BY <1>0, <2>1, <2>5 DEF TestInv
    <2> QED
      BY <2>3, <2>4, <2>5 DEF TestInv, Encloses, Enclosing
  <1> QED
    BY <1>1, <1>2

(* One load of a flag.  If it is not set, no group seen cancelled is the   *)
(* one that has been looked at, so all of them are around the next.        *)
LEMMA TestLooks ==
  ASSUME GroupInv, TestInv, NEW a \in Actors, Check(a)
  PROVE  TestInv'
  <1> USE GroupAssumption, ActorSets
  <1>0. /\ pc[a] = "check" /\ created' = created /\ cancelled' = cancelled /\ pc \in [Actors -> Pcs]
        /\ look[a] \in created /\ created \subseteq Groups
    BY DEF Check, groupVars, GroupInv, TypeOK, TestInv
  <1> PICK g \in Groups : g = look[a]
    BY <1>0
  <1>1. parent[g] = Enclosing(g) /\ Enclosing(g) \in created \cup {NoGroup}
    BY <1>0 DEF GroupInv, NestInv, NestingIsRight, Enclosing
  <1>2. ASSUME ~cancelled[g], NEW h \in seen[a]
        PROVE  Enclosing(g) # NoGroup /\ Encloses(h, Enclosing(g))
    <2>1. h \in Groups /\ cancelled[h] /\ Encloses(h, g)
      BY <1>0 DEF TestInv
    <2> QED
      BY <1>0, <1>1, <1>2, <2>1, EnclosesNext
  <1>3. look' \in [Actors -> Groups \cup {NoGroup}] /\ seen' \in [Actors -> SUBSET Groups]
    BY <1>0, <1>1 DEF Check, TestInv
  <1>4. \A b \in Actors \ {a} : look'[b] = look[b] /\ seen'[b] = seen[b] /\ pc'[b] = pc[b]
    BY <1>0 DEF Check, TestInv
  <1>5. /\ pc'[a] = "check" => look'[a] \in created' /\ \A h \in seen'[a] : cancelled'[h] /\ Encloses(h, look'[a])
        /\ pc'[a] = "start" => seen'[a] = {}
    <2>1. CASE cancelled[g]
      BY <1>0, <2>1 DEF Check
    <2>2. CASE ~cancelled[g]
      <3>1. /\ look'[a] = Enclosing(g) /\ seen' = seen
            /\ pc'[a] = IF Enclosing(g) = NoGroup THEN "start" ELSE "check"
        BY <1>0, <1>1, <2>2 DEF Check, TestInv
      <3>2. \A h \in seen[a] : cancelled[h]
        BY <1>0 DEF TestInv
      <3>3. \A h \in seen[a] : Enclosing(g) # NoGroup /\ Encloses(h, Enclosing(g))
        BY <1>2, <2>2
      <3> QED
        BY <1>0, <1>1, <3>1, <3>2, <3>3
    <2> QED
      BY <2>1, <2>2
  <1>6. ASSUME NEW b \in Actors
        PROVE  /\ pc'[b] = "check" => look'[b] \in created' /\ \A h \in seen'[b] : cancelled'[h] /\ Encloses(h, look'[b])
               /\ pc'[b] = "start" => seen'[b] = {}
    <2>1. CASE b = a
      BY <1>5, <2>1
    <2>2. CASE b # a
      BY <1>0, <1>4, <2>2 DEF TestInv
    <2> QED
      BY <2>1, <2>2
  <1> QED
    BY <1>3, <1>6 DEF TestInv, Encloses, Enclosing

(* The body begins, and the test is over.                                  *)
LEMMA TestEnds ==
  ASSUME GroupInv, TestInv, NEW a \in Actors, StartBody(a)
  PROVE  TestInv'
  <1> USE GroupAssumption, ActorSets
  <1>1. /\ pc[a] = "start" /\ created' = created /\ cancelled' = cancelled /\ look' = look
        /\ pc' = [pc EXCEPT ![a] = "running", ![job[a]] = "body"]
        /\ seen' = [seen EXCEPT ![a] = {}] /\ pc \in [Actors -> Pcs]
    BY DEF StartBody, groupVars, GroupInv, TypeOK
  <1>2. seen[a] = {} /\ seen' = seen
    BY <1>1 DEF TestInv
  <1>3. \A b \in Actors : pc'[b] \in {"check", "start"} => pc'[b] = pc[b]
    BY <1>1
  <1> QED
    BY <1>1, <1>2, <1>3, TestUntouched

LEMMA TestKeeps == GroupInv /\ TestInv /\ [Next]_vars => TestInv'
  <1> SUFFICES ASSUME GroupInv, TestInv, [Next]_vars PROVE TestInv'
    OBVIOUS
  <1> USE ActorSets
  <1>0. pc \in [Actors -> Pcs] /\ cancelled \in [Groups -> BOOLEAN]
    BY DEF GroupInv, TypeOK
  <1>1. ASSUME NEW a \in Bodies, NEW g \in Groups, CreateGroup(a, g) \/ Wait(a, g) PROVE TestInv'
    BY <1>0, <1>1, TestUntouched DEF CreateGroup, Wait, groupVars, testVars
  <1>2. ASSUME NEW a \in Bodies, NEW g \in Groups, Cancel(a, g) PROVE TestInv'
    <2>1. /\ \A b \in Actors : pc'[b] \in {"check", "start"} => pc'[b] = pc[b]
          /\ \A h \in Groups : cancelled[h] => cancelled'[h]
          /\ look' = look /\ seen' = seen /\ created' = created
      BY <1>0, <1>2 DEF Cancel, testVars
    <2> QED
      BY <2>1, TestUntouched
  <1>3. ASSUME NEW a \in Bodies, NEW j \in Jobs, SubmitJob(a, j) PROVE TestInv'
    BY <1>0, <1>3, TestUntouched DEF SubmitJob, testVars
  <1>4. ASSUME NEW w \in Workers, NEW j \in Jobs, StartRunner(w, j) PROVE TestInv'
    BY <1>0, <1>4, TestUntouched DEF StartRunner, groupVars, testVars
  <1>5. ASSUME NEW a \in Actors, BodyEnds(a) PROVE TestInv'
    <2>1. /\ \A b \in Actors : pc'[b] \in {"check", "start"} => pc'[b] = pc[b]
          /\ cancelled' = cancelled /\ look' = look /\ seen' = seen /\ created' = created
      BY <1>0, <1>5 DEF BodyEnds, groupVars, testVars
    <2> QED
      BY <2>1, TestUntouched
  <1>6. ASSUME NEW a \in Actors, Settle(a) PROVE TestInv'
    <2>1. /\ \A b \in Actors : pc'[b] \in {"check", "start"} => pc'[b] = pc[b]
          /\ cancelled' = cancelled /\ look' = look /\ seen' = seen /\ created' = created
      BY <1>0, <1>6 DEF Settle, Return, testVars
    <2> QED
      BY <2>1, TestUntouched
  <1>7. ASSUME NEW a \in Actors, PushPending(a) \/ SubmitRunner(a) \/ WaitTest(a) \/ WaitWake(a)
                                 \/ CancelSwap(a) \/ CancelSettle(a)
        PROVE  TestInv'
    <2>1. /\ \A b \in Actors : pc'[b] \in {"check", "start"} => pc'[b] = pc[b]
          /\ cancelled' = cancelled /\ look' = look /\ seen' = seen /\ created' = created
      BY <1>0, <1>7 DEF PushPending, SubmitRunner, WaitTest, WaitWake, CancelSwap, CancelSettle, groupVars, testVars
    <2> QED
      BY <2>1, TestUntouched
  <1>8. CASE UNCHANGED vars
    BY <1>8, TestUntouched DEF vars, groupVars, testVars
  <1>9. ASSUME NEW a \in Actors, Continue(a) \/ BodyEnds(a) PROVE TestInv'
    BY <1>5, <1>6, <1>7, <1>9, TestBegins, TestLooks, TestEnds DEF Continue
  <1> QED
    BY <1>1, <1>2, <1>3, <1>4, <1>8, <1>9 DEF Next

(* Cancellation reaches every group nested in the cancelled one, at any    *)
(* depth: a job taken after the flag was set, whose test reads the flags   *)
(* one by one while anyone cancels, does not begin.                        *)
THEOREM CancelReaches == FairSpec => CancelReachesNested
  <1>1. Init => TestInv
    BY DEF Init, TestInv, Actors, Threads, Bodies
  <1>2. TestInv /\ [Next]_vars =>
          [\A a \in Actors : pc[a] = "start" /\ pc'[a] = "running" => seen[a] = {}]_vars
    BY DEF TestInv
  <1>3. FairSpec => Spec
    BY PTL DEF FairSpec
  <1> QED
    BY <1>1, <1>2, <1>3, TestKeeps, GroupInvariant, PTL DEF Spec, CancelReachesNested

(* When Wait returns, every job submitted to the group has been settled.   *)
THEOREM WaitIsDone == FairSpec => WaitMeansDone
  <1>1. GroupInv /\ [Next]_vars =>
          [\A a \in Bodies : pc[a] = "waitTest" /\ pc'[a] = "body"
             => \A j \in Jobs : GroupOf[j] = grp[a] => phase[j] \in {"new", "settled"}]_vars
    <2> SUFFICES ASSUME GroupInv, Next, NEW a \in Bodies, pc[a] = "waitTest", pc'[a] = "body",
                        NEW j \in Jobs, GroupOf[j] = grp[a]
                 PROVE  phase[j] \in {"new", "settled"}
      OBVIOUS
    <2>1. activeJobs[grp[a]] = 0
      <3> USE ActorSets
      <3>0. pc \in [Actors -> Pcs] /\ a \in Actors
        BY DEF GroupInv, TypeOK
      <3>1. ASSUME NEW b \in Actors, Continue(b) \/ BodyEnds(b) PROVE b = a /\ WaitTest(a)
        <4>1. ~BodyEnds(b)
          BY <3>0 DEF BodyEnds
        <4>2. CASE StartBody(b)
          <5>1. job[b] \in Jobs /\ phase[job[b]] = "popped" /\ pc[b] = "start"
            BY <4>2 DEF StartBody, GroupInv, HoldInv, HolderPcs, PhasesAt
          <5>2. a # job[b] /\ a # b
            BY <5>1 DEF GroupInv, ThreadInv, Live
          <5> QED
            BY <3>0, <4>2, <5>1, <5>2 DEF StartBody
        <4>3. CASE ~StartBody(b)
          BY <3>0, <3>1, <4>1, <4>3 DEF Continue, PushPending, SubmitRunner, Pop, Check, Return, Settle, WaitTest,
                                  WaitWake, CancelSwap, CancelSettle
        <4> QED
          BY <4>2, <4>3
      <3>2. ~ \E w \in Workers, k \in Jobs : StartRunner(w, k)
        BY <3>0 DEF StartRunner
      <3>3. ~ \E b \in Bodies : \/ \E g \in Groups : CreateGroup(b, g) \/ Wait(b, g) \/ Cancel(b, g)
                                \/ \E k \in Jobs : SubmitJob(b, k)
        BY <3>0 DEF CreateGroup, Wait, Cancel, SubmitJob
      <3>4. WaitTest(a)
        BY <3>1, <3>2, <3>3 DEF Next
      <3> QED
        BY <3>0, <3>4 DEF WaitTest
    <2>2. grp[a] \in Groups
      BY ActorSets DEF GroupInv, PcInv, GroupPcs
    <2>3. Unsettled(grp[a]) = {}
      <3>1. Cardinality(Unsettled(grp[a])) = 0
        BY <2>1, <2>2 DEF GroupInv, CountInv, CountIsUnsettled
      <3> QED
        BY <3>1, CountedSets, FS_EmptySet
    <2> QED
      BY <2>3 DEF Unsettled
  <1>2. FairSpec => Spec
    BY PTL DEF FairSpec
  <1> QED
    BY <1>1, <1>2, GroupInvariant, PTL DEF Spec, WaitMeansDone
=============================================================================
