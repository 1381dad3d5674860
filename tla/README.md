# TLA+ verification of tge-core

tge-core is the base library of a modular engine: threads and jobs, an event loop, an event system, a module
runtime, logging, files, processes, sockets, allocators, and the mathematics around them. Its parts are small, but
most of them are called from several threads, call back into user code with no lock held, and must survive being
called from inside those callbacks. That, and what the operating system
may do between any two of their calls to it, is what this project models and checks. Source paths below are relative
to the repository.

Contents: 1 inventory · 2 modules and their correspondence with the code · 3 runs · 4 bounds · 5 fairness ·
6 proofs · 7 disagreements found · 8 not modelled · 9 plan.

## 1. Inventory

| Component | State | Operations | Hard behaviour | What makes it correct |
|---|---|---|---|---|
| MPSC queue `public/tge/threading/mpsc_queue.hpp` | `m_head`, `m_tail`, cells and their `next` | `Enqueue` (any thread), `Dequeue` (one thread), destructor | between a producer's exchange and its link the list is broken | FIFO; no freed cell touched; no cell leaked |
| Thread pool `private/threading/thread_pool.*` | priority queue, sequence, terminate flag, condition variable | `Execute`, the worker loop, `Terminate` | wakeups, drain on termination | every item is run once, in priority order; nothing left at the join |
| Job scheduler `private/threading/job_scheduler.*`, `job_system.cpp` | two relaxed counters, completion condition | `SubmitJob`, the job wrapper, `WaitForAllJobs`, teardown | counters moved one after the other, jobs that submit jobs | counters exact; waits return |
| Job groups `private/threading/job_group.cpp` | shared state per group: queue, count, cancelled, parent; thread-local current group | create, `SubmitJob`, runner, `Wait` (runs jobs inline), `Cancel` | cancel against runners; nesting; everyone waiting | each job settled exactly once; nobody waits for ever; cancellation reaches nested groups |
| Serial job queue `public/tge/threading/serial_job_queue.hpp` | pending, completed, cancelled, worker thread | `Start`, `Stop`, `Flush`, `Submit`, `Poll`, `Cancel` | stop and flush against the worker and other submitters | results in order; no job lost or doubled; `Stop` returns |
| Event loop, poller `private/threading/event_loop.cpp`, `poller.cpp` | post queue (MPSC), watches, timer heap, wake signal, stopping flag; what the poller is asked to watch | `Post`, `Watch`, `Unwatch`, `ScheduleAt`, `CancelTimer`, `Run`, `Terminate`; `Add`, `Remove`, `Wait`, `Wake` | a post against the reset of the wake signal; callbacks that change what the pass iterates; more ready than one wait reports; on Windows, edge-like events over level-like polls | no lost wake; nothing ready is slept over; order; stale keys ignored; `Terminate` returns |
| Event system `private/events/system.cpp` | per type: entries, snapshot, dirty mark; queue of events | `Subscribe`, `Unsubscribe`, `Emit`, `QueueEmit`, drain | all of them from handlers and from other threads in the middle of a dispatch | snapshots current; order; no event lost or doubled |
| Module runtime and graph `private/module/*` | modules, active modules, schedule, order | `Initialize`, `Update`, `Terminate`, `Resolve` | failure half way; cycles; a second boot | dependencies up before and down after; stable order; exact notifications |
| Logging `private/logging/log_system.cpp` | channels, masks, queue and history per channel, listeners | `Write`, `DispatchListeners`, register (with replay), unregister, `Initialize`, `Terminate` | callbacks unlocked, replay against delivery | each listener gets each message due to it once |
| Parallel for `public/tge/threading/parallel_for.hpp`, `private/threading/parallel_for.cpp` | none of its own: a group and its chunks | `ParallelFor` | unsigned arithmetic at its limits; a cancelled enclosing group | every index once; no empty chunk |
| File I/O `private/io/*` | the file system's | `WriteFileAtomically`, `ReadWholeFile` | a failure or a crash after any call; two writers; a link; a reader meanwhile | the content is replaced as a whole or not at all; nothing left behind |
| Directory watch `private/io/directory_watch.cpp` | descriptor-to-path table (Linux), one overlapped read (Windows) | `Initialize`, `ReadChanges`, `Terminate` | folders made, moved and removed during the walk; overflow; the system writes into a buffer nobody waits for | no change missed without a word; the buffer outlives the read |
| Child processes `private/process/*` | id or handle, exit; the output file | `Start`, `TryGetExit`, `Terminate` | closed standard streams; inherited descriptors; reused ids; other code that reaps | own exit, own streams, nothing leaked; the program gets its arguments |
| Networking `private/net/*` | a socket per object; the lookup's shared state | `Initialize`, `Connect`, `Accept`, `Receive`, `Poll`, `Terminate`; lookup `Start`, `Poll`, `Terminate`; `ReadSystemRootCertificates`, `VerifyServerChain` | a connect that settles between two calls; two systems that answer differently; a resolver that outlives the lookup; an error that the next call of the system replaces | no failed connect hidden; no socket leaked; no write into freed state; a verdict that is the policy's |
| Memory `private/memory/*` | free list, offsets; counters per category; a header per block | four allocators; `new`, `delete`, `CScopedCategory`, `Reset`, hooks | split and merge with alignment padding; counters reset while blocks are live; hooks called outside any lock | blocks disjoint and aligned; statistics exact |
| Console `private/logging/log_system.cpp` | saved modes and code page | `PrepareConsole`, `RestoreConsole` | two outputs on one console; a second `Initialize` | the console is given back as it was found |
| Command registry, startup, math and plain data | see section 8 | | | |

How they interact. `Runtime` boots the modules; the core module's boot starts logging, threading and the event
system, and its frame drains the event queue and the log. Job groups and `ParallelFor` submit to the scheduler,
which submits to the pool; a job may call any of them. The event loop takes posts from other threads through the
MPSC queue and waits in the poller; sockets, lookups and directory watches are what it waits for. Listeners,
handlers, posted functions, timers and job bodies are all user code that may call back in. The services (files,
watch, processes, sockets, lookups, console) do not call one another: what they meet is the operating system, whose
own actions are part of their models and marked external.

## 2. Modules and their correspondence with the code

One module per component; `PROJECT.json` maps each definition to its lines. A critical section of a mutex is one
action; an atomic access, a wait on a condition variable, a notification, and a callback are steps of their own.

| Module | Role |
|---|---|
| `FifoQueue` | abstract: items come out once, in the order they went in |
| `MpscQueue` | `CMpscQueue`, every atomic access a step; `order` and `received` are history variables. `ImplementsFifo` is the refinement: an item enters the abstract queue at its exchange |
| `JobSchedulerProofs`, `JobGroupProofs`, `SerialJobQueueProofs`, `EventLoopProofs`, `LogSystemProofs`, `ServicesProofs`, `FrameProofs` | the proofs (section 6): the first with `ThreadPool`, that of the event loop with its queue and with `Poller`, the last two on `MCServices` and `MCFrame` |
| `SequenceFilters`, `SequenceFilterProofs` | the elements of a sequence that are in a set, and the lemmas about them |
| `Executor` | abstract: what the scheduler promises to the code above it: work handed over is started once and finishes |
| `ThreadPool`, `JobScheduler` | `CThreadPool` and `CJobScheduler` composed; `phase` follows each job. `ImplementsExecutor` is the refinement |
| `JobGroup` (`MCJobGroup`) | `CJobGroup` on `Executor` instead of the pool. An actor is a client, a worker, or the body of a job, which runs on the thread of whoever took the job, so that a body may wait inside a body. The test for cancellation reads one flag of the chain of parents a step, and the body begins in a step after the last |
| `SerialJobQueue` | the queue, its owner (start, stop, flush), clients and worker |
| `EventLoop` | extends `MpscQueue` with the loop, its watches and timers, the Linux poller as one step per call, and the operating system's part (descriptors become readable, time passes), which is marked external |
| `Poller` | `CPoller` by itself, system call by system call: epoll with its limit of keys per wait; on Windows, sockets polled in chunks, the event each socket sets, caller's events of both reset kinds, the limit of handles |
| `MCEventLoop` | the loop and its poller in one run: `part` says which of them a behaviour is about |
| `EventSystem` | dispatches as a stack per thread, so that handlers nest |
| `ModuleGraph`, `Runtime` (`MCRuntime`) | `Resolve` one emitted module per step; the boot, one module per step, with failure at each; frames; termination; a second boot, with the same context or another. A module's declarations are a list, in which one module may stand several times |
| `LogSystem` (`MCLogSystem`) | calls as a stack of frames per thread; a message is its number, which is the order of the stamps because both are taken under the mutex |
| `Console` | what logging does to the Windows console: one, two or no console behind the two outputs |
| `ParallelFor` | the choice of chunks and their bounds in arithmetic modulo `UintRange`, and the jobs in any order; the group is taken at its word |
| `FreeListAllocator`, `ArenaAllocators` | `CFreeListAllocator`; `CStackAllocator`, `CPoolAllocator`, `CLinearAllocator`: addresses in words of eight bytes, headers, padding and links included |
| `MemoryTracking` | the global operators: header, category of the thread, counters modulo `CounterRange`, and the calls of the hooks, in their place among these |
| `Platform` | which branch of the preprocessor a behaviour is in; a model of system code has both |
| `AtomicFile` | abstract: one file whose content is replaced as a whole, also over a crash |
| `AtomicWrite` | `WriteFileAtomically` and `ReadWholeFile`, one system call a step, each of which may fail; the folder is a journal of which a crash keeps a prefix; a file's unsynced bytes may be lost. `ImplementsAtomicFile` is the refinement |
| `DirectoryWatch` | Linux: inotify's descriptors, queue and overflow; folders are inodes, paths sequences of names; other programs act between any two calls |
| `WindowsDirectoryWatch` | the overlapped read, its buffer and its cancellation |
| `ChildProcess` | processes with their ids, descriptors with their numbers, `Start` one call a step with its failures, other code's children. An exit status taken by other code is a failure that `TryGetExit` reports; an id so freed is not assumed to be given out again before that |
| `ProgramLaunch` | Windows: quoting of arguments against the rules the started program reads them by, and the search of PATH against the shell's; pure operators checked on every input up to the bound |
| `AddressLookup`, `Sockets` | the lookup's state, shared with the system; sockets as the system sees them, and what the calls answer; of datagram sockets only how they are opened and closed |
| `Certificates` | base64 with its 16-bit accumulator and PEM as operators, checked against their declarative meaning; the order in which root certificates are looked for; the Windows certificate calls, each of which may fail and may replace the last error |
| `MCServices` | the parts that stand alone in one run: `kind` says which of them a behaviour is about, the others keep a fixed initial state |
| `MCFrame` | the same for runtime, event system, allocators, memory tracking and parallel for |

Data is abstracted to identity: a job, an event or a message is a model value or a number; texts, colours,
formats, file contents and the values of job results are left out. Definitions named after what they get wrong
(`DequeueUnchecked`, `SettleUnlocked`, ...) are not part of any specification: they are the slips that the
properties must catch, listed under `mutants` in `PROJECT.json`.

## 3. Runs

| Run | Checks | Shows |
|---|---|---|
| `job_scheduler` | `CountersAccountForJobs`, `NothingLeftAtJoin`, `PriorityRespected`, `WaitReturns`, `ImplementsExecutor` | the two counters never drift; termination drains even what jobs submit while workers leave; no wakeup is lost |
| `job_group` | `GroupsAreSound`, `CancelReachesNested`, `WaitMeansDone`, `WaitReturns` | a job is settled exactly once whoever takes it; every queue has as many runners to come as jobs; a job taken after a cancel of its group, or of one around it, does not begin (one whose test is under way may: section 7); waits return |
| `serial_job_queue` | `JobsAreKept`, `PendingIsTaken` | order and accounting over stops, flushes and restarts |
| `serial_stop`, `serial_cancel` | `StopReturns`; `CancelledResultDiscarded` | violated: section 7 |
| `event_loop` | `NothingSleptOver`, `PostsRunInOrder`, `ReadinessIsForThisWatch` | a posted function is always covered by a raised signal or a pass under way; a key collected before an unwatch runs nothing; the poller never sleeps over what is ready and reports every event it took, on both platforms |
| `event_loop_liveness` | `PostedIsRun`, `TimersFire`, `TerminateReturns` | posts run and timers fire, unless the loop stops or fails; a due timer is kept back only by sooner ones scheduled after it; `Terminate` returns from every place of the pass |
| `frame`: runtime | `OrderIsStable`, `LifeIsOrdered`, `RefusedForCause` | for every graph of three modules the order is topological and stable; what is refused is a cycle or a dependency declared twice, and each of these is refused; at every step, after failures and in a second boot too, what an active module depends on is active, it was told of all that is active, and what a frame ticks is active, but for what a boot with another list of modules has left |
| `frame`: events | `ListsAreRight`, `OwnUnsubscribeIsImmediate`, `DrainInOrder` | compaction, reuse of snapshots and the drain agree whatever handlers do |
| `frame`: memory | `AllocatorsAreSound`, `TrackingIsExact` | blocks and free blocks lie in the buffer without overlap and free ones that touch are one, and the like for pool, stack and linear allocators; a category's counter is what is held of it, less what `Reset` forgot; the hooks see each address allocated and freed in turn |
| `frame`: parallel | `RangeIsPartitioned` | for every range, grain and number of threads the chunks cover the range once |
| `log_system` | `ListenersAreServed` | delivery and replay are exclusive and complete; a listener that skips the history gets nothing older than its registration |
| `services`: queue | `NoUseAfterFree`, `NoCellLeaked`, `ImplementsFifo` | a delayed link never writes to a freed cell; the destructor frees every cell; FIFO in exchange order |
| `services`: write | `ImplementsAtomicFile`, `KeepsLinkAndMode`, `ReadIsWhole` | no failure, crash or second writer tears the file; an error means unchanged; a reader gets one content |
| `services`: watches | `NoChangeUnseen` | with no program moving folders *within* the tree, or putting one in the place of another, during a walk or a read, everything is watched, or an error or overflow was reported (otherwise: `watch_tree`); the end of the root is reported even if its event was lost |
| `services`: processes | `ChildIsOwn`, `ProgramIsLaunched` | no status, stream or argument is another's |
| `services`: network | `FailedConnectIsReported` | a failed connect is told of before any answer that hides it, on both platforms |
| `services`: certificates | `CertificatesAreRight` | PEM and base64 are decoded as they are defined (of a text without a marker that starts with the digit 0 the property says nothing: section 7); the roots are all those of the first source that has any; the error returned is that of the first call that failed |
| `services`: several | `SystemWritesIntoLive`, `NothingIsLeaked` | what the system may still write into is not freed; what a call took is given back on every path: temporary files, handles, zombies, address lists, sockets, certificates, console settings |
| `watch_tree`, `receive_connect` | `TreeIsWatched`; `ConnectNeverPassesForNone` | violated: section 7 |

Several of these are conjunctions of parts that are named and explained where they are defined: `GroupsAreSound` of
`CountIsUnsettled`, `NoJobStranded` and `NestingIsRight`; `JobsAreKept` of `ResultsInOrder`, `EveryJobAccountedFor` and
`FlushForgets`; `ListsAreRight`, `LifeIsOrdered`, `ListenersAreServed`, `NothingSleptOver` and those of `MCServices` and
`MCFrame` likewise. In a run with `kind` or `part`, the state space is the sum, not the product, of the parts'.

Run one with `tlc -config <cfg> <module>` in this directory. Deadlock is checked except where the system may
come to rest: all jobs done and joined, all modules down, the queue destroyed, nothing left to log, every service let
go of.

## 4. Bounds

- `MpscQueue`: three producers and four cells. Two unlinked pushes and a third behind them, and an empty report
  in between, need three producers; the proof covers all other sizes.
- `JobScheduler`: two workers, a client, three jobs, two priorities: one worker leaving while the other's job
  submits, and ties and differences of priority.
- `JobGroup`: a client, a worker, three jobs in three groups, one of which is nested: enough for a wait inside a
  body that runs another group's job, and for a cancel at each point of it.
- `SerialJobQueue`: an owner and a client, two ids, three submissions: an id submitted again after a cancel.
- `EventLoop`: two foreign threads and the loop, two cells, two descriptors, `MaxId` = 3 watches and timers,
  `MaxTime` = 1; producers, cells and descriptors are interchangeable and used as symmetry. `MaxId` and `MaxTime`
  are guards on the identifiers handed out and on the clock. The liveness run uses no symmetry and one of each.
- `Poller`: two sockets and two events, one of which resets itself; two keys per epoll wait with up to four ready, one
  socket per poll, three handles of which the poller's own take two: each limit is below what is watched, so that
  it is met. A descriptor is a socket of the poller, and the symmetry is the same.
- `EventSystem`: two threads, three handles, two queued events, two dispatches nested or concurrent
  (`MaxHandles`, `MaxQueued`, `MaxDispatches`).
- `Runtime`: three modules; all graphs over three kinds of declaration or none, plus self-declarations, bad contracts, unmet
  versions, two or three entries for one module and a partial schedule on a few; two boots (`MaxBoots`), on the graphs of
  three edges with any two of five contexts, which load other modules, in another order or with another schedule.
- `LogSystem`: two threads, two channels (symmetric), a global and a channel listener, two messages, a history of
  one message, so that it overflows, one level of calls from inside callbacks (`MaxNesting`), and two calls of
  `Initialize` or `SetLogLevel` (`MaxChanges`). A key registers once.
- `ParallelFor`: unsigned numbers wrap at 8, so every range, grain and sum near the limit is tried; up to three threads.
- `FreeListAllocator`: 16 words, sizes 1, 2 and 5, alignments 1, 2 and 4, every base: three blocks, holes that merge
  with one neighbour or both, and holes too small to split. `ArenaAllocators`: 12 words or four objects.
- `MemoryTracking`: two threads, two addresses, one nested scope, counters that wrap at 3, one `Reset`.
- `AtomicWrite`: two writers, two names (so that they collide), contents of two bytes (so that one can be torn), two
  tries (`MaxTries`) for `NumTemporaryNameTries`.
- `DirectoryWatch`: three folders, one of which may come with another in it, two names, three changes by other
  programs (`MaxChanges`), a queue of three events (two in `watch_tree`). `MaxQueue` is not below the number of folders,
  or, after an overflow, there is no end to descriptors (section 7). Where programs replace no folder during a walk or a
  read, four folders with a queue of four and five changes were also explored, without an error.
  `WindowsDirectoryWatch`: a buffer of one entry, three changes.
- `ChildProcess`: two objects, two ids, descriptors 0 to 4. `ProgramLaunch`: every argument list of up to `MaxWord`
  characters of four kinds; a PATH of two folders. `AddressLookup`: three lookups. `Sockets`: three sockets for four
  objects.
- `Certificates`: texts of up to six markers and bodies in any order, every body of up to three characters at the edges of
  the alphabet's ranges, four for a whole group; two certificates in a store, two in a folder.
- Writers, names, children and ids are interchangeable in `Services.cfg`; the sets of the parts share model values
  so that one symmetry serves all of them, which is sound because no two parts are in one behaviour.

## 5. Fairness

Only liveness properties use it, and only in this form: a thread inside an operation keeps running (weak fairness
of its steps), as any preemptive scheduler provides. Nobody has to call an operation, no descriptor has to become
readable, no spurious wakeup has to happen. Three additions:

- `JobScheduler`: strong fairness of `Settle`: a worker that competes for a mutex with waiters that take it again and
  again gets it in the end, as the operating system's mutexes ensure in practice.
- `JobGroup`: strong fairness of `BodyEnds`: job bodies return; and the abstract `Executor` starts what it was
  given, which `ImplementsExecutor` establishes for the scheduler.
- `EventLoop`: time passes (`Tick`).

`JobGroup.WaitReturns` rests on the one-millisecond timeout of the wait (job_group.cpp): completion is notified
without the mutex, and the timed wake is a step of the waiter.

## 6. Proofs

With TLAPS, for every value of the constants that the assumptions named below allow. A theorem about the runs'
specification, and not about a fixed instance: what section 4 bounds (threads, jobs, cells, names, ids) is any set
here, and the bounds on counters are any number. The inductive invariants were also model-checked on the runs'
instances, that of the runtime on fewer setups. One lemma per action says that the action keeps the invariant, part by part where it disturbs several.

| Module | Theorems | Properties of section 3 that they establish |
|---|---|---|
| `EventLoopProofs` | `MpscInvariant`, `MpscTypeCorrect`, `MpscNoUseAfterFree`, `MpscNoCellLeaked`, `MpscImplementsFifo` | `NoUseAfterFree`, `NoCellLeaked`, `ImplementsFifo` |
| | `LoopInvariant`, `LoopPostsRunInOrder`, `LoopReadiness`, `LoopSleepsOverNothing` | `PostsRunInOrder`, `ReadinessIsForThisWatch`, `NothingSleptOver` |
| `JobSchedulerProofs` | `SchedulerInvariant`, `SchedulerTypeCorrect`, `SchedulerCounters`, `SchedulerDrains`, `SchedulerPriority`, `SchedulerImplementsExecutor` | `CountersAccountForJobs`, `NothingLeftAtJoin`, `PriorityRespected`, `ImplementsExecutor` but for its fairness |
| `JobGroupProofs` | `GroupInvariant`, `GroupsSound`, `CancelReaches`, `WaitIsDone` | `GroupsAreSound`, `CancelReachesNested`, `WaitMeansDone` |
| `SerialJobQueueProofs` | `SerialInvariant`, `SerialTypeCorrect`, `SerialJobsAreKept` | `JobsAreKept` |
| `ServicesProofs` | `WriteInvariant`, `ReadsAreWhole`, `TempsAreRemoved`, `LinkAndModeAreKept`, `WritesAreAtomic` | `ReadIsWhole`, `KeepsLinkAndMode`, `ImplementsAtomicFile` |
| | `PartsInvariant`, `SystemWritesAreSafe`, `ChildrenAreOwn`, `FailedConnectsAreReported`, `NothingLeaks`, `WindowsWatchMissesNothing`, `RootEndIsNoticed`, `VerdictsAreOwn` | `SystemWritesIntoLive`, `ChildIsOwn`, `FailedConnectIsReported`, `NothingIsLeaked`; of `NoChangeUnseen` the Windows half and the end of the root, the calls' half of `CertificatesAreRight` |
| `FrameProofs` | `RuntimeInvariant`, `ResolvedOrder`, `ModulesLiveInOrder`, `RefusalsAreExact` | `OrderIsStable`, `LifeIsOrdered`, `RefusedForCause` |
| | `EventInvariant`, `DispatchListsAreRight`, `UnsubscribeIsImmediate`, `QueuedEventsInOrder` | `ListsAreRight`, `OwnUnsubscribeIsImmediate`, `DrainInOrder` |
| | `ParallelForPartitions` | `RangeIsPartitioned` |
| | `AllocatorsInvariant`, `AllocatorsShareNoWord` | `AllocatorsAreSound` |
| | `TrackingInvariant`, `UsageIsExact` | `TrackingIsExact` |
| `LogSystemProofs` | `LogInvariant`, `LogTypeCorrect`, `LogListenersAreServed` | `ListenersAreServed` |

`SequenceFilterProofs` has the lemmas that the proofs about the serial queue and the poller rest on, and those about the
runtime, the event system, logging and the Linux watch: that a set of numbers has a least one, and what `Keep(s, S)`, the elements of `s` that are in `S`, has as its elements, its length and its order.

**Assumptions.** That the null pointer, "none" and other special values are not among the things they are told apart from,
and that sets of different things have nothing in common (`MpscAssumption`, `PoolAssumption`, `SchedulerAssumption`, `GroupAssumption`, `LoopAssumption`,
`PollerAssumption`, `WriteAssumption`, `LookupAssumption`, `ProcAssumption`, `NetAssumption`, `ConsoleAssumption`,
`CertAssumption`), that the modules' list, dependencies and schedule are a context's (`GraphAssumption`,
`RuntimeAssumption`), that the main thread is a thread (`EventAssumption`), that an unsigned has a value beside zero and the number
of workers is one (`ParallelAssumption`), that sizes are numbers, alignments positive, a free list's buffer has room
for a free block, and a counter has a value (`FreeListAssumption`, `ArenaAssumption`, `MemAssumption`), that folders are finitely many, the root is
none of them and the queue holds an event (`WatchAssumption`), that the two kinds of listeners
are told apart and the main thread is a thread (`LogAssumption`), that jobs are finitely many, that there is a worker and a priority, that a file has a byte, that one wait
has room for the poller's own two handles, and that bounds are numbers (`SerialAssumption` is no more than that). TLC evaluates
each on the run of its module.

**MPSC queue.** That a delayed link writes to a live cell depends on where that cell lies with respect to the tail, which
depends on which links are missing. The argument is about `chain`, the function that lists the stub and then the cells in
the order of their exchanges. `MpscInv` says:

- `HistoryInv`: what was received is a prefix of the order of exchanges, and no cell occurs twice in it;
- `EndsInv`: the tail is the chain's element number `Len(received)`, the head its last;
- `FreshInv`: a cell being pushed but not exchanged is its producer's alone, and is not in the chain;
- `GapInv`: a producer about to link holds chain elements `i - 1` and `i` for some `i` *beyond what was received*,
  and element `i - 1` has no successor yet;
- `LinkInv`: every other element points to the next, and no two producers link the same cell;
- `HeapInv`: allocated are exactly the chain from the tail on and the fresh cells (and, in the destructor, from its
  cursor on).

`GapInv` is the point: the consumer cannot pass a gap, so the predecessor of a missing link is at or beyond the tail,
hence allocated. `FifoStep` maps each action to `Put`, `Take` or a stutter.

**Scheduler and pool.** The counters say nothing of who decrements them next, so `SchedulerInv` names the holder of every
job under way: a job that is counted is held by one caller (`CallInv`), a queued one by one item (`QueueInv`), a taken one
by one worker, whose place in the code tells the job's phase (`WorkerInv`); each in both directions. Every action then
moves one job from one holder to the next, and the counted sets gain or lose one element. `TermInv` has what draining
needs: once termination began no client is inside the scheduler, so only a worker that has not left can push, and the last
one to leave found the queue empty.

**Job groups.** The same idea, harder because a job's body is itself an actor, on the thread of whoever took the job.
`HoldInv`, `QueueInv` and `DropInv` give each job of a group to one actor, to the group's queue or to what a `Cancel` took
out; `CountInv` counts them. `RunnerInv` says that a runner is handed to the scheduler after its job was pushed, from which a
queue never has more jobs than runners to come, although runners and waiters take jobs in any order. `ThreadInv` makes
the actors alive on a thread a stack: one is on top, the others wait for the body they called. With it `CurrentInv` follows
(`tCurrent` is the group of the body on top, each saved value that of the body below), and with that, `NestInv`: a group's
parent is the group it was made in. `CancelReaches` then turns the code's walk over parents into
`Encloses`, at any depth: of the flags that were set when the job was taken, those still to be read are in the rest of the walk,
which meets the first of them.

**Serial queue.** Every ticket handed out is in some place (`AccountInv`: polled, completed, with the worker,
pending, cancelled, flushed), each place is in order and so are the places among themselves (`OrderInv`), and nothing that
can still come out is as old as the last `Flush` (`RecentInv`). That a `Flush` finds no worker needs `OwnerInv`: where in
`Stop` or `Flush` the owner is, and that the worker has been joined by then.

**Event loop and poller.** On top of `MpscInv`, whose steps the loop's are (`LoopQueue`): what was taken off the queue is
what ran and then what is still to run (`RunInv`); ids are given out once and a collected key is an id that a wait reported
(`IdInv`); and, the heart of it, `WakeInv`: after the drain of a pass, an item at the queue's tail is covered by the raised
signal or by a poster that is about to raise it. The poller's invariant: entries are distinct and their handles fit one wait
(`EntriesInv`); a socket that is readable has set the event again, or this wait has found it or has still to look at it
(`SocketInv`); what a wait took of self-resetting events is in its keys (`TakenInv`).

**Atomic write.** A crash may bring back any state of the folder since the last sync of it, so `PlacedInv` is about every
state in the journal: each file that the path leads to there is whole, whole on disk, and its writer is past touching it.
`LinkInv`: the path is a link in all of these states or in none, and every writer resolved it so. `TempInv`: a temporary
name leads to the file of the writer that holds it. `ModeInv`: a writer's file has the mode of the file it will replace,
once taken, unless that mode changed since; "since" (`chmodSince`) includes the rename of another writer that had taken its
mode before the user's change. `WritesAreAtomic` is the refinement: the abstract content is what the path leads to,
the abstract past what it leads to in some state of the journal; resolving the link is the call, a rename takes effect, a
crash chooses from the past, the last call returns, and every other step is a stutter.

**The other services**, each with an invariant of its own (`PartsInv` is their conjunction):

- `LookupInv`: a lookup's memory is the object's exactly while it is live, and is not freed while the system works on it;
- `ReadInv`: the buffer is held while a read is pending, and what was made is what was seen, read, or waits (or an overflow
  or a loss was noted);
- `RootInv`: while the Linux watch is on, the root keeps its descriptor, and once the root has gone the watch knows of it, is to
  walk the tree again, or has an event to read that makes it: the root's own, or the one that says that events were lost;
- `ProcInv`: a child's id leads to the child until its end was reported or other code took it; a process made by `Start` has
  the streams it was asked to have; the `Start` under way has not made its process yet, and holds what it will release;
- `NetInv`: each open socket is one object's or that of an `Initialize` under way; a failed connect's error is there or was
  read; an answer given stands for a state in which it was true;
- `ConsoleInv`: what is saved is what was found; `CertInv`: which handles are held and which error stands, at each place of
  the code.

**Runtime.** `Resolve` emits, each time, the first module of the list that is not emitted and waits for nothing. `IsRun(o)`
says that of every element of `o`; `OrderInv`: what is emitted is such a run. Two runs agree as far as both go, so the order is a
function of the context's modules, which is what a second boot with the same list needs. `PendingInv`: the counter of a module is the number
of its entries less the number of emitted modules that it depends on; an entry that is repeated makes the first number larger than the
second can get. Hence no counter wraps, a module that declares another twice is never emitted, and a stop before the end means that
a module does so or that each of the rest waits for another of the rest: the two causes of `RefusedForCause`. `ActiveInv`: the active modules
are the first of the order. `ScheduleInv`: what is scheduled is loaded, or was left by an earlier boot. `LeftInv` and `ToldInv` are what
a failed boot makes necessary: a module that never came up has been told of modules that did, and stays so. If every context has the same
list, these come before it in *every* run, so that they are up again when the next boot reaches it; if not, what it is told of
besides is what `left` has.

**Event system.** `HandlersInv`, for each type: both lists are in the order of the handles, the count of the dead is
exact and at most half, a clean snapshot is what is subscribed. `SubscribedInv`: one subscription for each handle that is
alive. `FramesInv`: a dispatch walks handles given out before it began, and only the innermost dispatch of a thread is not in a handler.
With `RemovedInv` (nobody has removed what is alive) the step from the test of the alive flag to the call keeps
`OwnUnsubscribeIsImmediate`: an unsubscribing handler of the same thread would be a dispatch above it.
`BacklogInv`: the drain and after it the queue hold the numbers that follow the last one dispatched.

**ParallelFor.** There are at least two chunks and no more than items where chunks are cut at all (`IsCut`), also where the sum that rounds
up wraps, since a wrapped sum is smaller; so the bounds rise strictly, and the chunks are disjoint and make up
the range. The lemmas about quotients and products under it are proved for all naturals. `RanInv`: `func` was called with the
indices of the chunks that ran.

**Allocators.** `FreeListInv`: the free list ascends with at least a word between one block and the next (so that no two
touch), all of it lies in the buffer, and no extent of a block handed out meets it or another's. Allocation cuts one
block from the front; freeing puts an extent at the place where the addresses around it enclose it, and the walk of
`CoalesceFreeBlocks`, one block more at each step, keeps the words and restores the gaps. `ArenaInv`: stack and linear blocks
are piled in the order they were made, below the offset (`BumpInv`); an object of the pool is held or free, once
(`PoolInv`); and the usage is the number of words held and kept (`UsageInv`).

**Memory tracking.** The counters wrap, so they cannot be equal to anything: `CountInv` says that allocated less deallocated, plus what
`Reset` forgot, is *congruent*, modulo `CounterRange`, to the bytes of the blocks that count in the category, a call between
its counter and its block included. That a call counts the bytes of one block only is `OwnerInv`: an address is the heap's, one
call's or one live block's. `HookedInv` ties what the hooks were told last of an address to where it is.

**Logging.** What a listener is owed depends on threads that took messages from a queue long ago and have not called it yet.
`Has(frame, l, m)` says that a frame has the call of `l` with `m` to make, `Got(l, m)` that it was made or some frame has it. `LogInv`:

- `QueueInv`: a message is queued on one channel, once, and not after it became history;
- `OnceInv`: a call stands in one frame of one thread, or was made, never both, and only with messages that left the queues;
- `ListInv`: a listener that has not registered, or whose registration is before its lock, is in no list and has got
  nothing, and registers in one frame only: so its replay cannot repeat what a dispatch gave it;
- `DispatchInv`: the channels a dispatch has passed hold only later messages; `RegisterInv`: the frame above a registration is its own
  dispatch, so that when it locks, no message older than itself is queued on a channel the system knows;
- `ServiceInv`: what a listener is due, it has got; what it skipped, it has not. `DispatchPending` keeps it because it takes the queue and
  copies the lists in one critical section, `RegisterLocked` because the replay and the entry in the list are in one.

**Only model-checked.** All liveness (`WaitReturns`, `PendingIsTaken`, `PostedIsRun`, `TimersFire`, `TerminateReturns` and the fairness
part of `ImplementsExecutor`) is out of the prover's reach. `ProgramIsLaunched` and the decoding in `CertificatesAreRight`
are about texts computed by recursion, which would need an induction the prover cannot be given. (The recursion in
`Resolve`'s list, in `CoalesceFreeBlocks` and in `Keep` is within reach because a least counterexample can be taken in
the naturals, step by step, where the property is fixed; so is that in `QueueEvents`.) `TreeIsWatched`, the rest of the Linux half of
`NoChangeUnseen`, is within reach and not proved (section 9).

## 7. Disagreements between the code and its documentation

- `serial_stop`: `Stop` (serial_job_queue.hpp:44) sets its flag and notifies without the mutex. A worker that has just
  evaluated the predicate misses it, sleeps, and the join never ends.
- `serial_cancel`: `Cancel` says that the result of a job in flight "is discarded when it completes"; the worker
  looks at the cancelled ids only when it takes a job, so the result is delivered.
- `watch_tree`: a folder that another program moves within the tree, into a folder the walk has not reached, is found
  there under the descriptor and the path it had (directory_watch.cpp:129); the event that it left then removes the
  watch. "A tree watched in part would miss changes without a word", says the comment at line 118; here it does.
  The same comes of a folder put in the place of another during a read, with no move within the tree in that read: a
  folder is watched through a path that an event of its predecessor gave, before the folder it is in is watched, and so
  keeps that path when it is moved on.
- `receive_connect`: on Windows a connect that succeeds between `recv` and the poll (stream_socket.cpp:74) is answered
  with "not connected", the answer for a connect never made, which the comment at line 71 says must not happen.

Seen in the models, and without a run of their own:

- A job group's comment says that "a cancelled group drains its queue without running the bodies" (job_group.cpp:45). A runner whose
  test has read the flags before `Cancel` stores one begins the body after `Cancel` has returned. `CancelReachesNested` is
  therefore stated of jobs taken from the queue after the flag was set.
- `Unsubscribe` "takes effect immediately, even mid-dispatch" (events/system.hpp:58); a dispatch of another thread that has already tested the
  alive flag calls the handler once more after `Unsubscribe` returned (events/system.cpp:92). For the unsubscribing
  thread the promise holds (`OwnUnsubscribeIsImmediate`).
- `WaitForAllJobs` may return while a job is between the two counters (job_scheduler.cpp:46).
- A module that is neither scheduled nor declared tickless is logged, not rejected as module.hpp:56 says
  (runtime.cpp:188); `Runtime` boots such a context.
- `TerminateModules` clears the list of modules and not the schedule (runtime.cpp:345). After a second boot the schedule holds
  the entries of both: modules tick twice, and if the second context loads other modules, one that is not initialized is
  ticked. `TickedAreUp` makes this exception and no other; it says which modules are ticked, not how often.
- A module that failed to come up, or was never reached, stays told of the modules that had come up, which the active ones alone are told
  to take back (runtime.cpp:324-330). In a later boot with other modules it may be up and told of one that is not
  (`ToldOfTheActive`).
- The same ordering dependency declared twice is counted twice and released once (module_graph.cpp:180). The context is refused, and the
  log says "Module dependency cycle among" (line 167) of modules of which none may be in a cycle. Nothing says that a
  dependency may be declared only once; `RefusedForCause` names this second cause.
- A timer that is due waits behind a sooner one that a callback has just scheduled: `RunDueTimers` looks at the soonest only and, that
  one being too new, ends the pass (event_loop.cpp:214). Callbacks that keep scheduling sooner timers keep it waiting;
  `TimersFire` makes this exception.
- `CLogSystem::Terminate` forgets the channels, which register only at construction: after another `Initialize` no
  dispatch serves them. `DispatchLeavesNothing` is therefore stated for the channels the system knows.
- For the same reason a registration that skips the history may find no channel to dispatch, and a dispatch of another thread
  that is still under way then hands an older message to the new listener. `SkipSkipsBacklog` is stated for a
  registration that finds every channel (log_system.cpp:576).
- `CLog::FlushTo` calls the listener with the mutex held; a callback that logs deadlocks.
- `CStackAllocator::Deallocate` knows only the last allocation: a second one in a row is not taken back
  (`arKept` in `ArenaAllocators`).
- `CFreeListAllocator::Allocate` leaves a remainder of at most one `SFreeBlock` neither in the header's size nor on the free
  list (free_list_allocator.cpp:63): it is lost until the allocator is destroyed. `Deallocate` reads `header->size` for
  the statistics (line 151) after it has written the free block over it (line 127), so that with no padding the size
  subtracted is the block's and not the caller's; the free list's statistics are not modelled.
- After an overflow, `ForgetBelow` takes back every watch but the root's (directory_watch.cpp:193), and the kernel queues an
  event for each. In a tree with more folders than the queue has room for, this overflows it again, so that every
  later `ReadChanges` walks the whole tree and reports an overflow, although nothing changes any more.
- A certificate file without a PEM marker whose text begins with the digit 0 is taken for a DER certificate (pem.cpp:95),
  although "a text file gives none" (pem.cpp:88-89). The code looks at the first byte only. `PemIsDecoded` leaves out exactly these
  texts: it prescribes what comes of contents that start as a certificate does, or not with that byte.
- A failing `rpmalloc` is dereferenced by the throwing operators (global_operators.cpp:57).

## 8. Not modelled

- *Within modelled components*: the poller of other platforms, which refuses to start; the event system's
  `Terminate`; in logging, terminal and file output, targets, destroyed channels and `FlushTo`; how the paths changed
  in one read of a directory watch are merged and named, symbolic links and unreadable folders in the tree; files
  with empty contents; in processes, the check of a program given with its folder, and reading the environment; in
  networking, `Send`, what `CUdpSocket` receives, endpoints and host names; in memory, the heap itself, its failure, the statistics of the free
  list, and `PrintStats`, which only reads. Memory is sequentially consistent in all models: what relaxed and acquire/release orders add is not
  explored. The loop and the detailed poller are checked side by side, not as one refinement: `EventLoop`'s poller
  reports all that is ready, while a limited wait of `Poller` leaves the rest to the next one.
- *Command registry*: a table of functions used on one thread. What there would be to explore, callbacks that change
  the table while it is walked, the interface neither permits nor forbids.
- *Startup*: a fixed sequence of calls; it is the boot of the core module in `Runtime`.
- *Left out*: math, geometry, materials, exposure (floating point); plain data; paths, streams and folders (thin
  wrappers of the operating system); profiling and test macros.

## 9. Plan

Order: what many other parts stand on first. Modelled: MPSC queue, pool and scheduler, job groups, serial queue, event
loop and poller, event system, runtime, logging and its console, parallel for, allocators and memory tracking, atomic
write, directory watches, child processes, address lookup, sockets and certificates.

Proofs next: `TreeIsWatched` (in `ServicesProofs`), where no program replaces or moves folders during a walk or a read: every folder of the tree has its descriptor under its
path, or the event that will give it one is queued, or the walk has it still to visit.
