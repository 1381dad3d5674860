------------------------------ MODULE EventLoop ------------------------------
(***************************************************************************)
(* CEventLoop and CPoller (private/threading/event_loop.cpp, poller.cpp,   *)
(* the Linux build) on CMpscQueue: one thread that waits for descriptors,  *)
(* timers and posts and runs their callbacks one at a time.                *)
(*                                                                         *)
(* A callback may post, watch, unwatch, schedule and cancel any number of  *)
(* times before it returns.  Descriptors become readable and unreadable,   *)
(* and time passes, as they like.  The kernel's part (epoll is             *)
(* level-triggered, an eventfd stays readable until it is read) is modelled*)
(* from how poller.cpp uses it.                                            *)
(***************************************************************************)
EXTENDS MpscQueue, FiniteSets

CONSTANTS Loop,         \* the loop thread, one of the Producers
          Descriptors,
          MaxId,        \* bound: ids handed out
          MaxTime       \* bound: the clock

ASSUME LoopAssumption == Loop \in Producers /\ MaxId \in Nat /\ MaxTime \in Nat

VARIABLES posterPc,      \* a thread between linking its post and waking the loop
          wakeSignal,    \* the eventfd's count is not zero
          readable,      \* descriptors with something to read
          isStopping,    \* SEventLoopState::isStopping
          termPc,        \* where Terminate is
          loopPc,        \* where Run is; "callback" while one runs
          resume,        \* where a callback returns to
          failed,        \* epoll_wait failed
          readyKeys,     \* SEventLoopState::readyKeys, still to serve
          runningPosts,  \* SEventLoopState::runningPosts, still to run
          watches,       \* SEventLoopState::watches, and epoll's registrations
          timers,        \* SEventLoopState::timers
          nextId,        \* SEventLoopState::nextId
          now,           \* the steady clock
          passNow, passEnd,   \* RunDueTimers' locals
          reported,      \* history: the watches the last Wait found ready
          ran            \* history: posts in the order they ran

loopVars == <<posterPc, wakeSignal, readable, isStopping, termPc, loopPc, resume, failed,
              readyKeys, runningPosts, watches, timers, nextId, now, passNow, passEnd,
              reported, ran>>
vars == <<mpscVars, loopVars>>

Init ==
  /\ MpscInit
  /\ posterPc = [p \in Producers |-> "none"]
  /\ wakeSignal = FALSE
  /\ readable = {}
  /\ isStopping = FALSE
  /\ termPc = "up"
  /\ loopPc = "test"
  /\ resume = "test"
  /\ failed = FALSE
  /\ readyKeys = {}
  /\ runningPosts = <<>>
  /\ watches = {}
  /\ timers = {}
  /\ nextId = 0
  /\ now = 0
  /\ passNow = 0
  /\ passEnd = 0
  /\ reported = {}
  /\ ran = <<>>

IsSooner(t, u) == t.when < u.when \/ (t.when = u.when /\ t.id < u.id)
NextTimer == CHOOSE t \in timers : \A u \in timers \ {t} : IsSooner(t, u)

-----------------------------------------------------------------------------
(* Post: Enqueue (allocate, exchange, link), then Wake.  Any thread while  *)
(* the loop runs; the loop thread itself only inside a callback.           *)
CanPost(p) == /\ posterPc[p] = "none"
              /\ IF p = Loop THEN loopPc = "callback" ELSE termPc = "up"

Post(p, n) ==
  /\ CanPost(p)
  /\ Enqueue(p, n)
  /\ posterPc' = [posterPc EXCEPT ![p] = "posting"]
  /\ UNCHANGED <<wakeSignal, readable, isStopping, termPc, loopPc, resume, failed, readyKeys,
                 runningPosts, watches, timers, nextId, now, passNow, passEnd, reported, ran>>

PostExchange(p) == Exchange(p) /\ UNCHANGED loopVars

PostLink(p) ==
  /\ Link(p)
  /\ posterPc' = [posterPc EXCEPT ![p] = "wake"]
  /\ UNCHANGED <<wakeSignal, readable, isStopping, termPc, loopPc, resume, failed, readyKeys,
                 runningPosts, watches, timers, nextId, now, passNow, passEnd, reported, ran>>

(* A Post that returns without waking the loop.                            *)
PostWakeForgotten(p) ==
  /\ posterPc[p] = "wake"
  /\ posterPc' = [posterPc EXCEPT ![p] = "none"]
  /\ UNCHANGED <<mpscVars, wakeSignal, readable, isStopping, termPc, loopPc, resume, failed,
                 readyKeys, runningPosts, watches, timers, nextId, now, passNow, passEnd,
                 reported, ran>>

PostWake(p) ==
  /\ posterPc[p] = "wake"
  /\ wakeSignal' = TRUE
  /\ posterPc' = [posterPc EXCEPT ![p] = "none"]
  /\ UNCHANGED <<mpscVars, readable, isStopping, termPc, loopPc, resume, failed, readyKeys,
                 runningPosts, watches, timers, nextId, now, passNow, passEnd, reported, ran>>

PostStep(p) == PostExchange(p) \/ PostLink(p) \/ PostWake(p)

-----------------------------------------------------------------------------
(* Run: the loop's condition, then Wait.                                   *)
TestStopping ==
  /\ loopPc = "test"
  /\ loopPc' = IF isStopping THEN "exited" ELSE "wait"
  /\ UNCHANGED <<mpscVars, posterPc, wakeSignal, readable, isStopping, termPc, resume, failed,
                 readyKeys, runningPosts, watches, timers, nextId, now, passNow, passEnd,
                 reported, ran>>

ReadyWatches == {x \in watches : x.waitable \in readable}

(* A wait without a limit: timers run when something else wakes the loop.  *)
TimeoutForgotten == FALSE

(* GetTimeUntilNextTimer has run down.                                     *)
TimeoutReached == timers # {} /\ NextTimer.when <= now

(* epoll_wait returns: something is readable, the wake signal is up or the *)
(* time is over.  A signal that interrupts it counts as a return with      *)
(* nothing ready.                                                          *)
WaitReturn(interrupted) ==
  /\ loopPc = "wait"
  /\ interrupted \/ wakeSignal \/ ReadyWatches # {} \/ TimeoutReached
  /\ readyKeys' = IF interrupted THEN {} ELSE {x.id : x \in ReadyWatches}
  /\ loopPc' = IF ~interrupted /\ wakeSignal THEN "reset" ELSE "watches"
  /\ reported' = IF interrupted THEN {} ELSE ReadyWatches
  /\ UNCHANGED <<mpscVars, posterPc, wakeSignal, readable, isStopping, termPc, resume, failed,
                 runningPosts, watches, timers, nextId, now, passNow, passEnd, ran>>

(* Any other error ends the loop.                                          *)
WaitFail ==
  /\ loopPc = "wait"
  /\ failed' = TRUE
  /\ readyKeys' = {}
  /\ loopPc' = "exited"
  /\ UNCHANGED <<mpscVars, posterPc, wakeSignal, readable, isStopping, termPc, resume,
                 runningPosts, watches, timers, nextId, now, passNow, passEnd, reported, ran>>

(* Wait reads the eventfd, which zeroes it.                                *)
ResetWake ==
  /\ loopPc = "reset"
  /\ wakeSignal' = FALSE
  /\ loopPc' = "watches"
  /\ UNCHANGED <<mpscVars, posterPc, readable, isStopping, termPc, resume, failed, readyKeys,
                 runningPosts, watches, timers, nextId, now, passNow, passEnd, reported, ran>>

(* RunReadyWatches: a key that is no longer watched is passed over.        *)
ServeWatch(k) ==
  /\ loopPc = "watches"
  /\ k \in readyKeys
  /\ readyKeys' = readyKeys \ {k}
  /\ IF \E x \in watches : x.id = k
     THEN loopPc' = "callback" /\ resume' = "watches"
     ELSE UNCHANGED <<loopPc, resume>>
  /\ UNCHANGED <<mpscVars, posterPc, wakeSignal, readable, isStopping, termPc, failed,
                 runningPosts, watches, timers, nextId, now, passNow, passEnd, reported, ran>>

WatchesServed ==
  /\ loopPc = "watches"
  /\ readyKeys = {}
  /\ loopPc' = "drain"
  /\ reported' = {}
  /\ UNCHANGED <<mpscVars, posterPc, wakeSignal, readable, isStopping, termPc, resume, failed,
                 readyKeys, runningPosts, watches, timers, nextId, now, passNow, passEnd, ran>>

(* RunPosts: drain the queue first, then run what was drained.             *)
DrainPost ==
  /\ loopPc = "drain"
  /\ Dequeue
  /\ runningPosts' = Append(runningPosts, next[tail])
  /\ UNCHANGED <<posterPc, wakeSignal, readable, isStopping, termPc, loopPc, resume, failed,
                 readyKeys, watches, timers, nextId, now, passNow, passEnd, reported, ran>>

Drained ==
  /\ loopPc = "drain"
  /\ next[tail] = Null
  /\ loopPc' = "posts"
  /\ UNCHANGED <<mpscVars, posterPc, wakeSignal, readable, isStopping, termPc, resume, failed,
                 readyKeys, runningPosts, watches, timers, nextId, now, passNow, passEnd,
                 reported, ran>>

(* Takes the posts off the back.                                           *)
RunPostFromBack ==
  /\ loopPc = "posts"
  /\ runningPosts # <<>>
  /\ ran' = Append(ran, runningPosts[Len(runningPosts)])
  /\ runningPosts' = SubSeq(runningPosts, 1, Len(runningPosts) - 1)
  /\ loopPc' = "callback"
  /\ resume' = "posts"
  /\ UNCHANGED <<mpscVars, posterPc, wakeSignal, readable, isStopping, termPc, failed,
                 readyKeys, watches, timers, nextId, now, passNow, passEnd, reported>>

RunPost ==
  /\ loopPc = "posts"
  /\ runningPosts # <<>>
  /\ ran' = Append(ran, Head(runningPosts))
  /\ runningPosts' = Tail(runningPosts)
  /\ loopPc' = "callback"
  /\ resume' = "posts"
  /\ UNCHANGED <<mpscVars, posterPc, wakeSignal, readable, isStopping, termPc, failed,
                 readyKeys, watches, timers, nextId, now, passNow, passEnd, reported>>

(* Clears the wake signal after the posts have run.                        *)
BeginTimersResetsWake ==
  /\ loopPc = "posts"
  /\ runningPosts = <<>>
  /\ passNow' = now
  /\ passEnd' = nextId
  /\ loopPc' = "timers"
  /\ wakeSignal' = FALSE
  /\ UNCHANGED <<mpscVars, posterPc, readable, isStopping, termPc, resume, failed, readyKeys,
                 runningPosts, watches, timers, nextId, now, reported, ran>>

(* RunDueTimers: fix the time and the last id of the pass.                 *)
BeginTimers ==
  /\ loopPc = "posts"
  /\ runningPosts = <<>>
  /\ passNow' = now
  /\ passEnd' = nextId
  /\ loopPc' = "timers"
  /\ UNCHANGED <<mpscVars, posterPc, wakeSignal, readable, isStopping, termPc, resume, failed,
                 readyKeys, runningPosts, watches, timers, nextId, now, reported, ran>>

(* The next timer is due, and was scheduled before the pass began.         *)
IsDue == timers # {} /\ NextTimer.when <= passNow /\ NextTimer.id < passEnd

RunTimer ==
  /\ loopPc = "timers"
  /\ IsDue
  /\ timers' = timers \ {NextTimer}
  /\ loopPc' = "callback"
  /\ resume' = "timers"
  /\ UNCHANGED <<mpscVars, posterPc, wakeSignal, readable, isStopping, termPc, failed,
                 readyKeys, runningPosts, watches, nextId, now, passNow, passEnd, reported, ran>>

EndPass ==
  /\ loopPc = "timers"
  /\ ~IsDue
  /\ loopPc' = "test"
  /\ passNow' = 0
  /\ passEnd' = 0
  /\ UNCHANGED <<mpscVars, posterPc, wakeSignal, readable, isStopping, termPc, resume, failed,
                 readyKeys, runningPosts, watches, timers, nextId, now,
                 reported, ran>>

(* A callback returns, its own Post done.                                  *)
CallbackReturn ==
  /\ loopPc = "callback"
  /\ posterPc[Loop] = "none"
  /\ loopPc' = resume
  /\ resume' = "test"
  /\ UNCHANGED <<mpscVars, posterPc, wakeSignal, readable, isStopping, termPc, failed,
                 readyKeys, runningPosts, watches, timers, nextId, now, passNow, passEnd,
                 reported, ran>>

-----------------------------------------------------------------------------
(* What a callback may do on the loop thread.                              *)
InCallback == loopPc = "callback" /\ posterPc[Loop] = "none"

(* Hands out the watch's place in the list as its id.                      *)
WatchByIndex(d) ==
  /\ InCallback
  /\ nextId < MaxId
  /\ \A x \in watches : x.waitable # d
  /\ watches' = watches \cup {[id |-> Cardinality(watches), waitable |-> d]}
  /\ nextId' = nextId + 1
  /\ UNCHANGED <<mpscVars, posterPc, wakeSignal, readable, isStopping, termPc, loopPc, resume,
                 failed, readyKeys, runningPosts, timers, now, passNow, passEnd, reported, ran>>

(* Watch: the poller refuses a descriptor it already has (or at the limit  *)
(* of the system), and then nothing changes.                               *)
Watch(d) ==
  /\ InCallback
  /\ nextId < MaxId
  /\ \A x \in watches : x.waitable # d
  /\ watches' = watches \cup {[id |-> nextId, waitable |-> d]}
  /\ nextId' = nextId + 1
  /\ UNCHANGED <<mpscVars, posterPc, wakeSignal, readable, isStopping, termPc, loopPc, resume,
                 failed, readyKeys, runningPosts, timers, now, passNow, passEnd, reported, ran>>

Unwatch(x) ==
  /\ InCallback
  /\ x \in watches
  /\ watches' = watches \ {x}
  /\ UNCHANGED <<mpscVars, posterPc, wakeSignal, readable, isStopping, termPc, loopPc, resume,
                 failed, readyKeys, runningPosts, timers, nextId, now, passNow, passEnd,
                 reported, ran>>

ScheduleAt(when) ==
  /\ InCallback
  /\ nextId < MaxId
  /\ timers' = timers \cup {[id |-> nextId, when |-> when]}
  /\ nextId' = nextId + 1
  /\ UNCHANGED <<mpscVars, posterPc, wakeSignal, readable, isStopping, termPc, loopPc, resume,
                 failed, readyKeys, runningPosts, watches, now, passNow, passEnd, reported, ran>>

CancelTimer(t) ==
  /\ InCallback
  /\ t \in timers
  /\ timers' = timers \ {t}
  /\ UNCHANGED <<mpscVars, posterPc, wakeSignal, readable, isStopping, termPc, loopPc, resume,
                 failed, readyKeys, runningPosts, watches, nextId, now, passNow, passEnd,
                 reported, ran>>

CallbackStep ==
  \/ \E d \in Descriptors : Watch(d)
  \/ \E x \in watches : Unwatch(x)
  \/ \E when \in 0 .. MaxTime : ScheduleAt(when)
  \/ \E t \in timers : CancelTimer(t)

-----------------------------------------------------------------------------
(* The world outside: data arrives and is read, time passes.               *)
Toggle(d) ==
  /\ termPc # "down"
  /\ readable' = IF d \in readable THEN readable \ {d} ELSE readable \cup {d}
  /\ UNCHANGED <<mpscVars, posterPc, wakeSignal, isStopping, termPc, loopPc, resume, failed,
                 readyKeys, runningPosts, watches, timers, nextId, now, passNow, passEnd,
                 reported, ran>>

Tick ==
  /\ now < MaxTime
  /\ now' = now + 1
  /\ UNCHANGED <<mpscVars, posterPc, wakeSignal, readable, isStopping, termPc, loopPc, resume,
                 failed, readyKeys, runningPosts, watches, timers, nextId, passNow, passEnd,
                 reported, ran>>

-----------------------------------------------------------------------------
(* Terminate, once no other thread is inside Post: raise the flag, wake the*)
(* loop, join its thread, destroy the state with whatever has not run.     *)
TerminateFlag ==
  /\ termPc = "up"
  /\ \A p \in Producers \ {Loop} : posterPc[p] = "none"
  /\ isStopping' = TRUE
  /\ termPc' = "wake"
  /\ UNCHANGED <<mpscVars, posterPc, wakeSignal, readable, loopPc, resume, failed, readyKeys,
                 runningPosts, watches, timers, nextId, now, passNow, passEnd, reported, ran>>

(* A Terminate that leaves the loop asleep.                                *)
TerminateWakeForgotten ==
  /\ termPc = "wake"
  /\ termPc' = "join"
  /\ UNCHANGED <<mpscVars, posterPc, wakeSignal, readable, isStopping, loopPc, resume, failed,
                 readyKeys, runningPosts, watches, timers, nextId, now, passNow, passEnd,
                 reported, ran>>

TerminateWake ==
  /\ termPc = "wake"
  /\ wakeSignal' = TRUE
  /\ termPc' = "join"
  /\ UNCHANGED <<mpscVars, posterPc, readable, isStopping, loopPc, resume, failed, readyKeys,
                 runningPosts, watches, timers, nextId, now, passNow, passEnd, reported, ran>>

TerminateJoin ==
  /\ termPc = "join"
  /\ loopPc = "exited"
  /\ DestroyBegin
  /\ watches' = {}
  /\ timers' = {}
  /\ termPc' = "reset"
  /\ UNCHANGED <<posterPc, wakeSignal, readable, isStopping, loopPc, resume, failed, readyKeys,
                 runningPosts, nextId, now, passNow, passEnd, reported, ran>>

TerminateReset ==
  /\ termPc = "reset"
  /\ DestroyStep
  /\ termPc' = IF life' = "gone" THEN "down" ELSE "reset"
  /\ UNCHANGED <<posterPc, wakeSignal, readable, isStopping, loopPc, resume, failed, readyKeys,
                 runningPosts, watches, timers, nextId, now, passNow, passEnd, reported, ran>>

TerminateStep == TerminateWake \/ TerminateJoin \/ TerminateReset

-----------------------------------------------------------------------------
(* The loop thread's own steps, the ones it always comes to take.          *)
LoopStep ==
  \/ TestStopping
  \/ WaitReturn(FALSE)
  \/ ResetWake
  \/ \E k \in readyKeys : ServeWatch(k)
  \/ WatchesServed
  \/ DrainPost
  \/ Drained
  \/ RunPost
  \/ BeginTimers
  \/ RunTimer
  \/ EndPass
  \/ CallbackReturn

Done == termPc = "down" /\ UNCHANGED vars

Next ==
  \/ \E p \in Producers : PostStep(p) \/ \E n \in Nodes : Post(p, n)
  \/ LoopStep
  \/ WaitReturn(TRUE)
  \/ WaitFail
  \/ CallbackStep
  \/ \E d \in Descriptors : Toggle(d)
  \/ Tick
  \/ TerminateFlag
  \/ TerminateStep
  \/ Done

(* Threads that can run do run, and time passes.  Nobody need post, watch, *)
(* schedule or terminate, no descriptor need become readable, and          *)
(* epoll_wait need not be interrupted or fail.                             *)
Spec ==
  /\ Init /\ [][Next]_vars
  /\ \A p \in Producers : WF_vars(PostStep(p))
  /\ WF_vars(LoopStep)
  /\ WF_vars(TerminateStep)
  /\ WF_vars(Tick)

-----------------------------------------------------------------------------
(* No lost wake-up: the loop never sits in epoll_wait over a post it could *)
(* dequeue with the wake signal down, unless the thread that will raise it *)
(* is still on its way there.  The signal is read before the queue is      *)
(* drained, and written after the post is linked.                          *)
NoLostWake ==
  loopPc \in {"test", "wait"} /\ next[tail] # Null /\ ~wakeSignal
    => \E p \in Producers : posterPc[p] = "wake"

(* Posts of one or of several threads run in the order they entered the    *)
(* queue, each at most once, the ones a callback posts included.           *)
PostsRunInOrder ==
  /\ Len(ran) <= Len(order)
  /\ \A i \in 1 .. Len(ran) : ran[i] = order[i]

(* A callback that unwatches another ready descriptor, and watches a third *)
(* one, never gets the third one's callback run on the readiness of the    *)
(* second: a key still to be served that is watched names the very watch   *)
(* that Wait reported.                                                     *)
ReadinessIsForThisWatch ==
  \A x \in watches : x.id \in readyKeys => x \in reported

(* A post whose Enqueue has begun runs, unless the loop is told to stop or *)
(* its epoll_wait fails.                                                   *)
PostedIsRun ==
  \A n \in Nodes :
    (\E i \in 1 .. Len(order) : order[i] = n)
      ~> (isStopping \/ failed \/ \E i \in 1 .. Len(ran) : ran[i] = n)

(* A timer runs or is cancelled, whatever else keeps the loop busy, unless *)
(* the loop is told to stop or its epoll_wait fails: the wait ends when    *)
(* the next timer is due, and the passes reach it.  What may keep a timer  *)
(* back is a sooner one that was scheduled after it: RunDueTimers looks at *)
(* the soonest timer alone and ends the pass when that is a new one, so    *)
(* the timer that is due behind it waits for the next pass.                *)
TimersFire ==
  \A k \in 0 .. MaxId - 1 :
    (\E t \in timers : t.id = k)
      ~> \/ isStopping \/ failed
         \/ \A t \in timers : t.id # k
         \/ \E t, u \in timers : t.id = k /\ u.id > k /\ IsSooner(u, t)

(* Terminate returns: the loop leaves its wait, ends its pass and is       *)
(* joined, whatever else goes on, after a failed epoll_wait too.           *)
TerminateReturns == (termPc = "wake") ~> (termPc = "down")
=============================================================================
