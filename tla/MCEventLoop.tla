----------------------------- MODULE MCEventLoop -----------------------------
(***************************************************************************)
(* The event loop for safety checking: its posting threads, its posts and  *)
(* its descriptors are interchangeable.  No liveness property is checked   *)
(* under this symmetry.  part says whether a behaviour is the loop's, or   *)
(* its poller's in detail, on one of the two platforms.                    *)
(***************************************************************************)
EXTENDS EventLoop, Poller

VARIABLE part

allVars == <<part, platform, vars, pollVars>>

LoopAndPollerInit ==
  /\ part \in {"loop", "poller"}
  /\ platform \in Platforms
  /\ Init /\ PollInit
  /\ part = "loop" => OnLinux /\ \A s \in PolledSockets : sockets[s] = "idle"

LoopAndPollerNext ==
  \/ part = "loop" /\ Next /\ UNCHANGED <<part, platform, pollVars>>
  \/ part = "poller" /\ PollNext /\ UNCHANGED <<part, platform, vars>>
  \/ pollPc = "down" /\ UNCHANGED allVars

LoopAndPollerSpec == LoopAndPollerInit /\ [][LoopAndPollerNext]_allVars

Symmetry == Permutations(Producers \ {Loop}) \cup Permutations(Nodes)
              \cup Permutations(Descriptors)
-----------------------------------------------------------------------------
(* The loop never sleeps over a post whose thread has woken it, and its    *)
(* poller never over a readable socket, a signal it has taken or a wake;   *)
(* on every way out the poller's handles are closed.                       *)
NothingSleptOver == NoLostWake /\ SleepsOverNothing /\ TakenIsReported /\ PollerIsClosed
=============================================================================
