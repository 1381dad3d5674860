--------------------------- MODULE SerialJobQueue ---------------------------
(***************************************************************************)
(* CSerialJobQueue (public/tge/threading/serial_job_queue.hpp): jobs run   *)
(* one at a time on a thread of their own, results are polled, jobs are    *)
(* cancelled by a caller-chosen id that later jobs may reuse.  Submit,     *)
(* Poll and Cancel may be called on any thread; Start, Stop and Flush      *)
(* belong to the owner.  Stop sets an atomic flag and notifies without     *)
(* taking the mutex, so both steps interleave with a worker that holds it. *)
(*                                                                         *)
(* A submission is a ticket number; its result is the ticket.              *)
(***************************************************************************)
EXTENDS Naturals, Sequences, FiniteSets, SequenceFilters

CONSTANTS Clients,     \* threads that use the queue
          Owner,       \* the one that starts and stops it
          JobIds,
          MaxSubmits   \* bound: tickets ever handed out

ASSUME SerialAssumption == Owner \in Clients /\ MaxSubmits \in Nat

VARIABLES isRunning,   \* m_isRunning
          shouldStop,  \* m_shouldStop
          pending,     \* m_pending: <<id, ticket>> in order
          completed,   \* m_completed
          cancelled,   \* m_cancelled
          workerPc,    \* where WorkerThreadMain is; "none" without a thread
          entry,       \* the entry it took
          clientPc,    \* where each client is in Submit, Stop or Flush
          isFlush,     \* the owner's Stop is that of a Flush
          tickets,     \* history: tickets handed out
          polled,      \* history: what Poll returned, in order
          removed,     \* history: tickets Cancel or the worker discarded
          flushed,     \* history: tickets discarded by Flush
          watermark,   \* history: tickets handed out at the last Flush
          disowned     \* history: tickets in flight when their id was cancelled

vars == <<isRunning, shouldStop, pending, completed, cancelled, workerPc, entry,
          clientPc, isFlush, tickets, polled, removed, flushed, watermark, disowned>>

NoEntry == <<>>

Init ==
  /\ isRunning = FALSE
  /\ shouldStop = FALSE
  /\ pending = <<>>
  /\ completed = <<>>
  /\ cancelled = {}
  /\ workerPc = "none"
  /\ entry = NoEntry
  /\ clientPc = [c \in Clients |-> "idle"]
  /\ isFlush = FALSE
  /\ tickets = 0
  /\ polled = <<>>
  /\ removed = {}
  /\ flushed = {}
  /\ watermark = 0
  /\ disowned = {}

(* m_mutex: the worker keeps it from a refused predicate until it sleeps.  *)
MutexFree == workerPc # "refused"

TicketsOf(s) == {s[i][2] : i \in 1 .. Len(s)}

(* The entries of s with another id.                                       *)
Drop(s, id) == Keep(s, {e \in ToSet(s) : e[1] # id})

NotifyOne == workerPc' = IF workerPc = "blocked" THEN "test" ELSE workerPc

-----------------------------------------------------------------------------
(* Start: a no-op while running.                                           *)
Launch == /\ shouldStop' = FALSE
          /\ isRunning' = TRUE
          /\ workerPc' = "test"

Start ==
  /\ clientPc[Owner] = "idle"
  /\ ~isRunning
  /\ Launch
  /\ UNCHANGED <<pending, completed, cancelled, entry, clientPc, isFlush, tickets, polled,
                 removed, flushed, watermark, disowned>>

(* Stop: the flag; the notify; the join.  Flush is Stop, then clears       *)
(* everything, then Start.                                                 *)
StopFlag(flush) ==
  /\ clientPc[Owner] = "idle"
  /\ isRunning
  /\ shouldStop' = TRUE
  /\ isFlush' = flush
  /\ clientPc' = [clientPc EXCEPT ![Owner] = "stopping"]
  /\ UNCHANGED <<isRunning, pending, completed, cancelled, workerPc, entry, tickets, polled,
                 removed, flushed, watermark, disowned>>

StopNotify ==
  /\ clientPc[Owner] = "stopping"
  /\ NotifyOne
  /\ clientPc' = [clientPc EXCEPT ![Owner] = "joining"]
  /\ UNCHANGED <<isRunning, shouldStop, pending, completed, cancelled, entry, isFlush,
                 tickets, polled, removed, flushed, watermark, disowned>>

StopJoin ==
  /\ clientPc[Owner] = "joining"
  /\ workerPc = "exited"
  /\ isRunning' = FALSE
  /\ workerPc' = "none"
  /\ clientPc' = [clientPc EXCEPT ![Owner] = IF isFlush THEN "clearing" ELSE "idle"]
  /\ UNCHANGED <<shouldStop, pending, completed, cancelled, entry, isFlush, tickets, polled,
                 removed, flushed, watermark, disowned>>

(* Flush while nothing runs skips the Stop.                                *)
FlushStopped ==
  /\ clientPc[Owner] = "idle"
  /\ ~isRunning
  /\ isFlush' = TRUE
  /\ clientPc' = [clientPc EXCEPT ![Owner] = "clearing"]
  /\ UNCHANGED <<isRunning, shouldStop, pending, completed, cancelled, workerPc, entry,
                 tickets, polled, removed, flushed, watermark, disowned>>

FlushClear ==
  /\ clientPc[Owner] = "clearing"
  /\ MutexFree
  /\ pending' = <<>>
  /\ cancelled' = {}
  /\ completed' = <<>>
  /\ flushed' = flushed \cup TicketsOf(pending) \cup {completed[i] : i \in 1 .. Len(completed)}
  /\ watermark' = tickets
  /\ clientPc' = [clientPc EXCEPT ![Owner] = "restarting"]
  /\ UNCHANGED <<isRunning, shouldStop, workerPc, entry, isFlush, tickets, polled, removed,
                 disowned>>

FlushStart ==
  /\ clientPc[Owner] = "restarting"
  /\ Launch
  /\ isFlush' = FALSE
  /\ clientPc' = [clientPc EXCEPT ![Owner] = "idle"]
  /\ UNCHANGED <<pending, completed, cancelled, entry, tickets, polled, removed, flushed,
                 watermark, disowned>>

-----------------------------------------------------------------------------
(* Submit: push under the mutex, notify after it.                          *)
Submit(c, id) ==
  /\ clientPc[c] = "idle"
  /\ tickets < MaxSubmits
  /\ MutexFree
  /\ tickets' = tickets + 1
  /\ pending' = Append(pending, <<id, tickets + 1>>)
  /\ clientPc' = [clientPc EXCEPT ![c] = "pushed"]
  /\ UNCHANGED <<isRunning, shouldStop, completed, cancelled, workerPc, entry, isFlush,
                 polled, removed, flushed, watermark, disowned>>

(* Submits without a notify.                                               *)
SubmitNotifyForgotten(c) ==
  /\ clientPc[c] = "pushed"
  /\ clientPc' = [clientPc EXCEPT ![c] = "idle"]
  /\ UNCHANGED <<isRunning, shouldStop, pending, completed, cancelled, workerPc, entry,
                 isFlush, tickets, polled, removed, flushed, watermark, disowned>>

SubmitNotify(c) ==
  /\ clientPc[c] = "pushed"
  /\ NotifyOne
  /\ clientPc' = [clientPc EXCEPT ![c] = "idle"]
  /\ UNCHANGED <<isRunning, shouldStop, pending, completed, cancelled, entry, isFlush,
                 tickets, polled, removed, flushed, watermark, disowned>>

(* Poll: the oldest result; an empty poll changes nothing.                 *)
Poll(c) ==
  /\ clientPc[c] = "idle"
  /\ MutexFree
  /\ completed # <<>>
  /\ polled' = Append(polled, Head(completed))
  /\ completed' = Tail(completed)
  /\ UNCHANGED <<isRunning, shouldStop, pending, cancelled, workerPc, entry, clientPc,
                 isFlush, tickets, removed, flushed, watermark, disowned>>

(* Cancel: removes every pending job of that id; when there was none,      *)
(* remembers the id, whether or not such a job is in flight.               *)
Cancel(c, id) ==
  /\ clientPc[c] = "idle"
  /\ MutexFree
  /\ pending' = Drop(pending, id)
  /\ removed' = removed \cup (TicketsOf(pending) \ TicketsOf(pending'))
  /\ cancelled' = IF pending' = pending THEN cancelled \cup {id} ELSE cancelled
  /\ disowned' = IF pending' = pending /\ workerPc = "working" /\ entry[1] = id
                 THEN disowned \cup {entry[2]} ELSE disowned
  /\ UNCHANGED <<isRunning, shouldStop, completed, workerPc, entry, clientPc, isFlush,
                 tickets, polled, flushed, watermark>>

-----------------------------------------------------------------------------
(* WorkerThreadMain: the wait's predicate is false ...                     *)
WorkerRefused ==
  /\ workerPc = "test"
  /\ ~shouldStop /\ pending = <<>>
  /\ workerPc' = "refused"
  /\ UNCHANGED <<isRunning, shouldStop, pending, completed, cancelled, entry, clientPc,
                 isFlush, tickets, polled, removed, flushed, watermark, disowned>>

(* ... and the thread sleeps, which releases the mutex.                    *)
WorkerSleep ==
  /\ workerPc = "refused"
  /\ workerPc' = "blocked"
  /\ UNCHANGED <<isRunning, shouldStop, pending, completed, cancelled, entry, clientPc,
                 isFlush, tickets, polled, removed, flushed, watermark, disowned>>

WorkerSpuriousWake ==
  /\ workerPc = "blocked"
  /\ workerPc' = "test"
  /\ UNCHANGED <<isRunning, shouldStop, pending, completed, cancelled, entry, clientPc,
                 isFlush, tickets, polled, removed, flushed, watermark, disowned>>

(* A stop leaves the pending jobs for the next Start.                      *)
WorkerExit ==
  /\ workerPc = "test"
  /\ shouldStop
  /\ workerPc' = "exited"
  /\ UNCHANGED <<isRunning, shouldStop, pending, completed, cancelled, entry, clientPc,
                 isFlush, tickets, polled, removed, flushed, watermark, disowned>>

(* Takes the last job submitted.                                           *)
WorkerTakeNewest ==
  /\ workerPc = "test"
  /\ ~shouldStop /\ pending # <<>>
  /\ entry' = pending[Len(pending)]
  /\ pending' = SubSeq(pending, 1, Len(pending) - 1)
  /\ workerPc' = "working"
  /\ UNCHANGED <<isRunning, shouldStop, completed, cancelled, clientPc, isFlush, tickets,
                 polled, removed, flushed, watermark, disowned>>

(* Takes the front job; a remembered id swallows it.                       *)
WorkerTake ==
  /\ workerPc = "test"
  /\ ~shouldStop /\ pending # <<>>
  /\ pending' = Tail(pending)
  /\ LET e == Head(pending)
     IN \/ /\ e[1] \in cancelled
           /\ cancelled' = cancelled \ {e[1]}
           /\ removed' = removed \cup {e[2]}
           /\ UNCHANGED <<workerPc, entry>>
        \/ /\ e[1] \notin cancelled
           /\ entry' = e
           /\ workerPc' = "working"
           /\ UNCHANGED <<cancelled, removed>>
  /\ UNCHANGED <<isRunning, shouldStop, completed, clientPc, isFlush, tickets, polled,
                 flushed, watermark, disowned>>

(* The job returns; its result is queued under the mutex.                  *)
WorkerComplete ==
  /\ workerPc = "working"
  /\ completed' = Append(completed, entry[2])
  /\ entry' = NoEntry
  /\ workerPc' = "test"
  /\ UNCHANGED <<isRunning, shouldStop, pending, cancelled, clientPc, isFlush, tickets,
                 polled, removed, flushed, watermark, disowned>>

WorkerStep == WorkerRefused \/ WorkerSleep \/ WorkerExit \/ WorkerTake \/ WorkerComplete

OwnerStep == StopNotify \/ StopJoin \/ FlushClear \/ FlushStart

Next ==
  \/ Start \/ StopFlag(FALSE) \/ StopFlag(TRUE) \/ FlushStopped \/ OwnerStep
  \/ \E c \in Clients : \/ \E id \in JobIds : Submit(c, id) \/ Cancel(c, id)
                        \/ SubmitNotify(c)
                        \/ Poll(c)
  \/ WorkerStep \/ WorkerSpuriousWake

(* Every thread inside an operation keeps running, and jobs return.        *)
FairSpec ==
  /\ Init /\ [][Next]_vars
  /\ WF_vars(WorkerStep) /\ WF_vars(OwnerStep)
  /\ \A c \in Clients : WF_vars(SubmitNotify(c))

-----------------------------------------------------------------------------
Tickets == 1 .. MaxSubmits

InFlight == IF workerPc = "working" THEN <<entry[2]>> ELSE <<>>

(* Everything in the queue, from the oldest result to the newest job.      *)
Line == polled \o completed \o InFlight \o [i \in 1 .. Len(pending) |-> pending[i][2]]

(* Results come out in the order of submission, each once, across any      *)
(* number of stops, restarts and cancellations.                            *)
ResultsInOrder == \A i, k \in 1 .. Len(Line) : i < k => Line[i] < Line[k]

(* Nothing is lost: every job ever submitted is pending, in flight, has    *)
(* its result waiting or polled, or was discarded by Cancel or Flush.  In  *)
(* particular Stop loses nothing.                                          *)
EveryJobAccountedFor ==
  1 .. tickets = {Line[i] : i \in 1 .. Len(Line)} \cup removed \cup flushed

(* "clear all internal state (pending/cancelled/completed)" (Flush): once  *)
(* Flush has cleared, nothing submitted before can run or be polled, not   *)
(* even the result of the job that was in progress.                        *)
FlushForgets ==
  \A t \in {Line[i] : i \in (Len(polled) + 1) .. Len(Line)} : t > watermark

(* While the queue runs and nobody stops it, it does not leave a job       *)
(* pending: no wakeup of Submit is lost.                                   *)
PendingIsTaken ==
  \A t \in Tickets :
    t \in TicketsOf(pending) ~> (t \notin TicketsOf(pending) \/ ~isRunning \/ shouldStop)

(* Cancel "marks in-flight job cancelled (its result is discarded when it  *)
(* completes)": the result of a job cancelled in flight is never queued.   *)
CancelledResultDiscarded ==
  \A i \in 1 .. Len(completed) : completed[i] \notin disowned

(* Stop "blocks until any in-progress job finishes" and no longer: with    *)
(* jobs that return, so does Stop.                                         *)
StopReturns == clientPc[Owner] = "joining" ~> clientPc[Owner] # "joining"

(* No job is lost, doubled, reordered or kept past a Flush, across any     *)
(* number of stops, restarts and cancellations.                            *)
JobsAreKept == ResultsInOrder /\ EveryJobAccountedFor /\ FlushForgets
=============================================================================
