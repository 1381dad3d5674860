-------------------------------- MODULE Poller --------------------------------
(***************************************************************************)
(* CPoller (private/threading/poller.cpp) by itself, on both platforms: the*)
(* descriptors or handles it watches, the wake signal, and Wait call by    *)
(* call.  EventLoop uses it as one step on Linux, without the limit of the *)
(* keys of one epoll_wait; here the limits of both platforms are kept.     *)
(*                                                                         *)
(* The system is modelled from how poller.cpp uses it: epoll and WSAPoll   *)
(* report a state, a Windows event is set until a wait or ResetEvent clears*)
(* it, and a socket sets its event once for new data until it is received  *)
(* from.  A key is written as the waitable it was given for.               *)
(***************************************************************************)
EXTENDS Naturals, Sequences, FiniteSets, FiniteSetsExt, SequenceFilters, Platform

CONSTANTS PolledSockets, PolledEvents,
          AutoEvents,          \* the events that a wait which sees them resets
          MaxEventsPerWait,    \* Linux: keys of one epoll_wait
          MaxSocketsPerPoll,   \* Windows: sockets of one WSAPoll
          MaxHandles           \* Windows: MAXIMUM_WAIT_OBJECTS

\* A waitable is a socket or an event; a wait has room for the poller's own two handles.
ASSUME PollerAssumption ==
    /\ PolledSockets \cap PolledEvents = {} /\ AutoEvents \subseteq PolledEvents
    /\ MaxSocketsPerPoll \in Nat \ {0} /\ MaxHandles \in Nat /\ MaxHandles >= 2

VARIABLES pollPc,        \* where the poller is; "callbacks" between two calls of Wait
          ownHandles,    \* its own handles that are open
          pollEntries,       \* m_entries, or what epoll has
          wakeEvent, socketEvent,
          sockets,       \* each socket's state: connecting, idle, ready or ended
          quiet,         \* sockets that have set the event and have not been received from
          signalled,     \* the events that are set
          toPoll,        \* what the pass over the entries has still to look at
          pollKeys,      \* readyKeys
          woken,         \* history: Wake was called since the last Wait ended
          taken          \* history: events that this Wait reset by seeing them

pollVars == <<pollPc, ownHandles, pollEntries, wakeEvent, socketEvent, sockets, quiet, signalled,
              toPoll, pollKeys, woken, taken>>
sysVars == <<sockets, quiet, signalled>>

Waitables == PolledSockets \cup PolledEvents
NumOwnHandles == 2
IsUp == pollPc \notin {"none", "down"}

IsReady(w) == IF w \in PolledSockets THEN sockets[w] \in {"ready", "ended"} ELSE w \in signalled

PollInit ==
    /\ pollPc = "none"
    /\ ownHandles = {} /\ pollEntries = <<>>
    /\ wakeEvent = FALSE /\ socketEvent = FALSE
    /\ sockets \in [PolledSockets -> {"connecting", "idle"}]
    /\ quiet = {} /\ signalled = {}
    /\ toPoll = <<>> /\ pollKeys = {}
    /\ woken = FALSE /\ taken = {}
-----------------------------------------------------------------------------
(* Life *)

\* CPoller::Terminate closes each handle that is open.
CloseHandles == ownHandles' = {} /\ pollEntries' = <<>> /\ wakeEvent' = FALSE /\ socketEvent' = FALSE

\* epoll_create1, eventfd and the watch on it, each only if the one before succeeded.
InitializeOnLinux(made, isReady) ==
    /\ OnLinux
    /\ made \in {{}, {"poll"}, {"poll", "wake"}}
    /\ isReady => made = {"poll", "wake"}

\* Both events are tried.
InitializeOnWindows(made, isReady) ==
    /\ OnWindows
    /\ made \subseteq {"wake", "socket"}
    /\ isReady = (made = {"wake", "socket"})

InitializePoller ==
    /\ pollPc = "none"
    /\ \E made \in SUBSET {"poll", "wake", "socket"}, isReady \in BOOLEAN :
         /\ InitializeOnLinux(made, isReady) \/ InitializeOnWindows(made, isReady)
         /\ IF isReady THEN /\ ownHandles' = made /\ pollPc' = "callbacks"
                            /\ UNCHANGED <<pollEntries, wakeEvent, socketEvent>>
            ELSE CloseHandles /\ pollPc' = "down"
    /\ UNCHANGED <<sysVars, toPoll, pollKeys, woken, taken>>

\* The loop's thread has been joined.
TerminatePoller ==
    /\ pollPc \in {"callbacks", "stopped"}
    /\ CloseHandles
    /\ pollPc' = "down"
    /\ UNCHANGED <<sysVars, toPoll, pollKeys, woken, taken>>

\* Any thread.
Wake ==
    /\ IsUp
    /\ wakeEvent' = TRUE /\ woken' = TRUE
    /\ UNCHANGED <<pollPc, ownHandles, pollEntries, socketEvent, sysVars, toPoll, pollKeys, taken>>
-----------------------------------------------------------------------------
(* Add and Remove, called by a callback *)

Watched == ToSet(pollEntries)

\* WSAEventSelect starts a socket's notifications anew: the event is set if it is readable now.
SelectEvent(w) == IF IsReady(w) THEN socketEvent' = TRUE /\ quiet' = quiet \cup {w}
                  ELSE socketEvent' = socketEvent /\ quiet' = quiet \ {w}

CanAddEvent == Cardinality(Watched \cap PolledEvents) < MaxHandles - NumOwnHandles

\* epoll refuses a descriptor it has.
AddOnLinux(w) == OnLinux /\ w \notin Watched /\ UNCHANGED <<socketEvent, quiet>>

AddOnWindows(w) ==
    /\ OnWindows /\ w \notin Watched
    /\ IF w \in PolledSockets THEN SelectEvent(w) ELSE CanAddEvent /\ UNCHANGED <<socketEvent, quiet>>

\* Where the system refuses, nothing changes.
AddEntry(w) ==
    /\ pollPc = "callbacks"
    /\ AddOnLinux(w) \/ AddOnWindows(w)
    /\ pollEntries' = Append(pollEntries, w)
    /\ UNCHANGED <<pollPc, ownHandles, wakeEvent, sockets, signalled, toPoll, pollKeys, woken, taken>>

RemoveEntry(w) ==
    /\ pollPc = "callbacks"
    /\ w \in Watched
    /\ pollEntries' = Keep(pollEntries, Watched \ {w})
    /\ UNCHANGED <<pollPc, ownHandles, wakeEvent, socketEvent, sysVars, toPoll, pollKeys, woken, taken>>
-----------------------------------------------------------------------------
(* Wait on Linux *)

WakeKey == "wake"

WaitOnLinux ==
    /\ OnLinux /\ pollPc = "callbacks"
    /\ pollPc' = "blocked" /\ pollKeys' = {}
    /\ UNCHANGED <<ownHandles, pollEntries, wakeEvent, socketEvent, sysVars, toPoll, woken, taken>>

EpollReady == {w \in Watched : IsReady(w)} \cup (IF wakeEvent THEN {WakeKey} ELSE {})

\* As many as fit are reported, the wake signal perhaps not among them; or none, when the time has
\* run out or a signal interrupts the call.
EpollReturn ==
    /\ OnLinux /\ pollPc = "blocked"
    /\ \E reported \in SUBSET EpollReady :
         /\ \/ Cardinality(reported) = Min({MaxEventsPerWait, Cardinality(EpollReady)})
            \/ reported = {}
         /\ pollKeys' = reported \ {WakeKey}
         /\ IF WakeKey \in reported THEN pollPc' = "reset" /\ UNCHANGED woken
            ELSE pollPc' = "callbacks" /\ woken' = FALSE
    /\ UNCHANGED <<ownHandles, pollEntries, wakeEvent, socketEvent, sysVars, toPoll, taken>>

\* The eventfd is read, which zeroes it.
ReadWake ==
    /\ pollPc = "reset"
    /\ wakeEvent' = FALSE /\ woken' = FALSE
    /\ pollPc' = "callbacks"
    /\ UNCHANGED <<ownHandles, pollEntries, socketEvent, sysVars, toPoll, pollKeys, taken>>
-----------------------------------------------------------------------------
(* Wait on Windows *)

SocketsOf(seq) == Keep(seq, PolledSockets)
EventsOf(seq) == Keep(seq, PolledEvents)

WaitOnWindows ==
    /\ OnWindows /\ pollPc = "callbacks"
    /\ socketEvent' = FALSE
    /\ pollKeys' = {} /\ taken' = {}
    /\ toPoll' = SocketsOf(pollEntries)
    /\ pollPc' = "poll"
    /\ UNCHANGED <<ownHandles, pollEntries, wakeEvent, sysVars, woken>>

PollChunk ==
    LET size == Min({MaxSocketsPerPoll, Len(toPoll)})
    IN  /\ pollPc \in {"poll", "pollAgain"} /\ toPoll # <<>>
        /\ pollKeys' = pollKeys \cup {w \in ToSet(SubSeq(toPoll, 1, size)) : IsReady(w)}
        /\ toPoll' = SubSeq(toPoll, size + 1, Len(toPoll))
        /\ UNCHANGED <<pollPc, ownHandles, pollEntries, wakeEvent, socketEvent, sysVars, woken, taken>>

\* Every chunk has been polled.
PollSockets ==
    /\ pollPc \in {"poll", "pollAgain"} /\ toPoll = <<>>
    /\ IF pollPc = "poll" THEN pollPc' = "collect" /\ toPoll' = EventsOf(pollEntries) /\ UNCHANGED woken
       ELSE pollPc' = "callbacks" /\ woken' = FALSE /\ UNCHANGED toPoll
    /\ UNCHANGED <<ownHandles, pollEntries, wakeEvent, socketEvent, sysVars, pollKeys, taken>>

\* A wait that sees an event resets it if it resets itself.
TakeSignal(w) == /\ signalled' = signalled \ (AutoEvents \cap {w})
                 /\ taken' = taken \cup (AutoEvents \cap {w})
                 /\ UNCHANGED <<sockets, quiet>>

CollectSignalledEvents ==
    /\ pollPc = "collect" /\ toPoll # <<>>
    /\ toPoll' = Tail(toPoll)
    /\ IF IsReady(Head(toPoll))
       THEN pollKeys' = pollKeys \cup {Head(toPoll)} /\ TakeSignal(Head(toPoll))
       ELSE UNCHANGED <<pollKeys, sysVars, taken>>
    /\ UNCHANGED <<pollPc, ownHandles, pollEntries, wakeEvent, socketEvent, woken>>

\* Wait returns with what is ready, or has to wait for it.
Collected ==
    /\ pollPc = "collect" /\ toPoll = <<>>
    /\ pollPc' = IF pollKeys = {} THEN "blocked" ELSE "callbacks"
    /\ woken' = (woken /\ pollKeys = {})
    /\ UNCHANGED <<ownHandles, pollEntries, wakeEvent, socketEvent, sysVars, toPoll, pollKeys, taken>>

\* The handle of the lowest index that is set ends the wait: the wake event, the socket event, or
\* a watched one.  With none of them set the time has run out.
WaitForMultipleObjects ==
    LET set == SelectSeq(EventsOf(pollEntries), IsReady)
    IN  /\ OnWindows /\ pollPc = "blocked"
        /\ IF ~wakeEvent /\ socketEvent
           THEN pollPc' = "pollAgain" /\ toPoll' = SocketsOf(pollEntries) /\ UNCHANGED woken
           ELSE pollPc' = "callbacks" /\ woken' = FALSE /\ UNCHANGED toPoll
        /\ wakeEvent' = FALSE
        /\ IF ~wakeEvent /\ ~socketEvent /\ set # <<>>
           THEN pollKeys' = {Head(set)} /\ TakeSignal(Head(set))
           ELSE UNCHANGED <<pollKeys, sysVars, taken>>
        /\ UNCHANGED <<ownHandles, pollEntries, socketEvent>>

\* A call of Wait fails and the loop ends; after a failed first poll the events are looked at all
\* the same.
WaitFails ==
    /\ \/ pollPc \in {"poll", "pollAgain"} /\ toPoll # <<>>
       \/ pollPc = "callbacks" /\ OnWindows
       \/ pollPc = "blocked"
    /\ signalled' = IF pollPc = "poll" THEN signalled \ (AutoEvents \cap Watched) ELSE signalled
    /\ pollPc' = "stopped"
    /\ UNCHANGED <<ownHandles, pollEntries, wakeEvent, socketEvent, sockets, quiet, toPoll, pollKeys, woken, taken>>
-----------------------------------------------------------------------------
(* The system: a socket changes state and, watched, sets the event.        *)

Notify(s) == socketEvent' = (socketEvent \/ (OnWindows /\ s \in Watched))

SystemStep == UNCHANGED <<pollPc, ownHandles, pollEntries, wakeEvent, signalled, toPoll, pollKeys, woken, taken>>

\* FD_CONNECT either way; a refused connect is reported as readable.
ConnectEnds(s) ==
    /\ IsUp /\ sockets[s] = "connecting"
    /\ \E state \in {"idle", "ended"} : sockets' = [sockets EXCEPT ![s] = state]
    /\ Notify(s)
    /\ UNCHANGED quiet /\ SystemStep

\* FD_READ or FD_ACCEPT, once until the socket is received from.
DataArrives(s) ==
    /\ IsUp /\ sockets[s] = "idle"
    /\ sockets' = [sockets EXCEPT ![s] = "ready"]
    /\ IF s \in quiet THEN UNCHANGED socketEvent ELSE Notify(s)
    /\ quiet' = quiet \cup {s}
    /\ SystemStep

\* FD_CLOSE.
PeerCloses(s) ==
    /\ IsUp /\ sockets[s] = "idle"
    /\ sockets' = [sockets EXCEPT ![s] = "ended"]
    /\ Notify(s)
    /\ UNCHANGED quiet /\ SystemStep

\* A callback receives part or all of what there is.
ReceiveSome(s) ==
    /\ pollPc = "callbacks" /\ sockets[s] = "ready"
    /\ \/ sockets' = [sockets EXCEPT ![s] = "idle"] /\ quiet' = quiet \ {s} /\ UNCHANGED socketEvent
       \/ UNCHANGED <<sockets, quiet>> /\ Notify(s)
    /\ SystemStep

\* An event is set by whoever it belongs to, and reset by its callback.
ToggleEvent(w) ==
    /\ IsUp
    /\ w \in signalled => pollPc = "callbacks"
    /\ signalled' = IF w \in signalled THEN signalled \ {w} ELSE signalled \cup {w}
    /\ UNCHANGED <<pollPc, ownHandles, pollEntries, wakeEvent, socketEvent, sockets, quiet, toPoll,
                   pollKeys, woken, taken>>

PollNext ==
    \/ InitializePoller \/ TerminatePoller \/ Wake
    \/ \E w \in Waitables : AddEntry(w) \/ RemoveEntry(w)
    \/ WaitOnLinux \/ EpollReturn \/ ReadWake
    \/ WaitOnWindows \/ PollChunk \/ PollSockets \/ CollectSignalledEvents \/ Collected
    \/ WaitForMultipleObjects \/ WaitFails
    \/ \E s \in PolledSockets : ConnectEnds(s) \/ DataArrives(s) \/ PeerCloses(s) \/ ReceiveSome(s)
    \/ \E w \in PolledEvents : ToggleEvent(w)
-----------------------------------------------------------------------------
(* Properties *)

\* Wait never sleeps over what it was to report: a socket that turned readable while the poll was
\* under way has set the event again after its reset, a Wake that came at any moment since the last
\* Wait is still up, and all the handles fit in the one call that waits for them.
SleepsOverNothing ==
    pollPc = "blocked" =>
        /\ OnWindows => /\ \A s \in Watched \cap PolledSockets : IsReady(s) => socketEvent
                        /\ Len(EventsOf(pollEntries)) + NumOwnHandles <= MaxHandles
        /\ woken => wakeEvent

\* An event that the wait has reset by seeing it has its key reported: it would never be again.
TakenIsReported == pollPc = "callbacks" => taken \subseteq pollKeys

\* Whichever handle could not be made, and however the loop ended, none stays open.
PollerIsClosed == pollPc \in {"none", "down"} => ownHandles = {}
=============================================================================
