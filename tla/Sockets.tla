-------------------------------- MODULE Sockets --------------------------------
(***************************************************************************)
(* The sockets of src/private/net: one thread initialises, connects, asks  *)
(* and closes them, one system call at a time, while the network connects, *)
(* refuses and sends.  Of a socket's data only "some bytes" or "the peer   *)
(* closed" is kept; endpoints are left out.                                *)
(***************************************************************************)
EXTENDS Naturals, Sequences, FiniteSets, Platform

CONSTANTS NetSockets   \* the system's sockets

VARIABLES sock,        \* the system's side of each socket
          owned,       \* m_socket of CUdpSocket, CStreamListener and two CStreamSockets
          netCall,     \* the call under way
          backlog,     \* a connection waits to be accepted
          said         \* what the client last heard of its connection, and how that stood

netVars == <<sock, owned, netCall, backlog, said>>

Objects == {"udp", "listener", "client", "server"}
NetCalls == [what : {"init"}, object : Objects, step : 1 .. 4, socket : NetSockets \cup {None}]
              \cup [what : {"pollError", "receivePoll", "receiveError"}, object : {"client"}]

ASSUME NetAssumption == None \notin NetSockets \cup NetCalls

NoSocket == [state |-> "free"]
NewSocket(state) == [state |-> state, isBlocking |-> OnWindows, isInheritable |-> FALSE,
                     error |-> FALSE,    \* SO_ERROR, gone once read
                     isTaken |-> FALSE,  \* it was read
                     inbox |-> "empty"]
Unsaid == [what |-> "nothing", state |-> "new", isTaken |-> FALSE]

NetInit ==
    /\ sock = [s \in NetSockets |-> NoSocket]
    /\ owned = [o \in Objects |-> None]
    /\ netCall = None /\ backlog = FALSE /\ said = Unsaid

Client == sock[owned["client"]]
Idle == netCall = None
-----------------------------------------------------------------------------
(* Initialize of each class, and Accept: system calls that may each fail *)

InitSteps(object) ==
    CASE object = "server" -> IF OnLinux THEN <<"accept">> ELSE <<"accept", "uninherit", "nonblock">>
      [] object = "client" -> IF OnLinux THEN <<"open">> ELSE <<"open", "nonblock">>
      [] object = "listener" -> IF OnLinux THEN <<"open", "bind", "listen">>
                                ELSE <<"open", "nonblock", "bind", "listen">>
      [] OTHER -> IF OnLinux THEN <<"open", "bind">> ELSE <<"open", "nonblock", "bind", "netreset">>

InitBegin(object) ==
    /\ Idle /\ owned[object] = None
    /\ object = "server" => owned["listener"] # None
    /\ netCall' = [what |-> "init", object |-> object, step |-> 1, socket |-> None]
    /\ UNCHANGED <<sock, owned, backlog, said>>

AtStep == netCall # None /\ netCall.what = "init"
Step == InitSteps(netCall.object)[netCall.step]

\* The socket as the step leaves it.  Linux makes it non-blocking and private from the start; a
\* socket that Windows accepts is neither.
AfterStep(s, step) ==
    CASE step = "nonblock" -> [s EXCEPT !.isBlocking = FALSE]
      [] step = "uninherit" -> [s EXCEPT !.isInheritable = FALSE]
      [] step = "bind" -> [s EXCEPT !.state = "bound"]
      [] step = "listen" -> [s EXCEPT !.state = "listening"]
      [] OTHER -> s

\* What the step makes of the call: the next step, or the object's socket.
StepDone(s) ==
    IF netCall.step = Len(InitSteps(netCall.object))
    THEN netCall' = None /\ owned' = [owned EXCEPT ![netCall.object] = s]
    ELSE netCall' = [netCall EXCEPT !.step = @ + 1, !.socket = s] /\ UNCHANGED owned

InitStep ==
    /\ AtStep
    /\ IF Step \in {"open", "accept"}
       THEN \E s \in NetSockets :
              /\ sock[s].state = "free"
              /\ Step = "accept" => backlog
              /\ backlog' = (backlog /\ Step # "accept")
              /\ sock' = [sock EXCEPT ![s] = IF Step = "open" THEN NewSocket("new")
                             ELSE [NewSocket("connected") EXCEPT !.isInheritable = OnWindows]]
              /\ StepDone(s)
       ELSE /\ sock' = [sock EXCEPT ![netCall.socket] = AfterStep(@, Step)]
            /\ StepDone(netCall.socket)
            /\ UNCHANGED backlog
    /\ UNCHANGED said

\* An error, or nothing to accept: the socket opened so far is closed again.
CloseSocket(s) == IF s = None THEN UNCHANGED sock ELSE sock' = [sock EXCEPT ![s] = NoSocket]
InitFails ==
    /\ AtStep
    /\ CloseSocket(netCall.socket)
    /\ netCall' = None
    /\ UNCHANGED <<owned, backlog, said>>

TerminateSocket(object) ==
    /\ Idle /\ owned[object] # None
    /\ CloseSocket(owned[object])
    /\ owned' = [owned EXCEPT ![object] = None]
    /\ said' = IF object = "client" THEN Unsaid ELSE said
    /\ backlog' = (backlog /\ object # "listener")
    /\ UNCHANGED netCall

SetBlocking(object) ==
    /\ Idle /\ object \in {"client", "server"} /\ owned[object] # None
    /\ sock' = [sock EXCEPT ![owned[object]].isBlocking = TRUE]
    /\ UNCHANGED <<owned, netCall, backlog, said>>
-----------------------------------------------------------------------------
(* CStreamSocket::Connect, PollConnected and Receive *)

HasClient == Idle /\ owned["client"] # None
SetClient(field) == sock' = [sock EXCEPT ![owned["client"]] = field]
Say(what) == said' = [what |-> what, state |-> Client.state, isTaken |-> Client.isTaken]

\* EAGAIN taken for a connect under way.
IsConnectInProgressOrAgain(code) == code \in {"EINPROGRESS", "EAGAIN", "WSAEWOULDBLOCK"}

IsConnectInProgress(code) == code = IF OnLinux THEN "EINPROGRESS" ELSE "WSAEWOULDBLOCK"

\* The raw answers of connect, EAGAIN (no port is left) a failure among them.
ConnectCodes == {"connected", "refused"} \cup IF OnLinux THEN {"EINPROGRESS", "EAGAIN"} ELSE {"WSAEWOULDBLOCK"}
Connect(code) ==
    /\ HasClient /\ Client.state = "new" /\ ~Client.isBlocking
    /\ code \in ConnectCodes
    /\ SetClient([Client EXCEPT !.state = CASE code = "connected" -> "connected"
                                            [] code \in {"EINPROGRESS", "WSAEWOULDBLOCK"} -> "connecting"
                                            [] OTHER -> "new"])
    /\ said' = IF code = "connected" \/ IsConnectInProgress(code) THEN [Unsaid EXCEPT !.what = "pending"]
               ELSE [Unsaid EXCEPT !.what = "error"]
    /\ UNCHANGED <<owned, netCall, backlog>>

\* The caller asks after a connect that Connect took on.
Asking == HasClient /\ said.what \notin {"nothing", "error"}

\* poll() for writing: true of a settled connect, failed or not, and on Linux of one never made.
IsWritable(s) == s.state \in {"connected", "failed"} \/ (OnLinux /\ s.state = "new")
PollSocket(next) ==
    IF IsWritable(Client) THEN netCall' = next ELSE netCall' = None

PollConnected ==
    /\ Asking
    /\ \/ PollSocket([what |-> "pollError", object |-> "client"])
          /\ said' = IF IsWritable(Client) THEN said ELSE [said EXCEPT !.what = "pending"]
       \/ UNCHANGED netCall /\ said' = [said EXCEPT !.what = "pending"]
    /\ UNCHANGED <<sock, owned, backlog>>

\* SO_ERROR is cleared by reading it; the read itself may fail.
TakePendingError == SetClient([Client EXCEPT !.error = FALSE, !.isTaken = @ \/ Client.error])

PollReadsError ==
    /\ netCall # None /\ netCall.what = "pollError"
    /\ \/ TakePendingError /\ Say(IF Client.error THEN "error" ELSE "connected")
       \/ UNCHANGED sock /\ Say("error")
    /\ netCall' = None
    /\ UNCHANGED <<owned, backlog>>

\* recv.  Linux hands over a failed connect's error, and has nothing yet while connecting; Windows
\* calls both not connected, as it does a socket never connected.
RecvBytes ==
    CASE Client.state = "connected" -> IF Client.inbox = "empty" THEN "would_block" ELSE Client.inbox
      [] Client.state = "connecting" /\ OnLinux -> "would_block"
      [] Client.state = "failed" /\ OnLinux -> IF Client.error THEN "error" ELSE "closed"
      [] OTHER -> "not_connected"

Receive ==
    /\ Asking /\ ~Client.isBlocking
    /\ IF RecvBytes = "not_connected" THEN netCall' = [what |-> "receivePoll", object |-> "client"] /\ UNCHANGED <<sock, said>>
       ELSE /\ CASE RecvBytes = "bytes" -> SetClient([Client EXCEPT !.inbox = "empty"])
                 [] RecvBytes = "error" -> TakePendingError
                 [] OTHER -> UNCHANGED sock
            /\ Say(RecvBytes)
            /\ UNCHANGED netCall
    /\ UNCHANGED <<owned, backlog>>

\* Polled before the error is read; a poll that fails counts as not settled.
ReceivePolls ==
    /\ netCall # None /\ netCall.what = "receivePoll"
    /\ \/ PollSocket([what |-> "receiveError", object |-> "client"])
          /\ IF IsWritable(Client) THEN UNCHANGED said ELSE Say("would_block")
       \/ netCall' = None /\ Say("would_block")
    /\ UNCHANGED <<sock, owned, backlog>>

ReceiveReadsError ==
    /\ netCall # None /\ netCall.what = "receiveError"
    /\ \/ TakePendingError /\ Say(IF Client.error THEN "error" ELSE "not_connected")
       \/ UNCHANGED sock /\ Say("error")
    /\ netCall' = None
    /\ UNCHANGED <<owned, backlog>>
-----------------------------------------------------------------------------
(* The network *)

ConnectSettles(s, how) ==
    /\ sock[s].state = "connecting"
    /\ sock' = [sock EXCEPT ![s].state = how, ![s].error = how = "failed"]
    /\ UNCHANGED <<owned, netCall, backlog, said>>

PeerActs(s, inbox) ==
    /\ sock[s].state = "connected" /\ sock[s].inbox = "empty"
    /\ sock' = [sock EXCEPT ![s].inbox = inbox]
    /\ UNCHANGED <<owned, netCall, backlog, said>>

PeerConnects ==
    /\ owned["listener"] # None /\ ~backlog /\ backlog' = TRUE
    /\ UNCHANGED <<sock, owned, netCall, said>>

NetNext ==
    \/ \E o \in Objects : InitBegin(o) \/ TerminateSocket(o) \/ SetBlocking(o)
    \/ InitStep \/ InitFails
    \/ \E code \in ConnectCodes : Connect(code)
    \/ PollConnected \/ PollReadsError \/ Receive \/ ReceivePolls \/ ReceiveReadsError
    \/ \E s \in NetSockets, how \in {"connected", "failed"} : ConnectSettles(s, how)
    \/ \E s \in NetSockets, inbox \in {"bytes", "closed"} : PeerActs(s, inbox)
    \/ PeerConnects

NetSpec == platform \in Platforms /\ NetInit /\ [][NetNext /\ UNCHANGED platform]_<<netVars, platform>>
-----------------------------------------------------------------------------
(* Properties *)

\* Until a failed connect's error has been handed out once, no answer hides it: PollConnected never
\* says "connected" of it, nor Receive "not connected" or "closed"; and PollConnected says
\* "connected" of no connect that Connect refused to start.
FailedConnectIsReported ==
    said.what \in {"connected", "not_connected", "closed"} =>
       said.state # "new" /\ (said.state = "failed" => said.isTaken)

\* Receive never answers "not connected" of a connect under way or made: "a connect that ends in
\* between must not pass for one never made".
ConnectNeverPassesForNone == said.what = "not_connected" => said.state # "connected"

\* Whichever call of Initialize or Accept fails, its socket is closed; and a socket an object holds
\* is one no child process inherits.
SocketsAreOwned ==
    /\ \A s \in NetSockets : sock[s].state # "free" =>
          \/ \E o \in Objects : owned[o] = s /\ ~sock[s].isInheritable
          \/ netCall # None /\ netCall.what = "init" /\ netCall.socket = s
    /\ \A o, p \in Objects : owned[o] = owned[p] /\ owned[o] # None => o = p
=============================================================================
