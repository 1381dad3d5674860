----------------------------- MODULE ChildProcess -----------------------------
(***************************************************************************)
(* CChildProcess and COutputFile (src/private/process): one thread starts  *)
(* children, asks after them and lets go of them, while the children end,  *)
(* other code of the process starts and reaps children of its own, and the *)
(* system gives out the ids of the dead again.  On Linux a descriptor has  *)
(* a number and the lowest free one is given out, the standard streams'    *)
(* numbers too if the caller closed those; a Windows handle is modelled as *)
(* one more entry of the same table.                                       *)
(***************************************************************************)
EXTENDS Naturals, Sequences, FiniteSets, FiniteSetsExt, Platform

CONSTANTS Children,     \* CChildProcess objects
          Pids,
          Other, Orphan \* who else a process may belong to

VARIABLES proc,         \* pid -> its state, whose it is, how it ended
          fate,         \* child -> how the process it started ended
          child,        \* m_pProcess: id, hasEnded, the handle on Windows, and what was reported
          fds,          \* the caller's descriptors: what each leads to, and if exec closes it
          outputFd,     \* COutputFile's descriptor
          streams,      \* pid -> what the child's descriptors lead to
          start,        \* the Start under way
          held          \* what it has to give back

procVars == <<proc, fate, child, fds, outputFd, streams, start, held>>

Descriptors == 0 .. 4
Stdin == 0
Stdout == 1
Stderr == 2
FirstUnusedDescriptor == 3

Closed == [to |-> "nothing", cloexec |-> FALSE]
Leads(to) == [to |-> to, cloexec |-> FALSE]
NoChild == [pid |-> None, hasEnded |-> FALSE, handle |-> FALSE, result |-> None]
FreePid == [state |-> "free", of |-> None]
NoStreams == [d \in Descriptors |-> "nothing"]
Starts == [of : Children, step : 1 .. 7, output : {None} \cup Descriptors]

ASSUME ProcAssumption ==
    /\ None \notin Children \cup Pids \cup Descriptors \cup Starts
    /\ {Other, Orphan} \cap Children = {}

ProcInit ==
    /\ proc = [p \in Pids |-> FreePid]
    /\ fate = [c \in Children |-> None]
    /\ child = [c \in Children |-> NoChild]
    /\ \E open \in SUBSET {Stdin, Stdout, Stderr} :
          /\ OnWindows => open = {Stdin, Stdout, Stderr}
          /\ fds = [d \in Descriptors |-> IF d \in open THEN Leads("terminal")
                                       ELSE IF d = FirstUnusedDescriptor THEN Leads("socket") ELSE Closed]
    /\ outputFd = None
    /\ streams = [p \in Pids |-> NoStreams]
    /\ start = None /\ held = {}
-----------------------------------------------------------------------------
(* COutputFile *)

OpenOutput ==
    /\ start = None /\ outputFd = None
    /\ outputFd' = Min({d \in Descriptors : fds[d] = Closed})
    /\ fds' = [fds EXCEPT ![outputFd'] = [to |-> "output", cloexec |-> TRUE]]
    /\ UNCHANGED <<proc, fate, child, streams, start, held>>

\* A child keeps a descriptor of its own.
CloseOutput ==
    /\ start = None /\ outputFd # None
    /\ fds' = [fds EXCEPT ![outputFd] = Closed]
    /\ outputFd' = None
    /\ UNCHANGED <<proc, fate, child, streams, start, held>>
-----------------------------------------------------------------------------
(* CChildProcess::Start *)

\* The calls of Spawn and of CreateChild that may fail, in order, and what each leaves to give back.
StartSteps == IF OnLinux THEN <<"actions", "attributes", "fill", "spawn">>
              ELSE <<"program", "nul", "duplicate", "list", "inherit", "create">>
Takes(step) == {step} \cap {"actions", "attributes", "nul", "duplicate", "list"}

Start(c, output) ==
    /\ start = None /\ child[c].pid = None
    /\ output \in {None, outputFd}
    /\ start' = [of |-> c, step |-> 1, output |-> output]
    /\ fate' = [fate EXCEPT ![c] = None]
    /\ UNCHANGED <<proc, child, fds, outputFd, streams, held>>

\* posix_spawn applies the file actions to a copy of the caller's table, then exec drops some.
Dup2(table, from, to) == [table EXCEPT ![to] = Leads(table[from].to)]
OpenAt(table, fd) == [table EXCEPT ![fd] = Leads("null")]
CloseFrom(table, first) == [d \in Descriptors |-> IF d >= first THEN Closed ELSE table[d]]
AfterExec(table) == [d \in Descriptors |-> IF table[d].cloexec THEN "nothing" ELSE table[d].to]

\* The file actions with stdin first: it may take the place of the output file's descriptor.
SpawnActionsInputFirst(output) ==
    LET withInput == OpenAt(fds, Stdin)
        withOutput == IF output # None THEN Dup2(withInput, output, Stdout) ELSE OpenAt(withInput, Stdout)
    IN  AfterExec(CloseFrom(Dup2(withOutput, Stdout, Stderr), FirstUnusedDescriptor))

SpawnActions(output) ==
    LET withOutput == IF output # None THEN Dup2(fds, output, Stdout) ELSE OpenAt(fds, Stdout)
        withErrors == Dup2(withOutput, Stdout, Stderr)
        withInput == OpenAt(withErrors, Stdin)
    IN  AfterExec(CloseFrom(withInput, FirstUnusedDescriptor))

\* Only the handles listed are inherited.
InheritedHandles(output) ==
    LET out == IF output # None THEN fds[output].to ELSE "null"
    IN  [d \in Descriptors |-> CASE d = Stdin -> "null" [] d \in {Stdout, Stderr} -> out [] OTHER -> "nothing"]

\* A step that succeeds.  "duplicate" is only taken with an output file.
StartStep ==
    /\ start # None /\ start.step \in 1 .. Len(StartSteps) - 1
    /\ LET step == StartSteps[start.step]
       IN  held' = held \cup IF step = "duplicate" /\ start.output = None THEN {} ELSE Takes(step)
    /\ start' = [start EXCEPT !.step = @ + 1]
    /\ UNCHANGED <<proc, fate, child, fds, outputFd, streams>>

StartFails ==
    /\ start # None /\ start.step \in DOMAIN StartSteps
    /\ start' = [start EXCEPT !.step = Len(StartSteps) + 1]
    /\ UNCHANGED <<proc, fate, child, fds, outputFd, streams, held>>

CreateProcess(p) ==
    /\ start # None /\ start.step = Len(StartSteps)
    /\ proc[p].state = "free"
    /\ proc' = [proc EXCEPT ![p] = [state |-> "running", of |-> start.of]]
    /\ child' = [child EXCEPT ![start.of] = [NoChild EXCEPT !.pid = p, !.handle = OnWindows]]
    /\ streams' = [streams EXCEPT ![p] = IF OnLinux THEN SpawnActions(start.output)
                                          ELSE InheritedHandles(start.output)]
    /\ start' = [start EXCEPT !.step = @ + 1]
    /\ UNCHANGED <<fate, fds, outputFd, held>>

\* CreateChild forgets the duplicate of the output's handle.
ReleasedInPart == IF OnLinux THEN {"actions", "attributes"} ELSE {"nul", "list"}

\* The end of Spawn and of CreateChild, whatever happened before.
Released == IF OnLinux THEN {"actions", "attributes"} ELSE {"nul", "duplicate", "list"}
StartReturns ==
    /\ start # None /\ start.step > Len(StartSteps)
    /\ start' = None /\ held' = held \ Released
    /\ UNCHANGED <<proc, fate, child, fds, outputFd, streams>>
-----------------------------------------------------------------------------
(* Asking after it, and letting it go *)

\* Windows lets go of an ended process with its last handle; a running one goes on, no one's.
CloseProcess(p) == IF proc[p].state = "running" THEN [proc EXCEPT ![p].of = Orphan]
                   ELSE [proc EXCEPT ![p] = FreePid]

Ended(c, result) == child' = [child EXCEPT ![c].hasEnded = TRUE, ![c].handle = FALSE, ![c].result = result]

\* waitpid(pid, WNOHANG): nothing of a running child, the status of an ended one, an error if other
\* code took it.
TryGetExitLinux(c) ==
    /\ LET p == child[c].pid
       IN  \/ /\ proc[p].state = "ended"
              /\ Ended(c, proc[p].how)
              /\ proc' = [proc EXCEPT ![p] = FreePid]
           \/ /\ proc[p].state = "taken"
              /\ Ended(c, "error")
              /\ UNCHANGED proc

TryGetExitWindows(c) ==
    /\ LET p == child[c].pid
       IN  \/ /\ proc[p].state = "ended"
              /\ Ended(c, proc[p].how)
              /\ proc' = CloseProcess(p)
           \/ /\ Ended(c, "error")
              /\ proc' = CloseProcess(p)

TryGetExit(c) ==
    /\ start = None /\ child[c].pid # None /\ ~child[c].hasEnded
    /\ IF OnLinux THEN TryGetExitLinux(c) ELSE TryGetExitWindows(c)
    /\ UNCHANGED <<fate, fds, outputFd, streams, start, held>>

\* A running child goes on; on Linux it stays a zombie once it ends.
TerminateChild(c) ==
    /\ start = None /\ child[c].pid # None
    /\ LET p == child[c].pid
       IN  proc' = CASE child[c].hasEnded -> proc
                     [] ~child[c].hasEnded /\ OnWindows -> CloseProcess(p)
                     [] OTHER -> [proc EXCEPT ![p].of = Orphan]
    /\ child' = [child EXCEPT ![c] = NoChild]
    /\ UNCHANGED <<fate, fds, outputFd, streams, start, held>>
-----------------------------------------------------------------------------
(* The rest of the system *)

ProcessEnds(p, how) ==
    /\ proc[p].state = "running"
    /\ proc' = [proc EXCEPT ![p] = IF OnWindows /\ proc[p].of = Orphan THEN FreePid
                                   ELSE [state |-> "ended", of |-> proc[p].of, how |-> how]]
    /\ fate' = [c \in Children |-> IF proc[p].of = c THEN how ELSE fate[c]]
    /\ streams' = [streams EXCEPT ![p] = NoStreams]
    /\ UNCHANGED <<child, fds, outputFd, start, held>>

OtherStarts(p) ==
    /\ proc[p].state = "free"
    /\ proc' = [proc EXCEPT ![p] = [state |-> "running", of |-> Other]]
    /\ UNCHANGED <<fate, child, fds, outputFd, streams, start, held>>

OtherReaps(p) ==
    /\ proc[p].state = "ended" /\ proc[p].of = Other
    /\ proc' = [proc EXCEPT ![p] = FreePid]
    /\ UNCHANGED <<fate, child, fds, outputFd, streams, start, held>>

\* A waitpid(-1) elsewhere, or an ignored SIGCHLD.  The id is not given out again meanwhile.
OtherTakes(p) ==
    /\ OnLinux /\ proc[p].state = "ended" /\ proc[p].of \in Children
    /\ proc' = [proc EXCEPT ![p] = [state |-> "taken", of |-> Other]]
    /\ UNCHANGED <<fate, child, fds, outputFd, streams, start, held>>

ProcNext ==
    \/ OpenOutput \/ CloseOutput
    \/ \E c \in Children : TryGetExit(c) \/ TerminateChild(c)
    \/ \E c \in Children, output \in {None, outputFd} : Start(c, output)
    \/ StartStep \/ StartFails \/ StartReturns
    \/ \E p \in Pids : CreateProcess(p) \/ OtherStarts(p) \/ OtherReaps(p) \/ OtherTakes(p)
    \/ \E p \in Pids, how \in {"exited", "killed"} : ProcessEnds(p, how)
-----------------------------------------------------------------------------
(* Properties *)

\* What TryGetExit reports of a child is how that child ended, whatever else ended or got its id
\* meanwhile: it never takes the status of other code's child.
ExitIsOwn == \A c \in Children : child[c].result \notin {None, "error"} => child[c].result = fate[c]

\* A child reads from nothing, writes both outputs to the file it was given or to nothing, and holds
\* no other descriptor of the caller's, whichever of its standard streams the caller had closed.
StreamsAreOwn ==
    \A p \in Pids : proc[p].state = "running" /\ proc[p].of \in Children =>
       /\ streams[p][Stdin] = "null"
       /\ streams[p][Stdout] = streams[p][Stderr]
       /\ streams[p][Stdout] \in {"output", "null"}
       /\ start # None /\ start.of = proc[p].of =>
             (streams[p][Stdout] = "output" <=> start.output # None)
       /\ \A d \in Descriptors : d >= FirstUnusedDescriptor => streams[p][d] = "nothing"

\* Whichever step of Start fails, all it took is given back; and a child whose end was reported keeps
\* neither a zombie nor a handle.
NothingLeftBehind ==
    /\ start = None => held = {}
    /\ \A c \in Children : child[c].result \notin {None, "error"} =>
          ~child[c].handle /\ \A p \in Pids : proc[p].of # c
=============================================================================
