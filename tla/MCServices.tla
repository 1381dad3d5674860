------------------------------ MODULE MCServices ------------------------------
(***************************************************************************)
(* The parts of the library that do not call one another, checked in one   *)
(* run: kind says which of them a behaviour is about, and the others keep  *)
(* a fixed initial state.  A part with a branch per platform is checked on *)
(* both.                                                                   *)
(***************************************************************************)
EXTENDS MpscQueue, AtomicWrite, DirectoryWatch, WindowsDirectoryWatch, ChildProcess,
        ProgramLaunch, AddressLookup, Sockets, Console, Certificates

VARIABLE kind

Kinds == {"queue", "write", "watch", "windowsWatch", "process", "launch", "lookup", "net",
          "console", "certificates"}

vars == <<kind, platform, mpscVars, writeVars, watchVars, readVars, procVars, launchVars,
          lookupVars, netVars, consoleVars, certVars>>

\* A choice of the initial state that only the part itself makes.
OnlyIn(k, fixed) == kind = k \/ fixed

Init ==
    /\ kind \in Kinds
    /\ platform \in Platforms
    /\ kind \notin {"write", "process", "lookup", "net", "console", "certificates"} => OnLinux
    /\ kind = "console" => OnWindows
    /\ CertInit /\ OnlyIn("certificates", /\ pem = <<>> /\ sources = Bundles(<<>>, <<>>)
                                          /\ store = <<>>)
    /\ MpscInit /\ ReadInit /\ LookupInit /\ NetInit
    /\ WriteInit /\ OnlyIn("write", Dir[Path] = NoFile)
    /\ WatchInit /\ OnlyIn("watch", scope = "Folder" /\ \A f \in Folders : at[f].in \notin Folders)
    /\ ProcInit /\ OnlyIn("process", \A d \in {Stdin, Stdout, Stderr} : fds[d] # Closed)
    /\ ConsoleInit /\ OnlyIn("console", /\ \A i \in ConsoleOutputs : attached[i] = None
                                        /\ \A c \in Consoles : consoleModes[c] = "plain"
                                        /\ codePage = 0)
    /\ IF kind = "launch" THEN LaunchInit ELSE words = <<>> /\ search = NoSearch

Only(k, others) == kind = k /\ UNCHANGED <<kind, platform, others>>

Next ==
    \/ Only("queue", <<writeVars, watchVars, readVars, procVars, launchVars,
                       lookupVars, netVars, consoleVars, certVars>>) /\ MpscNext
    \/ Only("write", <<mpscVars, watchVars, readVars, procVars, launchVars,
                       lookupVars, netVars, consoleVars, certVars>>) /\ WriteNext
    \/ Only("watch", <<mpscVars, writeVars, readVars, procVars, launchVars,
                       lookupVars, netVars, consoleVars, certVars>>) /\ WatchNext
    \/ Only("windowsWatch", <<mpscVars, writeVars, watchVars, procVars, launchVars,
                              lookupVars, netVars, consoleVars, certVars>>) /\ ReadNext
    \/ Only("process", <<mpscVars, writeVars, watchVars, readVars, launchVars,
                         lookupVars, netVars, consoleVars, certVars>>) /\ ProcNext
    \/ Only("lookup", <<mpscVars, writeVars, watchVars, readVars, procVars,
                        launchVars, netVars, consoleVars, certVars>>) /\ LookupNext
    \/ Only("net", <<mpscVars, writeVars, watchVars, readVars, procVars, launchVars,
                     lookupVars, consoleVars, certVars>>) /\ NetNext
    \/ Only("console", <<mpscVars, writeVars, watchVars, readVars, procVars,
                         launchVars, lookupVars, netVars, certVars>>) /\ ConsoleNext
    \/ Only("certificates", <<mpscVars, writeVars, watchVars, readVars, procVars,
                              launchVars, lookupVars, netVars, consoleVars>>) /\ CertNext

Spec == Init /\ [][Next]_vars

Symmetry == Permutations(Writers) \cup Permutations(TempNames)
-----------------------------------------------------------------------------
(* What the parts have in common *)

\* Both directory watches: once a caller has read everything, no part of the tree and no change to
\* it is missed without the watch having said so.
NoChangeUnseen ==
    kind \in {"watch", "windowsWatch"} => TreeIsWatched /\ RootEndIsSeen /\ NoChangeMissed

\* What the system still writes into, a cancelled read's buffer or an abandoned lookup's state, is
\* never freed before its last write.
SystemWritesIntoLive ==
    kind \in {"lookup", "windowsWatch"} => ResolverWritesIntoLive /\ BufferOutlivesRead

\* On every path, the failing ones included, what a call took is given back: temporary files,
\* handles and zombies, address lists, sockets, certificates, the console's settings.
NothingIsLeaked == kind \in {"write", "process", "lookup", "net", "console", "certificates"} =>
    /\ NoTempLeftBehind /\ NothingLeftBehind /\ LookupsAreFreed /\ SocketsAreOwned
    /\ ConsoleIsGivenBack /\ CertificatesAreReleased

\* Nothing of a child is another's: not the exit reported of it, not a stream it holds.
ChildIsOwn == kind = "process" => ExitIsOwn /\ StreamsAreOwn

\* A program is found where the shell finds it, and reads the arguments it was given.
ProgramIsLaunched == kind = "launch" => ArgumentsArrive /\ FoundAsByShell

\* Certificates are decoded as base64 and PEM have it, a text that starts with the digit 0 apart; the
\* roots are all those of their source, and a chain's verdict is that of the calls that made it.
CertificatesAreRight ==
    kind = "certificates" => PemIsDecoded /\ RootsAreFound /\ VerdictIsOfItsCall
=============================================================================
