------------------------------- MODULE Console -------------------------------
(***************************************************************************)
(* What CLogSystem does to the Windows console it shares with whoever      *)
(* started the program (PrepareConsole and RestoreConsole in               *)
(* private/logging/log_system.cpp).  Standard output and standard error may*)
(* be one console, two, or redirected; a mode is whether escape sequences  *)
(* are processed, a code page one of three.                                *)
(***************************************************************************)
EXTENDS Naturals, Platform

VARIABLES attached,       \* the console behind each of ConsoleOutputs, None when redirected
          consoleModes,   \* the consoles' modes
          codePage,       \* the output code page, 0 without a console
          savedModes,     \* gSavedModes
          savedCodePage,  \* gSavedCodePage
          logIsUp,        \* between Initialize and Terminate
          foundConsole    \* history: modes and code page before the first Initialize

consoleVars == <<attached, consoleModes, codePage, savedModes, savedCodePage, logIsUp, foundConsole>>

Consoles == {"first", "second"}
ConsoleOutputs == 1 .. 2
Modes == {"plain", "escapes"}
Utf8 == 65001

ASSUME ConsoleAssumption == None \notin Consoles \cup Modes

ConsoleInit ==
    /\ attached \in [ConsoleOutputs -> Consoles \cup {None}]
    /\ consoleModes \in [Consoles -> Modes]
    /\ codePage \in {0, 437, Utf8}
    /\ savedModes = [i \in ConsoleOutputs |-> None]
    /\ savedCodePage = 0
    /\ logIsUp = FALSE
    /\ foundConsole = <<consoleModes, codePage>>

\* GetConsoleMode fails for a redirected output.
ModeOf(i) == IF attached[i] = None THEN None ELSE consoleModes[attached[i]]

\* Called by every Initialize: all is saved before anything is set, and what is saved is kept.
PrepareConsole ==
    /\ logIsUp' = TRUE
    /\ foundConsole' = IF logIsUp THEN foundConsole ELSE <<consoleModes, codePage>>
    /\ savedCodePage' = IF savedCodePage = 0 THEN codePage ELSE savedCodePage
    /\ savedModes' = [i \in ConsoleOutputs |-> IF savedModes[i] = None THEN ModeOf(i) ELSE savedModes[i]]
    /\ codePage' = IF savedCodePage' # 0 THEN Utf8 ELSE codePage
    /\ consoleModes' = [c \in Consoles |->
                          IF \E i \in ConsoleOutputs : attached[i] = c /\ savedModes'[i] # None
                          THEN "escapes" ELSE consoleModes[c]]
    /\ UNCHANGED attached

\* Called by Terminate, which may come without an Initialize: the modes are set in the outputs'
\* order, the last one standing where both are one console.
RestoreConsole ==
    /\ logIsUp' = FALSE
    /\ codePage' = IF savedCodePage # 0 THEN savedCodePage ELSE codePage
    /\ savedCodePage' = 0
    /\ consoleModes' = [c \in Consoles |->
                          LET given == {i \in ConsoleOutputs : attached[i] = c /\ savedModes[i] # None}
                          IN  IF given = {} THEN consoleModes[c]
                              ELSE savedModes[CHOOSE i \in given : \A j \in given : j <= i]]
    /\ savedModes' = [i \in ConsoleOutputs |-> None]
    /\ UNCHANGED <<attached, foundConsole>>

\* While the program leaves the console alone, its user changes it.
UserChangesConsole ==
    /\ ~logIsUp
    /\ \E c \in Consoles, mode \in Modes : consoleModes' = [consoleModes EXCEPT ![c] = mode]
    /\ codePage # 0 /\ codePage' \in {437, Utf8}
    /\ foundConsole' = <<consoleModes', codePage'>>
    /\ UNCHANGED <<attached, savedModes, savedCodePage, logIsUp>>

ConsoleNext == PrepareConsole \/ RestoreConsole \/ UserChangesConsole

\* After Terminate the console is as the first Initialize found it, however often Initialize ran
\* and whichever outputs are the same console; nothing of an earlier time is put back later.
ConsoleIsGivenBack == ~logIsUp => foundConsole = <<consoleModes, codePage>>
=============================================================================
