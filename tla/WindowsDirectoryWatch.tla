------------------------- MODULE WindowsDirectoryWatch -------------------------
(***************************************************************************)
(* CDirectoryWatch on Windows (src/private/io/directory_watch.cpp): one    *)
(* ReadDirectoryChangesW at a time, which the system completes into the    *)
(* watch's buffer whenever it likes.  Changes made while none is pending   *)
(* wait in the system; too many for the buffer are reported as lost.       *)
(***************************************************************************)
EXTENDS Naturals, Sequences, FiniteSets

CONSTANTS MaxEntries,   \* entries BufferSize holds
          MaxWrites     \* bound on what other programs do

VARIABLES rdState,      \* the system's read: none, pending, complete, lost, failed
          rdEntries,    \* what it wrote into the buffer
          rdWaiting,    \* the system's own list of changes for this handle
          rdIsPending,  \* isReadPending
          rdFolder,     \* the folder's handle is open
          rdEvent,      \* the event's handle is open
          rdBuffer,     \* none, live, freed
          rdWatch,      \* the watch: off, releasing, waiting (for the cancelled read), on, ended, done
          rdSeen,       \* changes ReadChanges reported
          rdOverflowed, \* it reported lost ones
          rdMade        \* changes made since the watch began

readVars == <<rdState, rdEntries, rdWaiting, rdIsPending, rdFolder, rdEvent, rdBuffer,
              rdWatch, rdSeen, rdOverflowed, rdMade>>

ReadInit ==
    /\ rdState = "none" /\ rdEntries = {} /\ rdWaiting = {}
    /\ rdIsPending = FALSE /\ rdFolder = FALSE /\ rdEvent = FALSE /\ rdBuffer = "none"
    /\ rdWatch = "off" /\ rdSeen = {} /\ rdOverflowed = FALSE /\ rdMade = {}

\* The read is taken, or the system refuses it.
IssueRead(ifIssued, ifRefused) ==
    \/ rdState' = "pending" /\ rdIsPending' = TRUE /\ rdWatch' = ifIssued
    \/ rdState' = "none" /\ rdIsPending' = FALSE /\ rdWatch' = ifRefused

\* Opened but no folder, or without an event: nothing was read yet.
InitializeFails ==
    /\ rdWatch = "off"
    /\ rdFolder' \in BOOLEAN /\ rdEvent' = FALSE
    /\ rdWatch' = "releasing"
    /\ UNCHANGED <<rdState, rdEntries, rdWaiting, rdIsPending, rdBuffer, rdSeen, rdOverflowed, rdMade>>

InitializeRead ==
    /\ rdWatch = "off"
    /\ rdFolder' = TRUE /\ rdEvent' = TRUE /\ rdBuffer' = "live"
    /\ IssueRead("on", "releasing")
    /\ UNCHANGED <<rdEntries, rdWaiting, rdSeen, rdOverflowed, rdMade>>

\* A completed read is reported and the next one issued at once.
ReadCompleted ==
    /\ rdWatch = "on" /\ rdIsPending /\ rdState \in {"complete", "lost"}
    /\ rdSeen' = rdSeen \cup rdEntries
    /\ rdOverflowed' = (rdOverflowed \/ rdState = "lost")
    /\ rdEntries' = {}
    /\ IssueRead("on", "ended")
    /\ UNCHANGED <<rdWaiting, rdFolder, rdEvent, rdBuffer, rdMade>>

ReadFailed ==
    /\ rdWatch = "on" /\ rdIsPending /\ rdState = "failed"
    /\ rdIsPending' = FALSE /\ rdState' = "none" /\ rdWatch' = "ended"
    /\ UNCHANGED <<rdEntries, rdWaiting, rdFolder, rdEvent, rdBuffer, rdSeen, rdOverflowed, rdMade>>

TerminateWatch ==
    /\ rdWatch \in {"on", "ended"}
    /\ rdWatch' = "releasing"
    /\ UNCHANGED <<rdState, rdEntries, rdWaiting, rdIsPending, rdFolder, rdEvent, rdBuffer, rdSeen, rdOverflowed, rdMade>>

\* Release: a pending read is cancelled and waited for, then the handles and the buffer go.
ReleaseCancels ==
    /\ rdWatch = "releasing" /\ rdIsPending
    /\ rdWatch' = "waiting"
    /\ UNCHANGED <<rdState, rdEntries, rdWaiting, rdIsPending, rdFolder, rdEvent, rdBuffer, rdSeen, rdOverflowed, rdMade>>

ReleaseWaited ==
    /\ rdWatch = "waiting" /\ rdState # "pending"
    /\ rdIsPending' = FALSE /\ rdState' = "none" /\ rdWatch' = "releasing"
    /\ UNCHANGED <<rdEntries, rdWaiting, rdFolder, rdEvent, rdBuffer, rdSeen, rdOverflowed, rdMade>>

ReleaseAll ==
    /\ rdWatch = "releasing" /\ ~rdIsPending
    /\ rdFolder' = FALSE /\ rdEvent' = FALSE
    /\ rdBuffer' = IF rdBuffer = "live" THEN "freed" ELSE rdBuffer
    /\ rdWatch' = "done"
    /\ UNCHANGED <<rdState, rdEntries, rdWaiting, rdIsPending, rdSeen, rdOverflowed, rdMade>>
-----------------------------------------------------------------------------
(* Other programs, and the system *)

Change ==
    /\ rdFolder /\ rdMade # 1 .. MaxWrites
    /\ rdMade' = rdMade \cup {Cardinality(rdMade) + 1}
    /\ rdWaiting' = rdWaiting \cup {Cardinality(rdMade) + 1}
    /\ UNCHANGED <<rdState, rdEntries, rdIsPending, rdFolder, rdEvent, rdBuffer, rdWatch, rdSeen, rdOverflowed>>

\* What waits goes into the buffer, or is lost if there is too much of it.
SystemCompletes ==
    /\ rdState = "pending" /\ rdWaiting # {}
    /\ IF Cardinality(rdWaiting) <= MaxEntries
       THEN rdState' = "complete" /\ rdEntries' = rdWaiting
       ELSE rdState' = "lost" /\ UNCHANGED rdEntries
    /\ rdWaiting' = {}
    /\ UNCHANGED <<rdIsPending, rdFolder, rdEvent, rdBuffer, rdWatch, rdSeen, rdOverflowed, rdMade>>

\* The folder is gone, or the cancelled read comes to its end.
SystemFails ==
    /\ rdState = "pending"
    /\ rdState' = "failed"
    /\ UNCHANGED <<rdEntries, rdWaiting, rdIsPending, rdFolder, rdEvent, rdBuffer, rdWatch, rdSeen, rdOverflowed, rdMade>>

ReadNext ==
    \/ InitializeFails \/ InitializeRead \/ ReadCompleted \/ ReadFailed
    \/ TerminateWatch \/ ReleaseCancels \/ ReleaseWaited \/ ReleaseAll
    \/ Change \/ SystemCompletes \/ SystemFails
-----------------------------------------------------------------------------
(* Properties *)

\* The system never writes into the watch's buffer after it is gone, and no handle stays open once
\* the watch is over, however Initialize and Terminate race the read.
BufferOutlivesRead ==
    /\ rdState = "pending" => rdBuffer = "live" /\ rdFolder
    /\ rdWatch = "done" => ~rdFolder /\ ~rdEvent

\* Every change the watch is told of is reported, is still to be read, or was reported as lost:
\* issuing the next read after the last is evaluated leaves no gap.
NoChangeMissed ==
    rdWatch = "on" => \/ rdOverflowed \/ rdState = "lost"
                      \/ rdMade = rdSeen \cup rdEntries \cup rdWaiting
=============================================================================
