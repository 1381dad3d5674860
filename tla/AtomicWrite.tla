------------------------------ MODULE AtomicWrite ------------------------------
(***************************************************************************)
(* WriteFileAtomically and ReadWholeFile (src/private/io): several writers *)
(* and a reader of one path, on a file system whose calls may fail and     *)
(* that may crash.  A file is known by the writer that made it; what       *)
(* matters of its bytes is how many are there and how many are on disk.    *)
(* The folder's entries reach the disk in order, some time later, as on a  *)
(* journalling file system: the last entry of fsJournal is the folder as   *)
(* programs see it, and a crash may leave any of the entries on disk.      *)
(***************************************************************************)
EXTENDS Naturals, Sequences, SequencesExt, Platform

CONSTANTS Writers,     \* one call of WriteFileAtomically each
          TempNames,   \* names a temporary file may get
          Old,         \* the file before any write
          NoFile, SymLink,
          FileSize,    \* bytes of every content
          MaxTries     \* NumTemporaryNameTries

ASSUME WriteAssumption ==
    /\ FileSize \in Nat \ {0} /\ MaxTries \in Nat
    /\ TempNames \cap {"path", "real"} = {}    \* a name is drawn beside the target's
    /\ Old \notin Writers
    /\ NoFile # SymLink /\ {NoFile, SymLink} \cap (Writers \cup {Old}) = {}

VARIABLES fsJournal,   \* the folder's entries after each change of it, the oldest first
          fsFile,      \* the files: kind, bytes, bytes on disk, mode
          wr,          \* per writer: the locals of WriteFileAtomically
          rd,          \* the locals of ReadWholeFile
          crashed,     \* the system went down once
          keepsTemp,   \* writers whose temporary file could not be removed
          chmodSince   \* writers that took the mode before it was changed: by the user, or by the
                       \* rename of a writer that had taken it before the user did

writeVars == <<fsJournal, fsFile, wr, rd, crashed, keepsTemp, chmodSince>>

Path == "path"
Real == "real"       \* what the path leads to when it is a link
Files == Writers \cup {Old}
Dir == Last(fsJournal)
Enter(entries) == fsJournal' = Append(fsJournal, entries)

\* Without ResolveLink.
Unresolved(entries) == Path

\* std::filesystem::canonical: fails on a link that leads nowhere.
Resolved(entries) == IF entries[Path] = SymLink /\ entries[Real] # NoFile THEN Real ELSE Path
Followed(entries, name) == IF entries[name] = SymLink THEN entries[Real] ELSE entries[name]
Content(entries) == Followed(entries, Path)

Locals(pc) == [pc |-> pc, target |-> None, temp |-> None, failed |-> FALSE, tries |-> 0]
NewFile == [kind |-> "regular", len |-> 0, disk |-> 0, mode |-> "private"]

WriteInit ==
    /\ \E path \in {NoFile, Old, SymLink}, real \in {NoFile, Old} :
          /\ path # SymLink => real = NoFile
          /\ fsJournal = << [n \in {Path, Real} \cup TempNames |->
                                CASE n = Path -> path [] n = Real -> real [] OTHER -> NoFile] >>
    /\ \E kind \in {"regular"} \cup {k \in {"folder"} : Dir[Path] = Old} :
          fsFile = [f \in Files |-> IF f = Old
             THEN [kind |-> kind, len |-> FileSize, disk |-> FileSize, mode |-> "private"]
             ELSE NewFile]
    /\ wr = [w \in Writers |-> Locals("idle")]
    /\ rd = [pc |-> "idle", file |-> None, size |-> 0, numRead |-> 0]
    /\ crashed = FALSE /\ keepsTemp = {} /\ chmodSince = {}

Active(w) == wr[w].pc \notin {"idle", "done", "failed", "dead"}
WriterAt(w, pc) == wr[w].pc = pc
Go(w, pc) == wr' = [wr EXCEPT ![w].pc = pc]
Return(w, how) == wr' = [wr EXCEPT ![w] = Locals(how)]
Fail(w, pc) == wr' = [wr EXCEPT ![w].pc = pc, ![w].failed = TRUE]

\* The writers under way that took the mode already.
ModeTaken == {w \in Writers : Active(w) /\ wr[w].pc \notin {"create", "chmod"}}

\* Where an error before the close leads: the handle is closed before or after the removal.
ErrorStep == IF OnLinux THEN "close" ELSE "remove"

-----------------------------------------------------------------------------
(* WriteFileAtomically *)

ResolveLink(w) ==
    /\ WriterAt(w, "idle")
    /\ wr' = [wr EXCEPT ![w].pc = "create", ![w].target = Resolved(Dir)]
    /\ UNCHANGED <<fsJournal, fsFile, rd, crashed, keepsTemp, chmodSince>>

\* mkostemp, owner-only and under a name of its own; CreateTemporaryFile draws names itself.
\* The call ends here when no file can be made (or, on Windows, no absolute path).
CreateTemporaryFile(w) ==
    /\ WriterAt(w, "create")
    /\ \/ \E name \in TempNames :
             /\ Dir[name] = NoFile
             /\ Enter([Dir EXCEPT ![name] = w])
             /\ fsFile' = [fsFile EXCEPT ![w].mode = IF OnLinux THEN "private" ELSE "shared"]
             /\ wr' = [wr EXCEPT ![w].pc = IF OnLinux THEN "chmod" ELSE "write", ![w].temp = name]
       \/ /\ OnWindows /\ \E name \in TempNames : Dir[name] # NoFile
          /\ IF wr[w].tries + 1 < MaxTries THEN wr' = [wr EXCEPT ![w].tries = @ + 1]
             ELSE Return(w, "failed")
          /\ UNCHANGED <<fsJournal, fsFile>>
       \/ Return(w, "failed") /\ UNCHANGED <<fsJournal, fsFile>>
    /\ UNCHANGED <<rd, crashed, keepsTemp, chmodSince>>

GetFileMode(name) == LET old == Followed(Dir, name)
                     IN  IF old \in Files THEN fsFile[old].mode ELSE "shared"

\* An existing file's mode, before there is anything to read in the new one.
SetFileMode(w) ==
    /\ WriterAt(w, "chmod")
    /\ \/ Go(w, "write") /\ fsFile' = [fsFile EXCEPT ![w].mode = GetFileMode(wr[w].target)]
       \/ Fail(w, "close") /\ UNCHANGED fsFile
    /\ UNCHANGED <<fsJournal, rd, crashed, keepsTemp, chmodSince>>

\* A WriteAll that takes one write for the whole.
WriteOnce(w) ==
    /\ WriterAt(w, "write")
    /\ \E n \in 1 .. FileSize : fsFile' = [fsFile EXCEPT ![w].len = n]
    /\ Go(w, "sync")
    /\ UNCHANGED <<fsJournal, rd, crashed, keepsTemp, chmodSince>>

\* The system takes n of the bytes that are left.
WriteSome(w, n) ==
    /\ fsFile' = [fsFile EXCEPT ![w].len = @ + n]
    /\ Go(w, IF fsFile[w].len + n = FileSize THEN "sync" ELSE "write")

\* One turn of the loop: some bytes, or an error.  An interrupted write changes nothing.
WriteAll(w) ==
    /\ WriterAt(w, "write")
    /\ \/ \E n \in 1 .. FileSize - fsFile[w].len : WriteSome(w, n)
       \/ Fail(w, ErrorStep) /\ UNCHANGED fsFile
    /\ UNCHANGED <<fsJournal, rd, crashed, keepsTemp, chmodSince>>

\* A Flush that leaves the bytes in the system's cache.
FlushUnsynced(w) ==
    /\ WriterAt(w, "sync")
    /\ Go(w, IF OnLinux THEN "close" ELSE "rename")
    /\ UNCHANGED <<fsJournal, fsFile, rd, crashed, keepsTemp, chmodSince>>

\* fsync, FlushFileBuffers.
Flush(w) ==
    /\ WriterAt(w, "sync")
    /\ \/ /\ fsFile' = [fsFile EXCEPT ![w].disk = fsFile[w].len]
          /\ Go(w, IF OnLinux THEN "close" ELSE "rename")
       \/ Fail(w, ErrorStep) /\ UNCHANGED fsFile
    /\ UNCHANGED <<fsJournal, rd, crashed, keepsTemp, chmodSince>>

\* Linux closes before it renames and may learn of an error here; Windows renames and removes
\* through the handle, and closes it last.
CloseFile(w) ==
    /\ WriterAt(w, "close")
    /\ IF OnWindows THEN Return(w, IF wr[w].failed THEN "failed" ELSE "done")
       ELSE \/ Go(w, IF wr[w].failed THEN "remove" ELSE "rename")
            \/ Fail(w, "remove")
    /\ UNCHANGED <<fsJournal, fsFile, rd, crashed, keepsTemp, chmodSince>>

\* A folder in the target's place is not replaced.
RenameOver(w) ==
    /\ WriterAt(w, "rename")
    /\ LET target == wr[w].target
       IN  \/ /\ Dir[target] = Old => fsFile[Old].kind # "folder"
              /\ Enter([Dir EXCEPT ![target] = w, ![wr[w].temp] = NoFile])
              /\ Go(w, "renamed")
              /\ chmodSince' = IF w \in chmodSince THEN ModeTaken ELSE chmodSince
           \/ Fail(w, "remove") /\ UNCHANGED <<fsJournal, chmodSince>>
    /\ UNCHANGED <<fsFile, rd, crashed, keepsTemp>>

Renamed(w) ==
    /\ WriterAt(w, "renamed")
    /\ IF OnLinux THEN Return(w, "done") ELSE Go(w, "close")
    /\ UNCHANGED <<fsJournal, fsFile, rd, crashed, keepsTemp, chmodSince>>

\* std::filesystem::remove with its error ignored; DeleteOpenFile in one form or the other.
RemoveTemporary(w) ==
    /\ WriterAt(w, "remove")
    /\ IF OnLinux THEN Return(w, "failed") ELSE Go(w, "close")
    /\ \/ /\ Enter([Dir EXCEPT ![wr[w].temp] = NoFile])
          /\ fsFile' = [fsFile EXCEPT ![w] = NewFile]
          /\ UNCHANGED keepsTemp
       \/ keepsTemp' = keepsTemp \cup {w} /\ UNCHANGED <<fsJournal, fsFile>>
    /\ UNCHANGED <<rd, crashed, chmodSince>>
-----------------------------------------------------------------------------
(* ReadWholeFile *)

ReadEnds(how) == rd' = [pc |-> how, file |-> None, size |-> 0, numRead |-> rd.numRead]

\* The questions ReadOpenFile asks before it reads.
IsReadable(file, maxSize) == file.kind = "regular" /\ file.len <= maxSize

OpenToRead ==
    /\ rd.pc = "idle"
    /\ IF Content(Dir) \notin Files THEN ReadEnds("failed")
       ELSE \E maxSize \in {FileSize - 1, FileSize} : LET file == fsFile[Content(Dir)]
            IN  IF ~IsReadable(file, maxSize) THEN ReadEnds("failed")
                ELSE rd' = [pc |-> IF file.len = 0 THEN "done" ELSE "read",
                            file |-> Content(Dir), size |-> file.len, numRead |-> 0]
    /\ UNCHANGED <<fsJournal, fsFile, wr, crashed, keepsTemp, chmodSince>>

\* One turn of the loop: some bytes, none at the end of a file cut short, or an error.
ReadOpenFile ==
    /\ rd.pc = "read"
    /\ LET left == fsFile[rd.file].len - rd.numRead
       IN  \/ \E n \in 1 .. left :
                 rd' = [rd EXCEPT !.numRead = @ + n,
                                  !.pc = IF rd.numRead + n = rd.size THEN "done" ELSE "read",
                                  !.file = IF rd.numRead + n = rd.size THEN None ELSE @]
           \/ left = 0 /\ ReadEnds("done")
           \/ ReadEnds("failed")
    /\ UNCHANGED <<fsJournal, fsFile, wr, crashed, keepsTemp, chmodSince>>
-----------------------------------------------------------------------------
(* The user, and the end of a process or of the system *)

ChangeMode ==
    /\ Content(Dir) \in Files
    /\ fsFile[Content(Dir)].mode = "shared"
    /\ fsFile' = [fsFile EXCEPT ![Content(Dir)].mode = "private"]
    /\ chmodSince' = ModeTaken
    /\ UNCHANGED <<fsJournal, wr, rd, crashed, keepsTemp>>

\* Of a file's bytes, those synced are there afterwards, and of the others any number; a file the
\* folder on disk does not name is gone.  What runs afterwards reads the file.  The end of the
\* process alone is the case in which nothing is lost.
SystemCrash ==
    /\ ~crashed /\ crashed' = TRUE
    /\ \E i \in DOMAIN fsJournal : \E len \in [Files \cap Range(fsJournal[i]) -> 0 .. FileSize] :
          /\ fsJournal' = << fsJournal[i] >>
          /\ \A f \in DOMAIN len : len[f] \in fsFile[f].disk .. fsFile[f].len
          /\ fsFile' = [f \in Files |-> IF f \in DOMAIN len
                            THEN [fsFile[f] EXCEPT !.len = len[f], !.disk = len[f]] ELSE NewFile]
    /\ wr' = [w \in Writers |-> IF wr[w].pc \in {"done", "failed"} THEN wr[w] ELSE Locals("dead")]
    /\ rd' = IF rd.pc = "read" THEN [rd EXCEPT !.pc = "failed"] ELSE rd
    /\ UNCHANGED <<keepsTemp, chmodSince>>

WriteNext ==
    \/ \E w \in Writers :
          \/ ResolveLink(w) \/ CreateTemporaryFile(w) \/ SetFileMode(w)
          \/ WriteAll(w) \/ Flush(w) \/ CloseFile(w) \/ RenameOver(w) \/ Renamed(w)
          \/ RemoveTemporary(w)
    \/ OpenToRead \/ ReadOpenFile
    \/ ChangeMode \/ SystemCrash
-----------------------------------------------------------------------------
(* Properties *)

Whole(f) == IF f \in Files /\ fsFile[f].len < FileSize THEN "torn" ELSE f

CallOf(w) == CASE wr[w].pc \in {"idle", "done", "failed", "dead"} ->
                    IF wr[w].pc = "done" THEN "ok" ELSE wr[w].pc
               [] wr[w].pc = "renamed" -> "applied"
               [] wr[w].pc = "close" /\ OnWindows /\ ~wr[w].failed -> "applied"
               [] OTHER -> "calling"

File == INSTANCE AtomicFile WITH
           Writers <- Writers, Contents <- Files \cup {NoFile},
           content <- Whole(Content(Dir)),
           past <- {Content(fsJournal[i]) : i \in DOMAIN fsJournal},
           call <- [w \in Writers |-> CallOf(w)]

\* The writers, their failures at any call, the end of their process and a crash of the system
\* implement a file replaced as a whole: "neither a crash nor a second writer can tear it", a call that
\* failed changed nothing, one that succeeded replaced the content once.
ImplementsAtomicFile == File!ASpec

\* ReadWholeFile, racing the renames, returns one content from its first byte to its last.
ReadIsWhole == rd.pc = "done" => rd.numRead = FileSize

\* A rename keeps a link that leads to a file, and on Linux the mode the file had when its writer
\* looked, unless it was changed since.
KeepsLinkAndMode ==
    [][\A w \in Writers : RenameOver(w) /\ wr'[w].pc = "renamed" =>
          /\ Dir[Path] = SymLink /\ Dir[Real] # NoFile => Last(fsJournal')[Path] = SymLink
          /\ OnLinux /\ w \notin chmodSince /\ Content(Dir) \in Files
                => fsFile[w].mode = fsFile[Content(Dir)].mode]_writeVars

\* A temporary file is left behind only by a writer that died, or whose removal failed: every
\* error path before and after the rename takes it away.
NoTempLeftBehind ==
    ~crashed => \A n \in TempNames : Dir[n] # NoFile =>
                   LET w == Dir[n] IN Active(w) \/ WriterAt(w, "dead") \/ w \in keepsTemp
=============================================================================
