---------------------------- MODULE ServicesProofs ----------------------------
(***************************************************************************)
(* The services that do not call one another.  WriteFileAtomically, for    *)
(* any number of writers: the invariant of the folder's journal, the       *)
(* writers and the reader, that a read is whole, that a rename keeps the   *)
(* link and the mode, and that the whole implements the atomic file of     *)
(* AtomicFile.  Then address lookups, the Windows watch, children, the     *)
(* console, certificates, sockets and the end of what the Linux watch      *)
(* watches, each with its own invariant, and at the end what they have in  *)
(* common.                                                                 *)
(***************************************************************************)
EXTENDS MCServices, SequenceFilterProofs, TLAPS

EntryNames == {Path, Real} \cup TempNames
FolderStates == [EntryNames -> Files \cup {NoFile, SymLink}]

WriterPcs == {"idle", "create", "chmod", "write", "sync", "close", "rename", "renamed", "remove",
              "done", "failed", "dead"}

FileStates == [kind : {"regular", "folder"}, len : 0 .. FileSize, disk : 0 .. FileSize,
               mode : {"private", "shared"}]
LocalStates == [pc : WriterPcs, target : {None, Path, Real}, temp : {None} \cup TempNames,
                failed : BOOLEAN, tries : Nat]

WriteTypeOK ==
    /\ platform \in Platforms
    /\ fsJournal \in Seq(FolderStates) /\ fsJournal # <<>>
    /\ fsFile \in [Files -> FileStates]
    /\ wr \in [Writers -> LocalStates]
    /\ rd \in [pc : {"idle", "read", "done", "failed"}, file : {None} \cup Files,
               size : 0 .. FileSize, numRead : 0 .. FileSize]
    /\ crashed \in BOOLEAN /\ keepsTemp \subseteq Writers /\ chmodSince \subseteq Writers

\* How far a writer's file is, and what its locals hold.
WriterOK(w) ==
    /\ fsFile[w].disk <= fsFile[w].len
    /\ wr[w].pc \in {"idle", "create", "chmod", "write"} => fsFile[w].len < FileSize
    /\ wr[w].pc = "sync" => fsFile[w].len = FileSize
    /\ wr[w].pc = "rename" \/ (OnLinux /\ wr[w].pc = "close" /\ ~wr[w].failed)
          => fsFile[w].len = FileSize /\ fsFile[w].disk = FileSize
    /\ wr[w].failed => wr[w].pc \in {"close", "remove"}
    /\ wr[w].pc = "remove" => wr[w].failed
    /\ wr[w].pc \in {"chmod", "write", "sync", "close", "rename", "renamed", "remove"}
          => wr[w].temp \in TempNames
    /\ OnWindows => wr[w].pc # "chmod"

ProgressInv == \A w \in Writers : WriterOK(w)

\* A file that the path may lead to: it is whole, on disk too, and no writer changes it any more.
Placed(f) ==
    /\ fsFile[f].len = FileSize /\ fsFile[f].disk = FileSize
    /\ f \in Writers => \/ wr[f].pc \in {"renamed", "done", "dead"}
                        \/ OnWindows /\ wr[f].pc = "close" /\ ~wr[f].failed

PlacedInv ==
    \A i \in DOMAIN fsJournal : \A n \in {Path, Real} :
       fsJournal[i][n] \in Files => Placed(fsJournal[i][n])

\* The path leads over a link in every state that a crash may bring back, or in none; the
\* writers have looked through it, or had none to look through.
Linked ==
    /\ \A i \in DOMAIN fsJournal : fsJournal[i][Path] = SymLink /\ fsJournal[i][Real] \in Files
    /\ \A w \in Writers : Active(w) => wr[w].target = Real
Unlinked ==
    /\ \A i \in DOMAIN fsJournal : fsJournal[i][Real] = NoFile
    /\ \A w \in Writers : Active(w) => wr[w].target = Path
LinkInv == Linked \/ Unlinked

ReaderInv ==
    /\ rd.pc = "read" => /\ rd.file \in Files /\ Placed(rd.file)
                         /\ rd.size = FileSize /\ rd.numRead < FileSize
    /\ rd.pc = "done" => rd.numRead = FileSize

\* The mode a new file gets beside the current one.
CurrentMode == IF Content(Dir) \in Files THEN fsFile[Content(Dir)].mode ELSE "shared"

\* A writer's file has that mode, once the writer has taken it.
ModeOK(w) ==
    OnLinux /\ w \notin chmodSince /\ ~wr[w].failed /\ wr[w].pc \in {"write", "sync", "close", "rename"}
       => fsFile[w].mode = CurrentMode

ModeInv == \A w \in Writers : ModeOK(w)

\* A writer whose temporary file is there, and is still to be renamed or removed.
HoldsTemp(w, name) ==
    /\ wr[w].temp = name
    /\ \/ wr[w].pc \in {"chmod", "write", "sync", "rename", "remove"}
       \/ wr[w].pc = "close" /\ OnLinux

TempInv ==
    ~crashed => \A n \in TempNames :
       Dir[n] # NoFile => Dir[n] \in Writers /\ (HoldsTemp(Dir[n], n) \/ Dir[n] \in keepsTemp)

WriteInv == /\ WriteTypeOK /\ ProgressInv /\ PlacedInv /\ LinkInv /\ ReaderInv /\ ModeInv /\ TempInv
-----------------------------------------------------------------------------
(* The folder as programs see it is the journal's last state.              *)
LEMMA JournalLast ==
  ASSUME WriteTypeOK
  PROVE  /\ Len(fsJournal) \in Nat \ {0} /\ DOMAIN fsJournal = 1 .. Len(fsJournal)
         /\ Len(fsJournal) \in DOMAIN fsJournal
         /\ Dir = fsJournal[Len(fsJournal)] /\ Dir \in FolderStates
         /\ \A i \in DOMAIN fsJournal : fsJournal[i] \in FolderStates
  BY DEF WriteTypeOK, Dir, Last

LEMMA JournalGrows ==
  ASSUME WriteTypeOK, NEW e \in FolderStates, fsJournal' = Append(fsJournal, e)
  PROVE  /\ fsJournal' \in Seq(FolderStates) /\ fsJournal' # <<>>
         /\ Last(fsJournal') = e
         /\ DOMAIN fsJournal' = DOMAIN fsJournal \cup {Len(fsJournal) + 1}
         /\ fsJournal'[Len(fsJournal) + 1] = e
         /\ \A i \in DOMAIN fsJournal : fsJournal'[i] = fsJournal[i]
  BY DEF WriteTypeOK, Last

(* What a reader finds is in place.                                        *)
LEMMA CurrentIsPlaced ==
  ASSUME WriteTypeOK, PlacedInv
  PROVE  Content(Dir) \in Files => Placed(Content(Dir))
  <1>1. Len(fsJournal) \in DOMAIN fsJournal /\ Dir = fsJournal[Len(fsJournal)]
    BY JournalLast
  <1>2. \A n \in {Path, Real} : Dir[n] \in Files => Placed(Dir[n])
    BY <1>1 DEF PlacedInv
  <1> QED
    BY <1>2 DEF Content, Followed

(* A step of one writer touches its own locals and its own file only, and  *)
(* not that once it is in place; a mode it has taken is the current one.   *)
OwnStep(w) ==
    /\ platform' = platform /\ rd' = rd /\ crashed' = crashed /\ chmodSince' = chmodSince
    /\ \A f \in Files \ {w} : fsFile'[f] = fsFile[f]
    /\ \A v \in Writers \ {w} : wr'[v] = wr[v]
LeavesPlaced(w) == Placed(w) => Placed(w)' /\ fsFile'[w].mode = fsFile[w].mode
TakenMode(w) ==
    OnLinux /\ w \notin chmodSince /\ ~wr'[w].failed /\ wr'[w].pc \in {"write", "sync", "close", "rename"}
       => fsFile'[w].mode = CurrentMode
LeavesTarget(w) == Active(w)' => Active(w) /\ wr'[w].target = wr[w].target
LeavesTemp(w) == \A n \in TempNames : HoldsTemp(w, n) => HoldsTemp(w, n)'

(* A step of one writer that leaves what the path leads to as it is.       *)
LEMMA WriterStep ==
  ASSUME WriteInv, WriteTypeOK', NEW w \in Writers, OwnStep(w),
         \A i \in DOMAIN fsJournal' : \E j \in DOMAIN fsJournal :
            \A n \in {Path, Real} : fsJournal'[i][n] = fsJournal[j][n],
         \A n \in {Path, Real} : Dir'[n] = Dir[n],
         WriterOK(w)', LeavesPlaced(w), TakenMode(w),
         Active(w)' => /\ Linked => wr'[w].target = Real
                       /\ Unlinked => wr'[w].target = Path
  PROVE  ProgressInv' /\ PlacedInv' /\ LinkInv' /\ ReaderInv' /\ ModeInv'
  <1>0. Old \notin Writers
    BY WriteAssumption
  <1> USE DEF OwnStep, LeavesPlaced, TakenMode
  <1>1. ProgressInv'
    <2>1. \A v \in Writers \ {w} : WriterOK(v)'
      BY DEF WriteInv, ProgressInv, WriterOK, Files, OnLinux, OnWindows
    <2> QED
      BY <2>1 DEF ProgressInv
  <1>2. \A f \in Files : Placed(f) => Placed(f)'
    BY <1>0 DEF Placed, Files, OnWindows
  <1>3. PlacedInv'
    BY <1>2 DEF WriteInv, PlacedInv
  <1>4. LinkInv'
    <2>1. \A v \in Writers \ {w} : Active(v)' => Active(v) /\ wr'[v].target = wr[v].target
      BY DEF Active
    <2>2. CASE Linked
      BY <2>1, <2>2 DEF Linked, LinkInv
    <2>3. CASE Unlinked
      BY <2>1, <2>3 DEF Unlinked, LinkInv
    <2> QED
      BY <2>2, <2>3 DEF WriteInv, LinkInv
  <1>5. ReaderInv'
    BY <1>2 DEF WriteInv, ReaderInv
  <1>6. ModeInv'
    <2>1. Content(Dir)' = Content(Dir)
      BY DEF Content, Followed
    <2>2. Content(Dir) \in Files => Placed(Content(Dir))
      BY CurrentIsPlaced DEF WriteInv
    <2>3. CurrentMode' = CurrentMode
      BY <2>1, <2>2 DEF CurrentMode
    <2>4. \A v \in Writers \ {w} : ModeOK(v)'
      BY <2>3 DEF WriteInv, ModeInv, ModeOK, OnLinux, Files
    <2>5. ModeOK(w)'
      BY <2>3 DEF ModeOK, OnLinux
    <2> QED
      BY <2>4, <2>5 DEF ModeInv
  <1> QED
    BY <1>1, <1>3, <1>4, <1>5, <1>6

(* A step of one writer that changes no entry of the folder.               *)
LEMMA TempStep ==
  ASSUME WriteInv, NEW w \in Writers, OwnStep(w), fsJournal' = fsJournal, keepsTemp' = keepsTemp,
         LeavesTemp(w)
  PROVE  TempInv'
  <1>1. \A v \in Writers, n \in TempNames : HoldsTemp(v, n) => HoldsTemp(v, n)'
    BY DEF HoldsTemp, OnLinux, OwnStep, LeavesTemp
  <1> QED
    BY <1>1 DEF WriteInv, TempInv, Dir, OwnStep

(* The two together: a step of one writer on its way, in an unchanged folder. *)
LEMMA SameFolderStep ==
  ASSUME WriteInv, NEW w \in Writers, OwnStep(w), fsJournal' = fsJournal, keepsTemp' = keepsTemp,
         wr' \in [Writers -> LocalStates], fsFile' \in [Files -> FileStates],
         WriterOK(w)', LeavesPlaced(w), TakenMode(w), LeavesTarget(w), LeavesTemp(w)
  PROVE  WriteInv'
  <1>0. WriteTypeOK'
    BY DEF WriteInv, WriteTypeOK, OwnStep
  <1>1. /\ \A i \in DOMAIN fsJournal' : \E j \in DOMAIN fsJournal :
               \A n \in {Path, Real} : fsJournal'[i][n] = fsJournal[j][n]
        /\ \A n \in {Path, Real} : Dir'[n] = Dir[n]
    BY DEF Dir
  <1>2. Active(w)' => /\ Linked => wr'[w].target = Real
                      /\ Unlinked => wr'[w].target = Path
    BY DEF Linked, Unlinked, LeavesTarget
  <1>3. ProgressInv' /\ PlacedInv' /\ LinkInv' /\ ReaderInv' /\ ModeInv'
    BY <1>0, <1>1, <1>2, WriterStep
  <1>4. TempInv'
    BY TempStep
  <1> QED
    BY <1>0, <1>3, <1>4 DEF WriteInv

(* Before a step of the whole: the mode that SetFileMode asks for.          *)
LEMMA ModeAsked ==
  ASSUME WriteInv, NEW w \in Writers, Active(w)
  PROVE  GetFileMode(wr[w].target) = CurrentMode
  <1>1. Len(fsJournal) \in DOMAIN fsJournal /\ Dir = fsJournal[Len(fsJournal)]
    BY JournalLast DEF WriteInv
  <1>2. CASE Linked
    <2>1. wr[w].target = Real /\ Dir[Path] = SymLink /\ Dir[Real] \in Files
      BY <1>1, <1>2 DEF Linked
    <2> QED
      BY <2>1, WriteAssumption DEF GetFileMode, CurrentMode, Content, Followed, Files
  <1>3. CASE Unlinked
    BY <1>3 DEF Unlinked, GetFileMode, CurrentMode, Content
  <1> QED
    BY <1>2, <1>3 DEF WriteInv, LinkInv

(* How a writer's locals change.                                           *)
LEMMA GoLocals ==
  ASSUME WriteTypeOK, NEW w \in Writers, NEW upTo \in WriterPcs, Go(w, upTo)
  PROVE  /\ wr' \in [Writers -> LocalStates] /\ \A v \in Writers \ {w} : wr'[v] = wr[v]
         /\ wr'[w].pc = upTo /\ wr'[w].target = wr[w].target /\ wr'[w].temp = wr[w].temp
         /\ wr'[w].failed = wr[w].failed
  BY DEF WriteTypeOK, LocalStates, Go

LEMMA FailLocals ==
  ASSUME WriteTypeOK, NEW w \in Writers, NEW upTo \in WriterPcs, Fail(w, upTo)
  PROVE  /\ wr' \in [Writers -> LocalStates] /\ \A v \in Writers \ {w} : wr'[v] = wr[v]
         /\ wr'[w].pc = upTo /\ wr'[w].target = wr[w].target /\ wr'[w].temp = wr[w].temp
         /\ wr'[w].failed
  BY DEF WriteTypeOK, LocalStates, Fail

LEMMA ReturnLocals ==
  ASSUME WriteTypeOK, NEW w \in Writers, NEW upTo \in WriterPcs, Return(w, upTo)
  PROVE  /\ wr' \in [Writers -> LocalStates] /\ \A v \in Writers \ {w} : wr'[v] = wr[v]
         /\ wr'[w].pc = upTo /\ wr'[w].target = None /\ wr'[w].temp = None /\ ~wr'[w].failed
  BY DEF WriteTypeOK, LocalStates, Return, Locals

(* How a writer's file changes.                                            *)
LEMMA FileChanges ==
  ASSUME WriteTypeOK, NEW w \in Files
  PROVE  /\ fsFile[w] \in FileStates
         /\ \A len \in 0 .. FileSize : fsFile' = [fsFile EXCEPT ![w].len = len] =>
               /\ fsFile' \in [Files -> FileStates] /\ \A f \in Files \ {w} : fsFile'[f] = fsFile[f]
               /\ fsFile'[w].len = len /\ fsFile'[w].disk = fsFile[w].disk
               /\ fsFile'[w].mode = fsFile[w].mode
         /\ \A disk \in 0 .. FileSize : fsFile' = [fsFile EXCEPT ![w].disk = disk] =>
               /\ fsFile' \in [Files -> FileStates] /\ \A f \in Files \ {w} : fsFile'[f] = fsFile[f]
               /\ fsFile'[w].len = fsFile[w].len /\ fsFile'[w].disk = disk
               /\ fsFile'[w].mode = fsFile[w].mode
         /\ \A mode \in {"private", "shared"} : fsFile' = [fsFile EXCEPT ![w].mode = mode] =>
               /\ fsFile' \in [Files -> FileStates] /\ \A f \in Files \ {w} : fsFile'[f] = fsFile[f]
               /\ fsFile'[w].len = fsFile[w].len /\ fsFile'[w].disk = fsFile[w].disk
               /\ fsFile'[w].mode = mode
  <1>1. fsFile \in [Files -> FileStates] /\ fsFile[w] \in FileStates
    BY DEF WriteTypeOK
  <1>2. ASSUME NEW r \in FileStates, fsFile' = [fsFile EXCEPT ![w] = r]
        PROVE  /\ fsFile' \in [Files -> FileStates] /\ fsFile'[w] = r
               /\ \A f \in Files \ {w} : fsFile'[f] = fsFile[f]
    BY <1>1, <1>2
  <1>3. \A len \in 0 .. FileSize : fsFile' = [fsFile EXCEPT ![w].len = len] =>
           \E r \in FileStates : /\ fsFile' = [fsFile EXCEPT ![w] = r]
                                 /\ r.len = len /\ r.disk = fsFile[w].disk /\ r.mode = fsFile[w].mode
    BY <1>1 DEF FileStates
  <1>4. \A disk \in 0 .. FileSize : fsFile' = [fsFile EXCEPT ![w].disk = disk] =>
           \E r \in FileStates : /\ fsFile' = [fsFile EXCEPT ![w] = r]
                                 /\ r.len = fsFile[w].len /\ r.disk = disk /\ r.mode = fsFile[w].mode
    BY <1>1 DEF FileStates
  <1>5. \A mode \in {"private", "shared"} : fsFile' = [fsFile EXCEPT ![w].mode = mode] =>
           \E r \in FileStates : /\ fsFile' = [fsFile EXCEPT ![w] = r]
                                 /\ r.len = fsFile[w].len /\ r.disk = fsFile[w].disk /\ r.mode = mode
    <2> TAKE mode \in {"private", "shared"}
    <2> HAVE fsFile' = [fsFile EXCEPT ![w].mode = mode]
    <2> DEFINE r == [fsFile[w] EXCEPT !.mode = mode]
    <2>1. r \in FileStates
      BY <1>1 DEF FileStates
    <2>2. fsFile' = [fsFile EXCEPT ![w] = r]
      BY <1>1
    <2>3. r.len = fsFile[w].len /\ r.disk = fsFile[w].disk /\ r.mode = mode
      BY <1>1 DEF FileStates
    <2> QED
      BY <2>1, <2>2, <2>3
  <1> QED
    BY <1>1, <1>2, <1>3, <1>4, <1>5

(* An error on the way to the rename leads to the removal.                 *)
LEMMA ErrorKeeps ==
  ASSUME WriteInv, platform' = platform, NEW w \in Writers, NEW upTo \in {"close", "remove"},
         upTo = "close" => OnLinux /\ wr[w].pc # "close",
         wr[w].pc \in {"chmod", "write", "sync", "rename"} \/ (OnLinux /\ wr[w].pc = "close"),
         Fail(w, upTo), UNCHANGED <<fsJournal, fsFile, rd, crashed, keepsTemp, chmodSince>>
  PROVE  WriteInv'
  <1>0. WriteTypeOK /\ WriterOK(w) /\ upTo \in WriterPcs
    BY DEF WriteInv, ProgressInv, WriterPcs
  <1>1. /\ wr' \in [Writers -> LocalStates] /\ \A v \in Writers \ {w} : wr'[v] = wr[v]
        /\ wr'[w].pc = upTo /\ wr'[w].target = wr[w].target /\ wr'[w].temp = wr[w].temp
        /\ wr'[w].failed
    BY <1>0, FailLocals
  <1>2. OwnStep(w) /\ TakenMode(w)
    BY <1>1 DEF OwnStep, TakenMode
  <1>3. LeavesPlaced(w)
    BY DEF LeavesPlaced, Placed, OnLinux, OnWindows
  <1>4. WriterOK(w)'
    BY <1>0, <1>1 DEF WriterOK
  <1>5. LeavesTemp(w) /\ LeavesTarget(w)
    BY <1>1 DEF LeavesTemp, LeavesTarget, HoldsTemp, OnLinux, Active
  <1> QED
    BY <1>0, <1>1, <1>2, <1>3, <1>4, <1>5, SameFolderStep DEF WriteTypeOK
-----------------------------------------------------------------------------
LEMMA WriteAllKeeps ==
  ASSUME WriteInv, platform' = platform, NEW w \in Writers, WriteAll(w)
  PROVE  WriteInv'
  <1>0. WriteTypeOK /\ WriterOK(w) /\ ModeOK(w) /\ FileSize \in Nat \ {0}
    BY WriteAssumption DEF WriteInv, ProgressInv, ModeInv
  <1>1. /\ wr[w].pc = "write" /\ ~wr[w].failed /\ wr[w].temp \in TempNames
        /\ fsFile[w] \in FileStates /\ fsFile[w].len \in 0 .. FileSize
        /\ fsFile[w].disk \in 0 .. FileSize /\ fsFile[w].disk <= fsFile[w].len
    BY <1>0 DEF WriteAll, WriterAt, WriterOK, WriteTypeOK, Files, FileStates
  <1>2. /\ fsJournal' = fsJournal /\ rd' = rd /\ crashed' = crashed
        /\ keepsTemp' = keepsTemp /\ chmodSince' = chmodSince
    BY DEF WriteAll
  <1>3. LeavesPlaced(w) /\ Active(w)
    BY <1>1 DEF LeavesPlaced, Placed, Active
  <1>4. ASSUME NEW n \in 1 .. FileSize - fsFile[w].len, WriteSome(w, n)
        PROVE  WriteInv'
    <2> PICK upTo \in {"sync", "write"} : upTo = IF fsFile[w].len + n = FileSize THEN "sync" ELSE "write"
      OBVIOUS
    <2>1. Go(w, upTo) /\ upTo \in WriterPcs
      BY <1>4 DEF WriteSome, WriterPcs
    <2>2. /\ wr' \in [Writers -> LocalStates] /\ \A v \in Writers \ {w} : wr'[v] = wr[v]
          /\ wr'[w].pc = upTo /\ wr'[w].target = wr[w].target /\ wr'[w].temp = wr[w].temp
          /\ wr'[w].failed = wr[w].failed
      BY <1>0, <2>1, GoLocals
    <2> PICK len \in 0 .. FileSize : len = fsFile[w].len + n
      BY <1>0, <1>1
    <2>3. /\ fsFile' \in [Files -> FileStates] /\ \A f \in Files \ {w} : fsFile'[f] = fsFile[f]
          /\ fsFile'[w].len = len /\ fsFile'[w].disk = fsFile[w].disk
          /\ fsFile'[w].mode = fsFile[w].mode
      <3>1. fsFile' = [fsFile EXCEPT ![w].len = len]
        BY <1>4 DEF WriteSome
      <3>2. w \in Files /\ WriteTypeOK
        BY <1>0 DEF Files
      <3> QED
        BY <3>1, <3>2, FileChanges, Zenon
    <2>4. OwnStep(w)
      BY <1>2, <2>2, <2>3 DEF OwnStep
    <2>5. WriterOK(w)'
      BY <1>0, <1>1, <2>2, <2>3 DEF WriterOK
    <2>6. LeavesTemp(w) /\ LeavesTarget(w)
      BY <1>1, <1>3, <2>2 DEF HoldsTemp, LeavesTemp, LeavesTarget
    <2>7. TakenMode(w)
      BY <1>0, <1>1, <2>3 DEF ModeOK, TakenMode
    <2> QED
      BY <1>2, <1>3, <2>2, <2>3, <2>4, <2>5, <2>6, <2>7, SameFolderStep
  <1>5. ASSUME Fail(w, ErrorStep), UNCHANGED fsFile
        PROVE  WriteInv'
    <2>1. ErrorStep \in {"close", "remove"} /\ (ErrorStep = "close" => OnLinux)
      BY DEF ErrorStep
    <2> QED
      BY <2>1, <1>1, <1>2, <1>5, ErrorKeeps
  <1> QED
    BY <1>4, <1>5 DEF WriteAll

LEMMA FlushKeeps ==
  ASSUME WriteInv, platform' = platform, NEW w \in Writers, Flush(w)
  PROVE  WriteInv'
  <1>0. WriteTypeOK /\ WriterOK(w) /\ ModeOK(w) /\ FileSize \in Nat \ {0} /\ w \in Files
    BY WriteAssumption DEF WriteInv, ProgressInv, ModeInv, Files
  <1>1. /\ wr[w].pc = "sync" /\ ~wr[w].failed /\ wr[w].temp \in TempNames
        /\ fsFile[w].len = FileSize
    BY <1>0 DEF Flush, WriterAt, WriterOK
  <1>2. /\ fsJournal' = fsJournal /\ rd' = rd /\ crashed' = crashed
        /\ keepsTemp' = keepsTemp /\ chmodSince' = chmodSince
    BY DEF Flush
  <1>3. ASSUME fsFile' = [fsFile EXCEPT ![w].disk = fsFile[w].len],
               Go(w, IF OnLinux THEN "close" ELSE "rename")
        PROVE  WriteInv'
    <2> PICK upTo \in WriterPcs : upTo = IF OnLinux THEN "close" ELSE "rename"
      BY DEF WriterPcs
    <2>2. /\ wr' \in [Writers -> LocalStates] /\ \A v \in Writers \ {w} : wr'[v] = wr[v]
          /\ wr'[w].pc = upTo /\ wr'[w].target = wr[w].target /\ wr'[w].temp = wr[w].temp
          /\ wr'[w].failed = wr[w].failed
      BY <1>0, <1>3, GoLocals
    <2>3. /\ fsFile' \in [Files -> FileStates] /\ \A f \in Files \ {w} : fsFile'[f] = fsFile[f]
          /\ fsFile'[w].len = FileSize /\ fsFile'[w].disk = FileSize
          /\ fsFile'[w].mode = fsFile[w].mode
      <3>1. fsFile' = [fsFile EXCEPT ![w].disk = FileSize] /\ FileSize \in 0 .. FileSize
        BY <1>0, <1>1, <1>3
      <3> QED
        BY <1>0, <1>1, <3>1, FileChanges
    <2>4. OwnStep(w) /\ LeavesPlaced(w)
      BY <1>1, <1>2, <2>2, <2>3 DEF OwnStep, LeavesPlaced, Placed
    <2>5. WriterOK(w)'
      BY <1>0, <1>1, <2>2, <2>3 DEF WriterOK
    <2>6. LeavesTemp(w) /\ LeavesTarget(w)
      BY <1>1, <2>2 DEF HoldsTemp, LeavesTemp, LeavesTarget, Active, OnLinux
    <2>7. TakenMode(w)
      BY <1>0, <1>1, <2>3 DEF ModeOK, TakenMode
    <2> QED
      BY <1>2, <2>2, <2>3, <2>4, <2>5, <2>6, <2>7, SameFolderStep
  <1>4. ASSUME Fail(w, ErrorStep), UNCHANGED fsFile
        PROVE  WriteInv'
    <2>1. ErrorStep \in {"close", "remove"} /\ (ErrorStep = "close" => OnLinux)
      BY DEF ErrorStep
    <2> QED
      BY <2>1, <1>1, <1>2, <1>4, ErrorKeeps
  <1> QED
    BY <1>3, <1>4 DEF Flush

LEMMA CloseKeeps ==
  ASSUME WriteInv, platform' = platform, NEW w \in Writers, CloseFile(w)
  PROVE  WriteInv'
  <1>0. WriteTypeOK /\ WriterOK(w) /\ ModeOK(w) /\ FileSize \in Nat \ {0} /\ w \in Files
    BY WriteAssumption DEF WriteInv, ProgressInv, ModeInv, Files
  <1>1. wr[w].pc = "close" /\ wr[w].temp \in TempNames /\ wr[w].failed \in BOOLEAN
    BY <1>0 DEF CloseFile, WriterAt, WriterOK, WriteTypeOK, LocalStates
  <1>2. /\ fsJournal' = fsJournal /\ rd' = rd /\ crashed' = crashed
        /\ keepsTemp' = keepsTemp /\ chmodSince' = chmodSince
        /\ fsFile' = fsFile /\ fsFile \in [Files -> FileStates]
    BY <1>0 DEF CloseFile, WriteTypeOK
  <1>3. ASSUME OnWindows, Return(w, IF wr[w].failed THEN "failed" ELSE "done")
        PROVE  WriteInv'
    <2> PICK upTo \in WriterPcs : upTo = IF wr[w].failed THEN "failed" ELSE "done"
      BY DEF WriterPcs
    <2>2. /\ wr' \in [Writers -> LocalStates] /\ \A v \in Writers \ {w} : wr'[v] = wr[v]
          /\ wr'[w].pc = upTo /\ wr'[w].target = None /\ wr'[w].temp = None /\ ~wr'[w].failed
      BY <1>0, <1>3, ReturnLocals
    <2>4. OwnStep(w) /\ TakenMode(w)
      BY <1>2, <2>2 DEF OwnStep, TakenMode
    <2>5. WriterOK(w)' /\ LeavesPlaced(w)
      BY <1>0, <1>1, <1>2, <2>2 DEF WriterOK, LeavesPlaced, Placed
    <2>6. LeavesTemp(w) /\ LeavesTarget(w)
      BY <1>1, <1>3, <2>2 DEF HoldsTemp, LeavesTemp, LeavesTarget, Active, OnLinux, OnWindows
    <2> QED
      BY <1>2, <2>2, <2>4, <2>5, <2>6, SameFolderStep
  <1>4. ASSUME ~OnWindows, Go(w, IF wr[w].failed THEN "remove" ELSE "rename")
        PROVE  WriteInv'
    <2>1. OnLinux
      BY <1>0, <1>4 DEF WriteTypeOK, Platforms, OnLinux, OnWindows
    <2> PICK upTo \in WriterPcs : upTo = IF wr[w].failed THEN "remove" ELSE "rename"
      BY DEF WriterPcs
    <2>2. /\ wr' \in [Writers -> LocalStates] /\ \A v \in Writers \ {w} : wr'[v] = wr[v]
          /\ wr'[w].pc = upTo /\ wr'[w].target = wr[w].target /\ wr'[w].temp = wr[w].temp
          /\ wr'[w].failed = wr[w].failed
      BY <1>0, <1>4, GoLocals
    <2>4. OwnStep(w) /\ LeavesPlaced(w)
      BY <1>1, <1>2, <1>4, <2>2 DEF OwnStep, LeavesPlaced, Placed
    <2>5. WriterOK(w)'
      BY <1>0, <1>1, <1>2, <2>1, <2>2 DEF WriterOK
    <2>6. LeavesTemp(w) /\ LeavesTarget(w)
      BY <1>1, <2>2 DEF HoldsTemp, LeavesTemp, LeavesTarget, Active
    <2>7. TakenMode(w)
      BY <1>0, <1>1, <1>2, <2>2 DEF ModeOK, TakenMode
    <2> QED
      BY <1>2, <2>2, <2>4, <2>5, <2>6, <2>7, SameFolderStep
  <1>5. ASSUME ~OnWindows, Fail(w, "remove")
        PROVE  WriteInv'
    <2>1. OnLinux
      BY <1>0, <1>5 DEF WriteTypeOK, Platforms, OnLinux, OnWindows
    <2> QED
      BY <2>1, <1>1, <1>2, <1>5, ErrorKeeps
  <1> QED
    BY <1>3, <1>4, <1>5 DEF CloseFile

LEMMA RenamedKeeps ==
  ASSUME WriteInv, platform' = platform, NEW w \in Writers, Renamed(w)
  PROVE  WriteInv'
  <1>0. WriteTypeOK /\ WriterOK(w) /\ ModeOK(w) /\ FileSize \in Nat \ {0} /\ w \in Files
    BY WriteAssumption DEF WriteInv, ProgressInv, ModeInv, Files
  <1>1. wr[w].pc = "renamed" /\ wr[w].temp \in TempNames /\ ~wr[w].failed
    BY <1>0 DEF Renamed, WriterAt, WriterOK
  <1>2. /\ fsJournal' = fsJournal /\ rd' = rd /\ crashed' = crashed
        /\ keepsTemp' = keepsTemp /\ chmodSince' = chmodSince
        /\ fsFile' = fsFile /\ fsFile \in [Files -> FileStates]
    BY <1>0 DEF Renamed, WriteTypeOK
  <1>3. ASSUME OnLinux, Return(w, "done")
        PROVE  WriteInv'
    <2>2. /\ wr' \in [Writers -> LocalStates] /\ \A v \in Writers \ {w} : wr'[v] = wr[v]
          /\ wr'[w].pc = "done" /\ wr'[w].target = None /\ wr'[w].temp = None /\ ~wr'[w].failed
      BY <1>0, <1>3, ReturnLocals DEF WriterPcs
    <2>4. OwnStep(w) /\ TakenMode(w)
      BY <1>2, <2>2 DEF OwnStep, TakenMode
    <2>5. WriterOK(w)' /\ LeavesPlaced(w)
      BY <1>0, <1>1, <1>2, <2>2 DEF WriterOK, LeavesPlaced, Placed
    <2>6. LeavesTemp(w) /\ LeavesTarget(w)
      BY <1>1, <2>2 DEF HoldsTemp, LeavesTemp, LeavesTarget, Active
    <2> QED
      BY <1>2, <2>2, <2>4, <2>5, <2>6, SameFolderStep
  <1>4. ASSUME ~OnLinux, Go(w, "close")
        PROVE  WriteInv'
    <2>1. OnWindows /\ OnWindows'
      BY <1>0, <1>4 DEF WriteTypeOK, Platforms, OnLinux, OnWindows
    <2>2. /\ wr' \in [Writers -> LocalStates] /\ \A v \in Writers \ {w} : wr'[v] = wr[v]
          /\ wr'[w].pc = "close" /\ wr'[w].target = wr[w].target /\ wr'[w].temp = wr[w].temp
          /\ wr'[w].failed = wr[w].failed
      BY <1>0, <1>4, GoLocals DEF WriterPcs
    <2>4. OwnStep(w) /\ TakenMode(w)
      BY <1>2, <1>4, <2>2 DEF OwnStep, TakenMode
    <2>5. WriterOK(w)' /\ LeavesPlaced(w)
      BY <1>0, <1>1, <1>2, <1>4, <2>1, <2>2 DEF WriterOK, LeavesPlaced, Placed, OnLinux
    <2>6. LeavesTemp(w) /\ LeavesTarget(w)
      BY <1>1, <2>2 DEF HoldsTemp, LeavesTemp, LeavesTarget, Active
    <2> QED
      BY <1>2, <2>2, <2>4, <2>5, <2>6, SameFolderStep
  <1> QED
    BY <1>3, <1>4 DEF Renamed

LEMMA SetFileModeKeeps ==
  ASSUME WriteInv, platform' = platform, NEW w \in Writers, SetFileMode(w)
  PROVE  WriteInv'
  <1>0. WriteTypeOK /\ WriterOK(w) /\ ModeOK(w) /\ FileSize \in Nat \ {0} /\ w \in Files
    BY WriteAssumption DEF WriteInv, ProgressInv, ModeInv, Files
  <1>1. wr[w].pc = "chmod" /\ wr[w].temp \in TempNames /\ ~wr[w].failed /\ OnLinux
    BY <1>0 DEF SetFileMode, WriterAt, WriterOK, WriteTypeOK, Platforms, OnLinux, OnWindows
  <1>2. /\ fsJournal' = fsJournal /\ rd' = rd /\ crashed' = crashed
        /\ keepsTemp' = keepsTemp /\ chmodSince' = chmodSince
    BY DEF SetFileMode
  <1>3. ASSUME Go(w, "write"), fsFile' = [fsFile EXCEPT ![w].mode = GetFileMode(wr[w].target)]
        PROVE  WriteInv'
    <2>1. GetFileMode(wr[w].target) = CurrentMode
      BY <1>1, ModeAsked DEF Active
    <2>2. CurrentMode \in {"private", "shared"}
      BY <1>0 DEF CurrentMode, WriteTypeOK, FileStates
    <2>3. /\ wr' \in [Writers -> LocalStates] /\ \A v \in Writers \ {w} : wr'[v] = wr[v]
          /\ wr'[w].pc = "write" /\ wr'[w].target = wr[w].target /\ wr'[w].temp = wr[w].temp
          /\ wr'[w].failed = wr[w].failed
      BY <1>0, <1>3, GoLocals DEF WriterPcs
    <2>4. /\ fsFile' \in [Files -> FileStates] /\ \A f \in Files \ {w} : fsFile'[f] = fsFile[f]
          /\ fsFile'[w].len = fsFile[w].len /\ fsFile'[w].disk = fsFile[w].disk
          /\ fsFile'[w].mode = CurrentMode
      BY <1>0, <1>3, <2>1, <2>2, FileChanges
    <2>5. OwnStep(w) /\ LeavesPlaced(w) /\ TakenMode(w)
      BY <1>1, <1>2, <2>3, <2>4 DEF OwnStep, LeavesPlaced, Placed, TakenMode
    <2>6. WriterOK(w)'
      BY <1>0, <1>1, <2>3, <2>4 DEF WriterOK, OnLinux, OnWindows
    <2>7. LeavesTemp(w) /\ LeavesTarget(w)
      BY <1>1, <2>3 DEF HoldsTemp, LeavesTemp, LeavesTarget, Active
    <2> QED
      BY <1>2, <2>3, <2>4, <2>5, <2>6, <2>7, SameFolderStep
  <1>4. ASSUME Fail(w, "close"), UNCHANGED fsFile
        PROVE  WriteInv'
    BY <1>1, <1>2, <1>4, ErrorKeeps
  <1> QED
    BY <1>3, <1>4 DEF SetFileMode

LEMMA ResolveLinkKeeps ==
  ASSUME WriteInv, platform' = platform, NEW w \in Writers, ResolveLink(w)
  PROVE  WriteInv'
  <1>0. WriteTypeOK /\ WriterOK(w) /\ ModeOK(w) /\ FileSize \in Nat \ {0} /\ w \in Files
    BY WriteAssumption DEF WriteInv, ProgressInv, ModeInv, Files
  <1>1. wr[w].pc = "idle" /\ ~wr[w].failed /\ Resolved(Dir) \in {Path, Real}
    BY <1>0 DEF ResolveLink, WriterAt, WriterOK, Resolved
  <1>2. /\ fsJournal' = fsJournal /\ rd' = rd /\ crashed' = crashed
        /\ keepsTemp' = keepsTemp /\ chmodSince' = chmodSince
        /\ fsFile' = fsFile
    BY DEF ResolveLink
  <1>3. /\ wr' \in [Writers -> LocalStates] /\ \A v \in Writers \ {w} : wr'[v] = wr[v]
        /\ wr'[w].pc = "create" /\ wr'[w].target = Resolved(Dir) /\ wr'[w].temp = wr[w].temp
        /\ wr'[w].failed = wr[w].failed
    <2>1. PICK r : r = [wr[w] EXCEPT !.pc = "create", !.target = Resolved(Dir)]
      OBVIOUS
    <2>2. wr \in [Writers -> LocalStates] /\ wr[w] \in LocalStates
      BY <1>0 DEF WriteTypeOK
    <2>3. wr' = [wr EXCEPT ![w] = r]
      BY <2>1, <2>2 DEF ResolveLink
    <2>4. /\ r \in LocalStates /\ r.pc = "create" /\ r.target = Resolved(Dir)
          /\ r.temp = wr[w].temp /\ r.failed = wr[w].failed
      BY <1>1, <2>1, <2>2 DEF LocalStates, WriterPcs
    <2> QED
      BY <2>2, <2>3, <2>4
  <1>4. WriteTypeOK'
    BY <1>0, <1>2, <1>3 DEF WriteTypeOK
  <1>5. OwnStep(w) /\ LeavesPlaced(w) /\ TakenMode(w) /\ LeavesTemp(w)
    BY <1>1, <1>2, <1>3 DEF OwnStep, LeavesPlaced, Placed, TakenMode, LeavesTemp, HoldsTemp
  <1>6. WriterOK(w)'
    BY <1>0, <1>1, <1>2, <1>3 DEF WriterOK
  <1>7. /\ Linked => Resolved(Dir) = Real
        /\ Unlinked => Resolved(Dir) = Path
    <2>1. Len(fsJournal) \in DOMAIN fsJournal /\ Dir = fsJournal[Len(fsJournal)]
      BY <1>0, JournalLast
    <2> QED
      BY <2>1, WriteAssumption DEF Linked, Unlinked, Resolved, Files
  <1>8. /\ \A i \in DOMAIN fsJournal' : \E j \in DOMAIN fsJournal :
               \A n \in {Path, Real} : fsJournal'[i][n] = fsJournal[j][n]
        /\ \A n \in {Path, Real} : Dir'[n] = Dir[n]
    BY <1>2 DEF Dir
  <1>9. ProgressInv' /\ PlacedInv' /\ LinkInv' /\ ReaderInv' /\ ModeInv'
    BY <1>3, <1>4, <1>5, <1>6, <1>7, <1>8, WriterStep
  <1>10. TempInv'
    BY <1>2, <1>5, TempStep
  <1> QED
    BY <1>4, <1>9, <1>10 DEF WriteInv

(* A new state of the folder in which the path leads where it led.          *)
LEMMA EnteredBeside ==
  ASSUME WriteTypeOK, NEW name \in TempNames, NEW f \in Writers \cup {NoFile},
         Enter([Dir EXCEPT ![name] = f])
  PROVE  /\ fsJournal' \in Seq(FolderStates) /\ fsJournal' # <<>>
         /\ \A i \in DOMAIN fsJournal' : \E j \in DOMAIN fsJournal :
               \A n \in {Path, Real} : fsJournal'[i][n] = fsJournal[j][n]
         /\ \A n \in {Path, Real} : Dir'[n] = Dir[n]
         /\ Dir'[name] = f
         /\ \A n \in TempNames \ {name} : Dir'[n] = Dir[n]
         /\ \A i \in DOMAIN fsJournal : i \in DOMAIN fsJournal' /\ fsJournal'[i] = fsJournal[i]
  <1> PICK e : e = [Dir EXCEPT ![name] = f]
    OBVIOUS
  <1>1. Dir \in FolderStates /\ Len(fsJournal) \in DOMAIN fsJournal /\ Dir = fsJournal[Len(fsJournal)]
    BY JournalLast
  <1>2. /\ e \in FolderStates /\ e[name] = f /\ \A n \in EntryNames \ {name} : e[n] = Dir[n]
    BY <1>1 DEF FolderStates, EntryNames, Files
  <1>3. name \notin {Path, Real}
    BY WriteAssumption DEF Path, Real
  <1>4. fsJournal' = Append(fsJournal, e)
    BY DEF Enter
  <1>5. /\ fsJournal' \in Seq(FolderStates) /\ fsJournal' # <<>>
        /\ Last(fsJournal') = e
        /\ DOMAIN fsJournal' = DOMAIN fsJournal \cup {Len(fsJournal) + 1}
        /\ fsJournal'[Len(fsJournal) + 1] = e
        /\ \A i \in DOMAIN fsJournal : fsJournal'[i] = fsJournal[i]
    BY <1>2, <1>4, JournalGrows
  <1>6. Dir' = e
    BY <1>5 DEF Dir
  <1>7. \A n \in {Path, Real} : e[n] = Dir[n]
    BY <1>2, <1>3 DEF EntryNames
  <1>8. \A n \in TempNames \ {name} : e[n] = Dir[n]
    BY <1>2 DEF EntryNames
  <1>9. \A i \in DOMAIN fsJournal' : \E j \in DOMAIN fsJournal :
            \A n \in {Path, Real} : fsJournal'[i][n] = fsJournal[j][n]
    <2> TAKE i \in DOMAIN fsJournal'
    <2>1. CASE i \in DOMAIN fsJournal
      BY <1>5, <2>1
    <2>2. CASE i = Len(fsJournal) + 1
      BY <1>1, <1>5, <1>7, <2>2
    <2> QED
      BY <1>5, <2>1, <2>2
  <1> QED
    BY <1>2, <1>5, <1>6, <1>7, <1>8, <1>9

LEMMA CreateKeeps ==
  ASSUME WriteInv, platform' = platform, NEW w \in Writers, CreateTemporaryFile(w)
  PROVE  WriteInv'
  <1>0. WriteTypeOK /\ WriterOK(w) /\ ModeOK(w) /\ FileSize \in Nat \ {0} /\ w \in Files
    BY WriteAssumption DEF WriteInv, ProgressInv, ModeInv, Files
  <1>1. wr[w].pc = "create" /\ ~wr[w].failed /\ wr[w] \in LocalStates /\ Active(w)
    BY <1>0 DEF CreateTemporaryFile, WriterAt, WriterOK, WriteTypeOK, Active
  <1>2. /\ rd' = rd /\ crashed' = crashed /\ keepsTemp' = keepsTemp /\ chmodSince' = chmodSince
    BY DEF CreateTemporaryFile
  <1>3. ASSUME NEW name \in TempNames, Dir[name] = NoFile, Enter([Dir EXCEPT ![name] = w]),
               fsFile' = [fsFile EXCEPT ![w].mode = IF OnLinux THEN "private" ELSE "shared"],
               wr' = [wr EXCEPT ![w].pc = IF OnLinux THEN "chmod" ELSE "write", ![w].temp = name]
        PROVE  WriteInv'
    <2> PICK upTo \in {"chmod", "write"} : upTo = IF OnLinux THEN "chmod" ELSE "write"
      OBVIOUS
    <2>1. /\ fsJournal' \in Seq(FolderStates) /\ fsJournal' # <<>>
          /\ \A i \in DOMAIN fsJournal' : \E j \in DOMAIN fsJournal :
                \A n \in {Path, Real} : fsJournal'[i][n] = fsJournal[j][n]
          /\ \A n \in {Path, Real} : Dir'[n] = Dir[n]
          /\ Dir'[name] = w
          /\ \A n \in TempNames \ {name} : Dir'[n] = Dir[n]
      BY <1>0, <1>3, EnteredBeside
    <2>2. /\ wr' \in [Writers -> LocalStates] /\ \A v \in Writers \ {w} : wr'[v] = wr[v]
          /\ wr'[w].pc = upTo /\ wr'[w].target = wr[w].target /\ wr'[w].temp = name
          /\ wr'[w].failed = wr[w].failed
      <3>1. wr' = [wr EXCEPT ![w].pc = upTo, ![w].temp = name]
        BY <1>3
      <3> PICK r : r = [wr[w] EXCEPT !.pc = upTo, !.temp = name]
        OBVIOUS
      <3>2. /\ r \in LocalStates /\ r.pc = upTo /\ r.target = wr[w].target /\ r.temp = name
            /\ r.failed = wr[w].failed
        BY <1>1 DEF LocalStates, WriterPcs
      <3>3. wr' = [wr EXCEPT ![w] = r] /\ wr \in [Writers -> LocalStates]
        BY <1>0, <3>1 DEF WriteTypeOK
      <3> QED
        BY <3>2, <3>3
    <2>3. /\ fsFile' \in [Files -> FileStates] /\ \A f \in Files \ {w} : fsFile'[f] = fsFile[f]
          /\ fsFile'[w].len = fsFile[w].len /\ fsFile'[w].disk = fsFile[w].disk
      BY <1>0, <1>3, FileChanges
    <2>4. WriteTypeOK'
      BY <1>0, <1>2, <2>1, <2>2, <2>3 DEF WriteTypeOK
    <2>5. OwnStep(w) /\ LeavesPlaced(w) /\ TakenMode(w)
      BY <1>1, <1>2, <2>2, <2>3 DEF OwnStep, LeavesPlaced, Placed, TakenMode
    <2>6. WriterOK(w)'
      BY <1>0, <1>1, <2>2, <2>3 DEF WriterOK, OnLinux, OnWindows
    <2>7. Active(w)' => /\ Linked => wr'[w].target = Real
                        /\ Unlinked => wr'[w].target = Path
      BY <1>1, <2>2 DEF Linked, Unlinked
    <2>8. ProgressInv' /\ PlacedInv' /\ LinkInv' /\ ReaderInv' /\ ModeInv'
      BY <2>1, <2>4, <2>5, <2>6, <2>7, WriterStep
    <2>9. TempInv'
      <3>1. HoldsTemp(w, name)'
        BY <2>2 DEF HoldsTemp
      <3>2. \A v \in Writers, n \in TempNames : HoldsTemp(v, n) => HoldsTemp(v, n)'
        BY <1>1, <2>2 DEF HoldsTemp, OnLinux
      <3> QED
        BY <1>2, <2>1, <3>1, <3>2 DEF WriteInv, TempInv
    <2> QED
      BY <2>4, <2>8, <2>9 DEF WriteInv
  <1>4. ASSUME wr' = [wr EXCEPT ![w].tries = @ + 1], UNCHANGED <<fsJournal, fsFile>>
        PROVE  WriteInv'
    <2>1. /\ wr' \in [Writers -> LocalStates] /\ \A v \in Writers \ {w} : wr'[v] = wr[v]
          /\ wr'[w].pc = "create" /\ wr'[w].target = wr[w].target /\ wr'[w].temp = wr[w].temp
          /\ wr'[w].failed = wr[w].failed
      <3> PICK r : r = [wr[w] EXCEPT !.tries = wr[w].tries + 1]
        OBVIOUS
      <3>1. wr[w].tries \in Nat /\ wr[w].tries + 1 \in Nat
        BY <1>1 DEF LocalStates
      <3>2. /\ r \in LocalStates /\ r.pc = "create" /\ r.target = wr[w].target
            /\ r.temp = wr[w].temp /\ r.failed = wr[w].failed
        BY <1>1, <3>1 DEF LocalStates
      <3>3. wr' = [wr EXCEPT ![w] = r] /\ wr \in [Writers -> LocalStates]
        BY <1>0, <1>4 DEF WriteTypeOK
      <3> QED
        BY <3>2, <3>3
    <2>2. OwnStep(w) /\ LeavesPlaced(w) /\ TakenMode(w)
      BY <1>1, <1>2, <1>4, <2>1 DEF OwnStep, LeavesPlaced, Placed, TakenMode
    <2>3. WriterOK(w)' /\ LeavesTemp(w) /\ LeavesTarget(w)
      BY <1>0, <1>1, <1>4, <2>1 DEF WriterOK, LeavesTemp, LeavesTarget, HoldsTemp
    <2> QED
      BY <1>0, <1>2, <1>4, <2>1, <2>2, <2>3, SameFolderStep DEF WriteTypeOK
  <1>5. ASSUME Return(w, "failed"), UNCHANGED <<fsJournal, fsFile>>
        PROVE  WriteInv'
    <2>1. /\ wr' \in [Writers -> LocalStates] /\ \A v \in Writers \ {w} : wr'[v] = wr[v]
          /\ wr'[w].pc = "failed" /\ wr'[w].target = None /\ wr'[w].temp = None /\ ~wr'[w].failed
      BY <1>0, <1>5, ReturnLocals DEF WriterPcs
    <2>2. OwnStep(w) /\ LeavesPlaced(w) /\ TakenMode(w)
      BY <1>1, <1>2, <1>5, <2>1 DEF OwnStep, LeavesPlaced, Placed, TakenMode
    <2>3. WriterOK(w)' /\ LeavesTemp(w) /\ LeavesTarget(w)
      BY <1>0, <1>1, <1>5, <2>1 DEF WriterOK, LeavesTemp, LeavesTarget, HoldsTemp, Active
    <2> QED
      BY <1>0, <1>2, <1>5, <2>1, <2>2, <2>3, SameFolderStep DEF WriteTypeOK
  <1> QED
    BY <1>3, <1>4, <1>5 DEF CreateTemporaryFile

LEMMA RemoveKeeps ==
  ASSUME WriteInv, platform' = platform, NEW w \in Writers, RemoveTemporary(w)
  PROVE  WriteInv'
  <1>0. WriteTypeOK /\ WriterOK(w) /\ ModeOK(w) /\ FileSize \in Nat \ {0} /\ w \in Files
    BY WriteAssumption DEF WriteInv, ProgressInv, ModeInv, Files
  <1>1. /\ wr[w].pc = "remove" /\ wr[w].failed /\ wr[w].temp \in TempNames /\ wr[w] \in LocalStates
        /\ Active(w)
    BY <1>0 DEF RemoveTemporary, WriterAt, WriterOK, WriteTypeOK, Active
  <1>2. /\ rd' = rd /\ crashed' = crashed /\ chmodSince' = chmodSince
    BY DEF RemoveTemporary
  <1>3. /\ wr' \in [Writers -> LocalStates] /\ \A v \in Writers \ {w} : wr'[v] = wr[v]
        /\ \/ wr'[w].pc = "failed" /\ ~wr'[w].failed
           \/ wr'[w].pc = "close" /\ wr'[w].failed /\ OnWindows' /\ wr'[w].temp \in TempNames
        /\ LeavesTarget(w)
    <2>1. CASE OnLinux
      <3>1. Return(w, "failed")
        BY <2>1 DEF RemoveTemporary
      <3> QED
        BY <1>0, <3>1, ReturnLocals DEF WriterPcs, LeavesTarget, Active
    <2>2. CASE ~OnLinux
      <3>1. Go(w, "close") /\ OnWindows'
        BY <1>0, <2>2 DEF RemoveTemporary, WriteTypeOK, Platforms, OnLinux, OnWindows
      <3> QED
        BY <1>0, <1>1, <3>1, GoLocals DEF WriterPcs, LeavesTarget
    <2> QED
      BY <2>1, <2>2
  <1>4. TakenMode(w) /\ LeavesPlaced(w)
    BY <1>1, <1>3 DEF TakenMode, LeavesPlaced, Placed, OnLinux, OnWindows
  <1>5. Active(w)' => /\ Linked => wr'[w].target = Real
                      /\ Unlinked => wr'[w].target = Path
    BY <1>3 DEF Linked, Unlinked, LeavesTarget
  <1>6. \A v \in Writers \ {w} : \A n \in TempNames : HoldsTemp(v, n) => HoldsTemp(v, n)'
    BY <1>3 DEF HoldsTemp, OnLinux
  <1>7. \A n \in TempNames : HoldsTemp(w, n) => n = wr[w].temp
    BY DEF HoldsTemp
  <1>8. ASSUME Enter([Dir EXCEPT ![wr[w].temp] = NoFile]), fsFile' = [fsFile EXCEPT ![w] = NewFile],
               keepsTemp' = keepsTemp
        PROVE  WriteInv'
    <2>1. /\ fsJournal' \in Seq(FolderStates) /\ fsJournal' # <<>>
          /\ \A i \in DOMAIN fsJournal' : \E j \in DOMAIN fsJournal :
                \A n \in {Path, Real} : fsJournal'[i][n] = fsJournal[j][n]
          /\ \A n \in {Path, Real} : Dir'[n] = Dir[n]
          /\ Dir'[wr[w].temp] = NoFile
          /\ \A n \in TempNames \ {wr[w].temp} : Dir'[n] = Dir[n]
      BY <1>0, <1>1, <1>8, EnteredBeside
    <2>2. NewFile \in FileStates /\ NewFile.len = 0 /\ NewFile.disk = 0
      BY <1>0 DEF NewFile, FileStates
    <2>3. /\ fsFile' \in [Files -> FileStates] /\ \A f \in Files \ {w} : fsFile'[f] = fsFile[f]
          /\ fsFile'[w] = NewFile
      BY <1>0, <1>8, <2>2 DEF WriteTypeOK
    <2>4. WriteTypeOK'
      BY <1>0, <1>2, <1>3, <1>8, <2>1, <2>3 DEF WriteTypeOK
    <2>5. OwnStep(w) /\ WriterOK(w)'
      BY <1>2, <1>3, <2>2, <2>3 DEF OwnStep, WriterOK, OnLinux, OnWindows
    <2>6. ProgressInv' /\ PlacedInv' /\ LinkInv' /\ ReaderInv' /\ ModeInv'
      BY <1>4, <1>5, <2>1, <2>4, <2>5, WriterStep
    <2>7. TempInv'
      BY <1>2, <1>6, <1>7, <1>8, <2>1 DEF WriteInv, TempInv
    <2> QED
      BY <2>4, <2>6, <2>7 DEF WriteInv
  <1>9. ASSUME keepsTemp' = keepsTemp \cup {w}, UNCHANGED <<fsJournal, fsFile>>
        PROVE  WriteInv'
    <2>1. WriteTypeOK'
      BY <1>0, <1>2, <1>3, <1>9 DEF WriteTypeOK
    <2>2. OwnStep(w) /\ WriterOK(w)'
      BY <1>0, <1>2, <1>3, <1>9 DEF OwnStep, WriterOK, OnLinux, OnWindows
    <2>3. /\ \A i \in DOMAIN fsJournal' : \E j \in DOMAIN fsJournal :
                \A n \in {Path, Real} : fsJournal'[i][n] = fsJournal[j][n]
          /\ Dir' = Dir
      BY <1>9 DEF Dir
    <2>4. ProgressInv' /\ PlacedInv' /\ LinkInv' /\ ReaderInv' /\ ModeInv'
      BY <1>4, <1>5, <2>1, <2>2, <2>3, WriterStep
    <2>5. TempInv'
      BY <1>2, <1>6, <1>9, <2>3 DEF WriteInv, TempInv
    <2> QED
      BY <2>1, <2>4, <2>5 DEF WriteInv
  <1> QED
    BY <1>8, <1>9 DEF RemoveTemporary

(* The rename: what the path leads to becomes the writer's file.           *)
LEMMA RenameFacts ==
  ASSUME WriteInv, platform' = platform, NEW w \in Writers, WriterAt(w, "rename"),
         Enter([Dir EXCEPT ![wr[w].target] = w, ![wr[w].temp] = NoFile])
  PROVE  /\ wr[w].temp \in TempNames /\ wr[w].target \in {Path, Real}
         /\ Dir'[wr[w].target] = w /\ Dir'[wr[w].temp] = NoFile
         /\ \A n \in EntryNames : n # wr[w].target /\ n # wr[w].temp => Dir'[n] = Dir[n]
         /\ fsJournal' \in Seq(FolderStates) /\ fsJournal' # <<>>
         /\ DOMAIN fsJournal' = DOMAIN fsJournal \cup {Len(fsJournal) + 1}
         /\ fsJournal'[Len(fsJournal) + 1] = Dir'
         /\ \A i \in DOMAIN fsJournal : fsJournal'[i] = fsJournal[i]
         /\ Content(Dir)' = w
         /\ Linked => wr[w].target = Real
         /\ Unlinked => wr[w].target = Path
  <1>0. WriteTypeOK /\ WriterOK(w) /\ w \in Files
    BY DEF WriteInv, ProgressInv, Files
  <1>1. /\ wr[w].temp \in TempNames
        /\ Linked => wr[w].target = Real
        /\ Unlinked => wr[w].target = Path
    BY <1>0 DEF WriterAt, WriterOK, Linked, Unlinked, Active
  <1>2. wr[w].target \in {Path, Real} /\ wr[w].temp \notin {Path, Real} /\ Path # Real
    BY <1>1, WriteAssumption DEF WriteInv, LinkInv, Path, Real
  <1> PICK target \in {Path, Real}, temp \in TempNames : target = wr[w].target /\ temp = wr[w].temp
    BY <1>1, <1>2
  <1> PICK e : e = [Dir EXCEPT ![target] = w, ![temp] = NoFile]
    OBVIOUS
  <1>3. Dir \in FolderStates /\ Len(fsJournal) \in DOMAIN fsJournal /\ Dir = fsJournal[Len(fsJournal)]
    BY <1>0, JournalLast
  <1>4. /\ e \in FolderStates /\ e[target] = w /\ e[temp] = NoFile
        /\ \A n \in EntryNames : n # target /\ n # temp => e[n] = Dir[n]
    <2>1. target \in EntryNames /\ temp \in EntryNames /\ target # temp
      BY <1>2 DEF EntryNames
    <2> QED
      BY <1>0, <1>3, <2>1 DEF FolderStates
  <1>5. fsJournal' = Append(fsJournal, e)
    BY DEF Enter
  <1>6. /\ fsJournal' \in Seq(FolderStates) /\ fsJournal' # <<>>
        /\ Last(fsJournal') = e
        /\ DOMAIN fsJournal' = DOMAIN fsJournal \cup {Len(fsJournal) + 1}
        /\ fsJournal'[Len(fsJournal) + 1] = e
        /\ \A i \in DOMAIN fsJournal : fsJournal'[i] = fsJournal[i]
    BY <1>0, <1>4, <1>5, JournalGrows
  <1>7. Dir' = e
    BY <1>6 DEF Dir
  <1>8. Content(e) = w
    <2>1. CASE Linked
      <3>1. e[Real] = w /\ e[Path] = SymLink
        BY <1>1, <1>2, <1>3, <1>4, <2>1 DEF Linked, EntryNames
      <3> QED
        BY <3>1 DEF Content, Followed
    <2>2. CASE Unlinked
      <3>1. e[Path] = w /\ w # SymLink
        BY <1>0, <1>1, <1>4, <2>2, WriteAssumption DEF Files
      <3> QED
        BY <3>1 DEF Content, Followed
    <2> QED
      BY <2>1, <2>2 DEF WriteInv, LinkInv
  <1>9. Content(Dir)' = w
    BY <1>7, <1>8 DEF Content, Followed
  <1> QED
    BY <1>1, <1>4, <1>6, <1>7, <1>9

LEMMA RenameKeeps ==
  ASSUME WriteInv, platform' = platform, NEW w \in Writers, RenameOver(w)
  PROVE  WriteInv'
  <1>0. WriteTypeOK /\ WriterOK(w) /\ ModeOK(w) /\ FileSize \in Nat \ {0} /\ w \in Files
    BY WriteAssumption DEF WriteInv, ProgressInv, ModeInv, Files
  <1>1. /\ wr[w].pc = "rename" /\ ~wr[w].failed /\ fsFile[w].len = FileSize
        /\ fsFile[w].disk = FileSize /\ Active(w)
    BY <1>0 DEF RenameOver, WriterAt, WriterOK, Active
  <1>2. rd' = rd /\ crashed' = crashed /\ keepsTemp' = keepsTemp /\ fsFile' = fsFile
    BY DEF RenameOver
  <1>3. ASSUME Enter([Dir EXCEPT ![wr[w].target] = w, ![wr[w].temp] = NoFile]), Go(w, "renamed"),
               chmodSince' = IF w \in chmodSince THEN ModeTaken ELSE chmodSince
        PROVE  WriteInv'
    <2>1. /\ wr[w].temp \in TempNames /\ wr[w].target \in {Path, Real}
          /\ Dir'[wr[w].target] = w /\ Dir'[wr[w].temp] = NoFile
          /\ \A n \in EntryNames : n # wr[w].target /\ n # wr[w].temp => Dir'[n] = Dir[n]
          /\ fsJournal' \in Seq(FolderStates) /\ fsJournal' # <<>>
          /\ DOMAIN fsJournal' = DOMAIN fsJournal \cup {Len(fsJournal) + 1}
          /\ fsJournal'[Len(fsJournal) + 1] = Dir'
          /\ \A i \in DOMAIN fsJournal : fsJournal'[i] = fsJournal[i]
          /\ Content(Dir)' = w
          /\ Linked => wr[w].target = Real
          /\ Unlinked => wr[w].target = Path
      BY <1>1, <1>3, RenameFacts DEF WriterAt
    <2>2. /\ wr' \in [Writers -> LocalStates] /\ \A v \in Writers \ {w} : wr'[v] = wr[v]
          /\ wr'[w].pc = "renamed" /\ wr'[w].target = wr[w].target /\ wr'[w].temp = wr[w].temp
          /\ wr'[w].failed = wr[w].failed
      BY <1>0, <1>3, GoLocals DEF WriterPcs
    <2>3. WriteTypeOK'
      <3>1. chmodSince' \subseteq Writers
        BY <1>0, <1>3 DEF WriteTypeOK, ModeTaken
      <3> QED
        BY <1>0, <1>2, <2>1, <2>2, <3>1 DEF WriteTypeOK
    <2>4. ProgressInv'
      <3>1. \A v \in Writers \ {w} : WriterOK(v)'
        BY <1>2, <2>2 DEF WriteInv, ProgressInv, WriterOK, OnLinux, OnWindows
      <3>2. WriterOK(w)'
        BY <1>0, <1>1, <1>2, <2>1, <2>2 DEF WriterOK
      <3> QED
        BY <3>1, <3>2 DEF ProgressInv
    <2>5. Placed(w)' /\ \A f \in Files : Placed(f) => Placed(f)'
      BY <1>1, <1>2, <2>2 DEF Placed, OnWindows
    <2>6. \A n \in {Path, Real} : n # wr[w].target => Dir'[n] = Dir[n]
      <3>1. wr[w].temp \notin {Path, Real}
        BY <2>1, WriteAssumption DEF Path, Real
      <3> QED
        BY <2>1, <3>1 DEF EntryNames
    <2>7. Len(fsJournal) \in DOMAIN fsJournal /\ Dir = fsJournal[Len(fsJournal)]
      BY <1>0, JournalLast
    <2>8. PlacedInv'
      <3>1. \A n \in {Path, Real}, f \in Files : Dir'[n] = f => Placed(f)'
        <4> TAKE n \in {Path, Real}, f \in Files
        <4> HAVE Dir'[n] = f
        <4>1. CASE n = wr[w].target
          BY <4>1, <2>1, <2>5
        <4>2. CASE n # wr[w].target
          BY <4>2, <2>5, <2>6, <2>7 DEF WriteInv, PlacedInv
        <4> QED
          BY <4>1, <4>2
      <3>2. \A i \in DOMAIN fsJournal : \A n \in {Path, Real}, f \in Files :
               fsJournal[i][n] = f => Placed(f)'
        BY <2>5 DEF WriteInv, PlacedInv
      <3>3. \A i \in DOMAIN fsJournal' : \A n \in {Path, Real}, f \in Files :
               fsJournal'[i][n] = f => Placed(f)'
        BY <2>1, <3>1, <3>2
      <3> QED
        BY <3>3 DEF PlacedInv, Placed
    <2>9. LinkInv'
      <3>1. Path # Real
        BY DEF Path, Real
      <3>2. \A v \in Writers : Active(v)' => Active(v) /\ wr'[v].target = wr[v].target
        BY <1>1, <2>2 DEF Active
      <3>3. CASE Linked
        <4>1. Dir'[Path] = SymLink /\ Dir'[Real] \in Files
          BY <1>0, <2>1, <2>6, <2>7, <3>1, <3>3 DEF Linked
        <4> QED
          BY <2>1, <3>2, <3>3, <4>1 DEF Linked, LinkInv
      <3>4. CASE Unlinked
        <4>1. Dir'[Real] = NoFile
          BY <2>1, <2>6, <2>7, <3>1, <3>4 DEF Unlinked
        <4> QED
          BY <2>1, <3>2, <3>4, <4>1 DEF Unlinked, LinkInv
      <3> QED
        BY <3>3, <3>4 DEF WriteInv, LinkInv
    <2>10. ReaderInv'
      BY <1>2, <2>5 DEF WriteInv, ReaderInv
    <2>11. ModeInv'
      <3>1. CurrentMode' = fsFile[w].mode
        BY <1>0, <1>2, <2>1 DEF CurrentMode
      <3>2. CASE w \in chmodSince
        <4>1. \A v \in Writers : wr'[v].pc \in {"write", "sync", "close", "rename"} => v \in chmodSince'
          BY <1>3, <2>2, <3>2 DEF ModeTaken, Active
        <4> QED
          BY <4>1 DEF ModeInv, ModeOK
      <3>3. CASE w \notin chmodSince
        <4>1. OnLinux => CurrentMode' = CurrentMode
          BY <1>0, <1>1, <3>1, <3>3 DEF ModeOK
        <4>2. \A v \in Writers \ {w} : ModeOK(v)'
          BY <1>2, <1>3, <2>2, <3>3, <4>1 DEF WriteInv, ModeInv, ModeOK, OnLinux
        <4>3. ModeOK(w)'
          BY <2>2 DEF ModeOK
        <4> QED
          BY <4>2, <4>3 DEF ModeInv
      <3> QED
        BY <3>2, <3>3
    <2>12. TempInv'
      <3>1. \A n \in TempNames : n # wr[w].temp => Dir'[n] = Dir[n] /\ ~HoldsTemp(w, n)
        <4>1. \A n \in TempNames : n \notin {Path, Real}
          BY WriteAssumption DEF Path, Real
        <4> QED
          BY <2>1, <4>1 DEF EntryNames, HoldsTemp
      <3>2. \A v \in Writers \ {w} : \A n \in TempNames : HoldsTemp(v, n) => HoldsTemp(v, n)'
        BY <2>2 DEF HoldsTemp, OnLinux
      <3> QED
        BY <1>2, <2>1, <3>1, <3>2 DEF WriteInv, TempInv
    <2> QED
      BY <2>3, <2>4, <2>8, <2>9, <2>10, <2>11, <2>12 DEF WriteInv
  <1>4. ASSUME Fail(w, "remove"), UNCHANGED <<fsJournal, chmodSince>>
        PROVE  WriteInv'
    BY <1>1, <1>2, <1>4, ErrorKeeps
  <1> QED
    BY <1>3, <1>4 DEF RenameOver

(* A step that changes neither the folder nor the writers nor their files. *)
LEMMA ReaderStep ==
  ASSUME WriteInv, platform' = platform, ReaderInv',
         rd' \in [pc : {"idle", "read", "done", "failed"}, file : {None} \cup Files,
                  size : 0 .. FileSize, numRead : 0 .. FileSize],
         UNCHANGED <<fsJournal, fsFile, wr, crashed, keepsTemp, chmodSince>>
  PROVE  WriteInv'
  <1>1. WriteTypeOK'
    BY DEF WriteInv, WriteTypeOK
  <1>2. ProgressInv' /\ PlacedInv'
    BY DEF WriteInv, ProgressInv, WriterOK, PlacedInv, Placed, OnLinux, OnWindows
  <1>3. LinkInv'
    BY DEF WriteInv, LinkInv, Linked, Unlinked, Active
  <1>4. ModeInv' /\ TempInv'
    BY DEF WriteInv, ModeInv, ModeOK, CurrentMode, Content, Followed, Dir, TempInv, HoldsTemp, OnLinux
  <1> QED
    BY <1>1, <1>2, <1>3, <1>4 DEF WriteInv

LEMMA OpenKeeps ==
  ASSUME WriteInv, platform' = platform, OpenToRead
  PROVE  WriteInv'
  <1>0. WriteTypeOK /\ FileSize \in Nat \ {0} /\ rd.numRead \in 0 .. FileSize
    BY WriteAssumption DEF WriteInv, WriteTypeOK
  <1>1. UNCHANGED <<fsJournal, fsFile, wr, crashed, keepsTemp, chmodSince>>
    BY DEF OpenToRead
  <1>2. CASE ReadEnds("failed")
    <2>1. /\ rd' \in [pc : {"idle", "read", "done", "failed"}, file : {None} \cup Files,
                       size : 0 .. FileSize, numRead : 0 .. FileSize]
          /\ rd'.pc = "failed"
      BY <1>0, <1>2 DEF ReadEnds
    <2>2. ReaderInv'
      BY <2>1 DEF ReaderInv
    <2> QED
      BY <1>1, <2>1, <2>2, ReaderStep
  <1>3. CASE ~ReadEnds("failed")
    <2>1. Content(Dir) \in Files
      BY <1>3 DEF OpenToRead
    <2> PICK c \in Files : c = Content(Dir)
      BY <2>1
    <2>2. Placed(c) /\ fsFile[c].len = FileSize /\ FileSize # 0
      BY <1>0, CurrentIsPlaced DEF WriteInv, Placed
    <2>3. rd' = [pc |-> "read", file |-> c, size |-> FileSize, numRead |-> 0]
      BY <1>3, <2>1, <2>2 DEF OpenToRead
    <2>4. rd' \in [pc : {"idle", "read", "done", "failed"}, file : {None} \cup Files,
                   size : 0 .. FileSize, numRead : 0 .. FileSize]
      BY <1>0, <2>3
    <2>5. Placed(c)'
      BY <1>1, <2>2 DEF Placed, OnWindows
    <2>6. ReaderInv'
      BY <1>0, <2>3, <2>5 DEF ReaderInv, Placed
    <2> QED
      BY <1>1, <2>4, <2>6, ReaderStep
  <1> QED
    BY <1>2, <1>3

LEMMA ReadKeeps ==
  ASSUME WriteInv, platform' = platform, ReadOpenFile
  PROVE  WriteInv'
  <1>0. /\ FileSize \in Nat \ {0} /\ rd.numRead \in 0 .. FileSize
        /\ rd \in [pc : {"idle", "read", "done", "failed"}, file : {None} \cup Files,
                   size : 0 .. FileSize, numRead : 0 .. FileSize]
    BY WriteAssumption DEF WriteInv, WriteTypeOK
  <1>1. /\ UNCHANGED <<fsJournal, fsFile, wr, crashed, keepsTemp, chmodSince>>
        /\ rd.pc = "read"
    BY DEF ReadOpenFile
  <1>2. /\ rd.file \in Files /\ fsFile[rd.file].len = FileSize
        /\ rd.size = FileSize /\ rd.numRead < FileSize
    BY <1>1 DEF WriteInv, ReaderInv, Placed
  <1> PICK c \in Files : c = rd.file
    BY <1>2
  <1>3. Placed(c)'
    BY <1>1 DEF WriteInv, ReaderInv, Placed, OnWindows
  <1>4. CASE ReadEnds("failed")
    <2>1. /\ rd' \in [pc : {"idle", "read", "done", "failed"}, file : {None} \cup Files,
                       size : 0 .. FileSize, numRead : 0 .. FileSize]
          /\ rd'.pc = "failed"
      BY <1>0, <1>4 DEF ReadEnds
    <2>2. ReaderInv'
      BY <2>1 DEF ReaderInv
    <2> QED
      BY <1>1, <2>1, <2>2, ReaderStep
  <1>5. CASE ~ReadEnds("failed")
    <2>1. PICK n \in 1 .. FileSize - rd.numRead :
             rd' = [rd EXCEPT !.numRead = @ + n,
                              !.pc = IF rd.numRead + n = rd.size THEN "done" ELSE "read",
                              !.file = IF rd.numRead + n = rd.size THEN None ELSE @]
      <3>1. FileSize - rd.numRead # 0
        BY <1>0, <1>2
      <3> QED
        BY <1>2, <1>5, <3>1 DEF ReadOpenFile
    <2> PICK m \in 1 .. FileSize : m = rd.numRead + n
      BY <1>0, <2>1
    <2>0. m \in 0 .. FileSize
      BY <1>0
    <2>2. CASE m = FileSize
      <3>1. rd' = [rd EXCEPT !.numRead = m, !.pc = "done", !.file = None]
        BY <1>2, <2>1, <2>2
      <3>2. /\ rd' \in [pc : {"idle", "read", "done", "failed"}, file : {None} \cup Files,
                         size : 0 .. FileSize, numRead : 0 .. FileSize]
            /\ rd'.pc = "done" /\ rd'.numRead = FileSize
        <4>1. rd' = [pc |-> "done", file |-> None, size |-> rd.size, numRead |-> m]
          BY <1>0, <3>1
        <4> QED
          BY <1>0, <2>0, <2>2, <4>1
      <3>3. ReaderInv'
        BY <3>2 DEF ReaderInv
      <3> QED
        BY <1>1, <3>2, <3>3, ReaderStep
    <2>3. CASE m # FileSize
      <3>1. rd' = [rd EXCEPT !.numRead = m, !.pc = "read", !.file = c]
        BY <1>2, <2>1, <2>3
      <3>2. /\ rd' \in [pc : {"idle", "read", "done", "failed"}, file : {None} \cup Files,
                         size : 0 .. FileSize, numRead : 0 .. FileSize]
            /\ rd'.pc = "read" /\ rd'.numRead = m /\ rd'.file = c /\ rd'.size = FileSize
        <4>1. rd' = [pc |-> "read", file |-> c, size |-> rd.size, numRead |-> m]
          BY <1>0, <3>1
        <4> QED
          BY <1>0, <1>2, <2>0, <4>1
      <3>3. m < FileSize
        BY <1>0, <2>3
      <3>4. ReaderInv'
        BY <1>3, <3>2, <3>3 DEF ReaderInv, Placed
      <3> QED
        BY <1>1, <3>2, <3>4, ReaderStep
    <2> QED
      BY <2>2, <2>3
  <1> QED
    BY <1>4, <1>5

LEMMA ChangeModeKeeps ==
  ASSUME WriteInv, platform' = platform, ChangeMode
  PROVE  WriteInv'
  <1>0. WriteTypeOK /\ Content(Dir) \in Files
    BY DEF WriteInv, ChangeMode
  <1> PICK c \in Files : c = Content(Dir)
    BY <1>0
  <1>1. /\ fsFile' \in [Files -> FileStates] /\ \A f \in Files \ {c} : fsFile'[f] = fsFile[f]
        /\ fsFile'[c].len = fsFile[c].len /\ fsFile'[c].disk = fsFile[c].disk
    BY <1>0, FileChanges DEF ChangeMode
  <1>2. UNCHANGED <<fsJournal, wr, rd, crashed, keepsTemp>> /\ chmodSince' = ModeTaken
    BY DEF ChangeMode
  <1>3. \A f \in Files : fsFile'[f].len = fsFile[f].len /\ fsFile'[f].disk = fsFile[f].disk
    BY <1>1
  <1>4. WriteTypeOK'
    BY <1>0, <1>1, <1>2 DEF WriteTypeOK, ModeTaken
  <1>5. ProgressInv'
    BY <1>2, <1>3 DEF WriteInv, ProgressInv, WriterOK, Files, OnLinux, OnWindows
  <1>6. \A f \in Files : Placed(f) => Placed(f)'
    BY <1>2, <1>3 DEF Placed, OnWindows
  <1>7. PlacedInv' /\ ReaderInv'
    BY <1>2, <1>6 DEF WriteInv, PlacedInv, ReaderInv
  <1>8. LinkInv' /\ TempInv'
    BY <1>2 DEF WriteInv, LinkInv, Linked, Unlinked, Active, TempInv, HoldsTemp, Dir, OnLinux
  <1>9. ModeInv'
    BY <1>2 DEF ModeInv, ModeOK, ModeTaken, Active
  <1> QED
    BY <1>4, <1>5, <1>7, <1>8, <1>9 DEF WriteInv

(* After a crash the writers are over, and what a folder on disk names has *)
(* at least the bytes that were on disk.                                   *)
LEMMA CrashFacts ==
  ASSUME WriteInv, platform' = platform, SystemCrash
  PROVE  \E i \in DOMAIN fsJournal :
            /\ fsJournal' = <<fsJournal[i]>> /\ fsJournal[i] \in FolderStates
            /\ fsFile' \in [Files -> FileStates]
            /\ \A f \in Files : fsFile'[f].len = fsFile'[f].disk
            /\ \A n \in {Path, Real}, f \in Files : fsJournal[i][n] = f => Placed(f)'
            /\ wr' \in [Writers -> LocalStates]
            /\ \A w \in Writers :
                  /\ wr'[w].pc = (IF wr[w].pc \in {"done", "failed"} THEN wr[w].pc ELSE "dead")
                  /\ ~wr'[w].failed
  <1>0. WriteTypeOK /\ FileSize \in Nat \ {0}
    BY WriteAssumption DEF WriteInv
  <1>1. PICK i \in DOMAIN fsJournal : \E len \in [Files \cap Range(fsJournal[i]) -> 0 .. FileSize] :
          /\ fsJournal' = << fsJournal[i] >>
          /\ \A f \in DOMAIN len : len[f] \in fsFile[f].disk .. fsFile[f].len
          /\ fsFile' = [f \in Files |-> IF f \in DOMAIN len
                            THEN [fsFile[f] EXCEPT !.len = len[f], !.disk = len[f]] ELSE NewFile]
    BY DEF SystemCrash
  <1> DEFINE Named == Files \cap Range(fsJournal[i])
  <1>2. PICK len \in [Named -> 0 .. FileSize] :
          /\ fsJournal' = << fsJournal[i] >>
          /\ \A f \in DOMAIN len : len[f] \in fsFile[f].disk .. fsFile[f].len
          /\ fsFile' = [f \in Files |-> IF f \in DOMAIN len
                            THEN [fsFile[f] EXCEPT !.len = len[f], !.disk = len[f]] ELSE NewFile]
    BY <1>1
  <1>3. fsJournal[i] \in FolderStates
    BY <1>0, JournalLast
  <1>4. \A n \in {Path, Real} : fsJournal[i][n] \in Range(fsJournal[i])
    BY <1>3 DEF FolderStates, EntryNames, Range
  <1> HIDE DEF Named
  <1>5. \A f \in Files : /\ fsFile'[f] \in FileStates
                         /\ fsFile'[f].len = fsFile'[f].disk
                         /\ f \in Named => fsFile'[f].len = len[f]
    <2> TAKE f \in Files
    <2>1. fsFile[f] \in FileStates
      BY <1>0 DEF WriteTypeOK
    <2>2. CASE f \in Named
      <3> PICK l \in 0 .. FileSize : l = len[f]
        BY <1>2, <2>2
      <3>1. fsFile'[f] = [fsFile[f] EXCEPT !.len = l, !.disk = l]
        BY <1>2, <2>2
      <3> QED
        BY <2>1, <3>1 DEF FileStates
    <2>3. CASE f \notin Named
      <3>1. fsFile'[f] = NewFile
        BY <1>2, <2>3
      <3> QED
        BY <1>0, <2>3, <3>1 DEF FileStates, NewFile
    <2> QED
      BY <2>2, <2>3
  <1>6. fsFile' \in [Files -> FileStates]
    <2>1. fsFile' = [f \in Files |-> fsFile'[f]]
      BY <1>2
    <2> QED
      BY <1>5, <2>1
  <1>7. /\ wr' \in [Writers -> LocalStates]
        /\ \A w \in Writers :
              /\ wr'[w].pc = (IF wr[w].pc \in {"done", "failed"} THEN wr[w].pc ELSE "dead")
              /\ ~wr'[w].failed
    <2>1. wr' = [w \in Writers |-> IF wr[w].pc \in {"done", "failed"} THEN wr[w] ELSE Locals("dead")]
      BY DEF SystemCrash
    <2>2. Locals("dead") \in LocalStates /\ Locals("dead").pc = "dead" /\ ~Locals("dead").failed
      BY DEF Locals, LocalStates, WriterPcs
    <2>3. \A w \in Writers : wr[w] \in LocalStates
      BY <1>0 DEF WriteTypeOK
    <2>4. \A w \in Writers : wr[w].pc \in {"done", "failed"} => ~wr[w].failed
      BY DEF WriteInv, ProgressInv, WriterOK
    <2> QED
      BY <2>1, <2>2, <2>3, <2>4
  <1>8. \A n \in {Path, Real}, f \in Files : fsJournal[i][n] = f => Placed(f)'
    <2> TAKE n \in {Path, Real}, f \in Files
    <2> HAVE fsJournal[i][n] = f
    <2>1. f \in Named
      BY <1>4 DEF Named
    <2>2. Placed(f)
      BY <1>1 DEF WriteInv, PlacedInv
    <2>3. len[f] = FileSize
      <3>1. len[f] \in FileSize .. FileSize
        BY <1>2, <2>1, <2>2 DEF Placed
      <3> QED
        BY <1>0, <3>1
    <2> QED
      BY <1>5, <1>7, <2>1, <2>2, <2>3 DEF Placed
  <1> QED
    BY <1>1, <1>2, <1>3, <1>5, <1>6, <1>7, <1>8

LEMMA CrashKeeps ==
  ASSUME WriteInv, platform' = platform, SystemCrash
  PROVE  WriteInv'
  <1>0. WriteTypeOK /\ FileSize \in Nat \ {0}
    BY WriteAssumption DEF WriteInv
  <1>1. PICK i \in DOMAIN fsJournal :
            /\ fsJournal' = <<fsJournal[i]>> /\ fsJournal[i] \in FolderStates
            /\ fsFile' \in [Files -> FileStates]
            /\ \A f \in Files : fsFile'[f].len = fsFile'[f].disk
            /\ \A n \in {Path, Real}, f \in Files : fsJournal[i][n] = f => Placed(f)'
            /\ wr' \in [Writers -> LocalStates]
            /\ \A w \in Writers :
                  /\ wr'[w].pc = (IF wr[w].pc \in {"done", "failed"} THEN wr[w].pc ELSE "dead")
                  /\ ~wr'[w].failed
    BY CrashFacts
  <1>2. /\ crashed' = TRUE /\ keepsTemp' = keepsTemp /\ chmodSince' = chmodSince
        /\ rd' = IF rd.pc = "read" THEN [rd EXCEPT !.pc = "failed"] ELSE rd
    BY DEF SystemCrash
  <1>3. WriteTypeOK'
    <2>1. rd' \in [pc : {"idle", "read", "done", "failed"}, file : {None} \cup Files,
                   size : 0 .. FileSize, numRead : 0 .. FileSize]
      BY <1>0, <1>2 DEF WriteTypeOK
    <2>2. fsJournal' \in Seq(FolderStates) /\ fsJournal' # <<>>
      BY <1>1
    <2> QED
      BY <1>0, <1>1, <1>2, <2>1, <2>2 DEF WriteTypeOK
  <1>4. ProgressInv'
    <2>1. \A w \in Writers : wr'[w].pc \in {"done", "failed", "dead"} /\ w \in Files
      BY <1>1 DEF Files
    <2>2. \A w \in Writers : fsFile'[w].disk \in 0 .. FileSize
      BY <1>1, <2>1 DEF FileStates
    <2> QED
      BY <1>0, <1>1, <2>1, <2>2 DEF ProgressInv, WriterOK
  <1>5. DOMAIN fsJournal' = {1} /\ fsJournal'[1] = fsJournal[i]
    BY <1>1
  <1>6. PlacedInv'
    BY <1>1, <1>5 DEF PlacedInv, Placed
  <1>7. LinkInv'
    <2>1. \A w \in Writers : ~Active(w)'
      BY <1>1 DEF Active
    <2> QED
      BY <1>5, <2>1 DEF WriteInv, LinkInv, Linked, Unlinked
  <1>8. ReaderInv'
    <2>1. rd'.pc # "read" /\ (rd'.pc = "done" => rd' = rd)
      BY <1>0, <1>2 DEF WriteTypeOK
    <2> QED
      BY <2>1 DEF WriteInv, ReaderInv
  <1>9. ModeInv' /\ TempInv'
    BY <1>1, <1>2 DEF ModeInv, ModeOK, TempInv
  <1> QED
    BY <1>3, <1>4, <1>6, <1>7, <1>8, <1>9 DEF WriteInv

LEMMA WriteInitInv ==
  ASSUME platform \in Platforms, WriteInit
  PROVE  WriteInv
  <1>0. FileSize \in Nat \ {0} /\ Old \notin Writers /\ Path # Real /\ Old \in Files
        /\ {NoFile, SymLink} \cap Files = {} /\ NoFile # SymLink
        /\ Path \notin TempNames /\ Real \notin TempNames
    BY WriteAssumption DEF Path, Real, Files
  <1>1. PICK path \in {NoFile, Old, SymLink}, real \in {NoFile, Old} :
          /\ path # SymLink => real = NoFile
          /\ fsJournal = << [n \in {Path, Real} \cup TempNames |->
                                CASE n = Path -> path [] n = Real -> real [] OTHER -> NoFile] >>
    BY DEF WriteInit
  <1> PICK e : e = [n \in {Path, Real} \cup TempNames |->
                       CASE n = Path -> path [] n = Real -> real [] OTHER -> NoFile]
    OBVIOUS
  <1>2. /\ e[Path] = path /\ e[Real] = real /\ \A n \in TempNames : e[n] = NoFile
        /\ e \in FolderStates
    <2>1. e[Path] = path /\ e[Real] = real /\ \A n \in TempNames : e[n] = NoFile
      BY <1>0
    <2>2. \A n \in EntryNames : e[n] \in Files \cup {NoFile, SymLink}
      BY <1>0, <1>1, <2>1 DEF EntryNames
    <2>3. e = [n \in EntryNames |-> e[n]]
      BY DEF EntryNames
    <2> QED
      BY <2>1, <2>2, <2>3 DEF FolderStates
  <1>3. /\ fsJournal \in Seq(FolderStates) /\ fsJournal # <<>> /\ DOMAIN fsJournal = {1}
        /\ fsJournal[1] = e /\ Dir = e
    BY <1>1, <1>2 DEF Dir, Last
  <1>4. PICK k \in {"regular", "folder"} :
          fsFile = [f \in Files |-> IF f = Old
             THEN [kind |-> k, len |-> FileSize, disk |-> FileSize, mode |-> "private"]
             ELSE NewFile]
    BY DEF WriteInit
  <1>5. /\ fsFile \in [Files -> FileStates] /\ fsFile[Old].len = FileSize /\ fsFile[Old].disk = FileSize
        /\ \A w \in Writers : fsFile[w].len = 0 /\ fsFile[w].disk = 0
    BY <1>0, <1>4 DEF FileStates, NewFile, Files
  <1>6. /\ wr \in [Writers -> LocalStates]
        /\ \A w \in Writers : wr[w].pc = "idle" /\ ~wr[w].failed /\ ~Active(w)
    BY DEF WriteInit, Locals, LocalStates, WriterPcs, Active
  <1>7. /\ rd \in [pc : {"idle", "read", "done", "failed"}, file : {None} \cup Files,
                   size : 0 .. FileSize, numRead : 0 .. FileSize]
        /\ rd.pc = "idle"
    BY <1>0 DEF WriteInit
  <1>8. crashed = FALSE /\ keepsTemp = {} /\ chmodSince = {}
    BY DEF WriteInit
  <1>9. WriteTypeOK
    BY <1>3, <1>5, <1>6, <1>7, <1>8 DEF WriteTypeOK
  <1>10. ProgressInv
    BY <1>0, <1>5, <1>6 DEF ProgressInv, WriterOK
  <1>11. PlacedInv
    BY <1>0, <1>1, <1>2, <1>3, <1>5 DEF PlacedInv, Placed
  <1>12. LinkInv
    BY <1>0, <1>1, <1>2, <1>3, <1>6 DEF LinkInv, Linked, Unlinked
  <1>13. ReaderInv /\ ModeInv /\ TempInv
    BY <1>2, <1>3, <1>6, <1>7 DEF ReaderInv, ModeInv, ModeOK, TempInv
  <1> QED
    BY <1>9, <1>10, <1>11, <1>12, <1>13 DEF WriteInv

LEMMA WriteNextInv ==
  ASSUME WriteInv, platform' = platform, WriteNext
  PROVE  WriteInv'
  BY ResolveLinkKeeps, CreateKeeps, SetFileModeKeeps, WriteAllKeeps, FlushKeeps, CloseKeeps,
     RenameKeeps, RenamedKeeps, RemoveKeeps, OpenKeeps, ReadKeeps, ChangeModeKeeps, CrashKeeps
  DEF WriteNext

LEMMA WriteSameInv ==
  ASSUME WriteInv, platform' = platform, UNCHANGED writeVars
  PROVE  WriteInv'
  <1>1. ReaderInv'
    BY DEF writeVars, WriteInv, ReaderInv, Placed, OnWindows
  <1>2. rd' \in [pc : {"idle", "read", "done", "failed"}, file : {None} \cup Files,
                 size : 0 .. FileSize, numRead : 0 .. FileSize]
    BY DEF writeVars, WriteInv, WriteTypeOK
  <1> QED
    BY <1>1, <1>2, ReaderStep DEF writeVars

(* Of a step of all the parts: it is one of the writers, or leaves them.   *)
LEMMA ServicesStep ==
  ASSUME [Next]_vars
  PROVE  platform' = platform /\ (WriteNext \/ UNCHANGED writeVars)
  BY DEF Next, Only, vars

(* The invariant of WriteFileAtomically and its reader, whatever part a    *)
(* behaviour is about.                                                     *)
THEOREM WriteInvariant == Spec => []WriteInv
  <1>1. Init => WriteInv
    BY WriteInitInv DEF Init
  <1>2. WriteInv /\ [Next]_vars => WriteInv'
    BY ServicesStep, WriteNextInv, WriteSameInv
  <1> QED
    BY <1>1, <1>2, PTL DEF Spec

(* ReadWholeFile returns one content from its first byte to its last,      *)
(* however many writers replace the file meanwhile.                        *)
THEOREM ReadsAreWhole == Spec => []ReadIsWhole
  <1>1. WriteInv => ReadIsWhole
    BY DEF WriteInv, ReaderInv, ReadIsWhole
  <1> QED
    BY <1>1, WriteInvariant, PTL

(* Every error path of WriteFileAtomically takes the temporary file away,  *)
(* or knows that it could not.                                             *)
THEOREM TempsAreRemoved == Spec => []NoTempLeftBehind
  <1>1. WriteInv => NoTempLeftBehind
    BY DEF WriteInv, TempInv, HoldsTemp, NoTempLeftBehind, Active, WriterAt
  <1> QED
    BY <1>1, WriteInvariant, PTL

(* A rename keeps the link, and the mode unless it was changed since the   *)
(* writer took it.                                                         *)
THEOREM LinkAndModeAreKept == Spec => KeepsLinkAndMode
  <1> DEFINE Kept == \A w \in Writers : RenameOver(w) /\ wr'[w].pc = "renamed" =>
          /\ Dir[Path] = SymLink /\ Dir[Real] # NoFile => Last(fsJournal')[Path] = SymLink
          /\ OnLinux /\ w \notin chmodSince /\ Content(Dir) \in Files
                => fsFile[w].mode = fsFile[Content(Dir)].mode
  <1>1. WriteInv /\ [Next]_vars => [Kept]_writeVars
    <2> SUFFICES ASSUME WriteInv, platform' = platform, NEW w \in Writers, RenameOver(w),
                        wr'[w].pc = "renamed"
                 PROVE  /\ Dir[Path] = SymLink /\ Dir[Real] # NoFile => Last(fsJournal')[Path] = SymLink
                        /\ OnLinux /\ w \notin chmodSince /\ Content(Dir) \in Files
                              => fsFile[w].mode = fsFile[Content(Dir)].mode
      BY ServicesStep
    <2>0. WriteTypeOK /\ WriterOK(w) /\ ModeOK(w) /\ wr[w].pc = "rename" /\ ~wr[w].failed
      BY DEF WriteInv, ProgressInv, ModeInv, RenameOver, WriterAt, WriterOK
    <2>1. Enter([Dir EXCEPT ![wr[w].target] = w, ![wr[w].temp] = NoFile])
      <3>1. ~Fail(w, "remove")
        BY <2>0, FailLocals DEF WriterPcs
      <3> QED
        BY <3>1 DEF RenameOver
    <2>2. /\ \A n \in EntryNames : n # wr[w].target /\ n # wr[w].temp => Dir'[n] = Dir[n]
          /\ Linked => wr[w].target = Real
          /\ wr[w].temp \in TempNames
      BY <2>0, <2>1, RenameFacts DEF WriterAt
    <2>3. ASSUME Dir[Path] = SymLink, Dir[Real] # NoFile
          PROVE  Last(fsJournal')[Path] = SymLink
      <3>1. Len(fsJournal) \in DOMAIN fsJournal /\ Dir = fsJournal[Len(fsJournal)]
        BY <2>0, JournalLast
      <3>2. Linked
        BY <2>3, <3>1 DEF WriteInv, LinkInv, Unlinked
      <3>3. Path # Real /\ Path # wr[w].temp /\ Path \in EntryNames
        BY <2>2, WriteAssumption DEF Path, Real, EntryNames
      <3> QED
        BY <2>2, <2>3, <3>2, <3>3 DEF Dir
    <2>4. ASSUME OnLinux, w \notin chmodSince, Content(Dir) \in Files
          PROVE  fsFile[w].mode = fsFile[Content(Dir)].mode
      BY <2>0, <2>4 DEF ModeOK, CurrentMode
    <2> QED
      BY <2>3, <2>4
  <1> QED
    BY <1>1, WriteInvariant, PTL DEF Spec, KeepsLinkAndMode
-----------------------------------------------------------------------------
(* The abstract file's state, read off the folder and the writers.         *)
Past == {Content(fsJournal[i]) : i \in DOMAIN fsJournal}
Calls == [w \in Writers |-> CallOf(w)]

AbstractStep == [File!ANext]_(File!fileVars)

(* What the path leads to is never torn.                                   *)
LEMMA NeverTorn ==
  ASSUME WriteInv
  PROVE  Whole(Content(Dir)) = Content(Dir)
  <1>1. Content(Dir) \in Files => Placed(Content(Dir))
    BY CurrentIsPlaced DEF WriteInv
  <1> QED
    BY <1>1, WriteAssumption DEF Whole, Placed

ContentIsWhole == Whole(Content(Dir)) = Content(Dir)

LEMMA WholeAlways == WriteInv => ContentIsWhole
  BY NeverTorn DEF ContentIsWhole

LEMMA WholeAfter == WriteInv' => ContentIsWhole'
  BY WholeAlways, PTL

(* A step after which the path leads where it led, in every state that a   *)
(* crash may bring back.                                                   *)
LEMMA SameContents ==
  ASSUME WriteTypeOK,
         \A i \in DOMAIN fsJournal' : \E j \in DOMAIN fsJournal :
            \A n \in {Path, Real} : fsJournal'[i][n] = fsJournal[j][n],
         \A i \in DOMAIN fsJournal : i \in DOMAIN fsJournal' /\ fsJournal'[i] = fsJournal[i],
         \A n \in {Path, Real} : Dir'[n] = Dir[n]
  PROVE  Content(Dir)' = Content(Dir) /\ Past' = Past
  <1>1. Content(Dir)' = Content(Dir)
    BY DEF Content, Followed
  <1>2. Past \subseteq Past'
    BY DEF Past, Content, Followed
  <1>3. Past' \subseteq Past
    <2>1. ASSUME NEW i \in DOMAIN fsJournal'
          PROVE  \E j \in DOMAIN fsJournal : Content(fsJournal'[i]) = Content(fsJournal[j])
      BY DEF Content, Followed
    <2>2. Past' = {Content(fsJournal'[i]) : i \in DOMAIN fsJournal'}
      BY DEF Past, Content, Followed
    <2> QED
      BY <2>1, <2>2 DEF Past
  <1> QED
    BY <1>1, <1>2, <1>3

(* A writer that goes on, is called or returns, with the content as it was.*)
LEMMA CallStep ==
  ASSUME WriteInv, WriteInv', platform' = platform, NEW w \in Writers,
         Content(Dir)' = Content(Dir), Past' = Past,
         \A v \in Writers \ {w} : wr'[v] = wr[v],
         \/ CallOf(w)' = CallOf(w)
         \/ CallOf(w) = "idle" /\ CallOf(w)' = "calling"
         \/ CallOf(w) = "applied" /\ CallOf(w)' = "ok"
         \/ CallOf(w) = "calling" /\ CallOf(w)' = "failed"
  PROVE  AbstractStep
  <1>1. Whole(Content(Dir))' = Whole(Content(Dir))
    <2>1. Whole(Content(Dir))' = Content(Dir)'
      BY WholeAfter DEF ContentIsWhole
    <2> QED
      BY <2>1, NeverTorn
  <1>2. \A v \in Writers \ {w} : CallOf(v)' = CallOf(v)
    BY DEF CallOf, OnWindows
  <1>3. Calls' = [Calls EXCEPT ![w] = CallOf(w)'] /\ (CallOf(w)' = CallOf(w) => Calls' = Calls)
    <2> PICK c : c = CallOf(w)'
      OBVIOUS
    <2>1. Calls' = [v \in Writers |-> CallOf(v)'] /\ Calls = [v \in Writers |-> CallOf(v)]
      BY DEF Calls
    <2>2. \A v \in Writers : CallOf(v)' = IF v = w THEN c ELSE CallOf(v)
      BY <1>2
    <2>3. Calls' = [v \in Writers |-> IF v = w THEN c ELSE CallOf(v)]
      BY <2>1, <2>2
    <2> QED
      BY <2>1, <2>3
  <1>4. Calls[w] = CallOf(w)
    BY DEF Calls
  <1> QED
    BY <1>1, <1>3, <1>4 DEF AbstractStep, Past, Calls, File!ANext, File!Call, File!Return, File!fileVars

LEMMA SameFolderContents ==
  ASSUME fsJournal' = fsJournal
  PROVE  Content(Dir)' = Content(Dir) /\ Past' = Past
  BY DEF Content, Followed, Dir, Past

(* A writer that goes on within its call.                                  *)
LEMMA ErrorCalls ==
  ASSUME WriteInv, platform' = platform, NEW w \in Writers, NEW upTo \in {"close", "remove"},
         upTo = "close" => OnLinux,
         wr[w].pc \in {"chmod", "write", "sync", "rename"} \/ (OnLinux /\ wr[w].pc = "close"),
         Fail(w, upTo)
  PROVE  /\ \A v \in Writers \ {w} : wr'[v] = wr[v]
         /\ CallOf(w)' = CallOf(w)
  <1>1. WriteTypeOK /\ upTo \in WriterPcs
    BY DEF WriteInv, WriterPcs
  <1>2. /\ \A v \in Writers \ {w} : wr'[v] = wr[v]
        /\ wr'[w].pc = upTo
    BY <1>1, FailLocals
  <1>3. CallOf(w)' = "calling" /\ CallOf(w) = "calling"
    BY <1>2 DEF CallOf, OnLinux, OnWindows
  <1> QED
    BY <1>2, <1>3

LEMMA WritingRefines ==
  ASSUME WriteInv, WriteInv', platform' = platform, NEW w \in Writers,
         SetFileMode(w) \/ WriteAll(w) \/ Flush(w)
  PROVE  AbstractStep
  <1>0. WriteTypeOK /\ WriterOK(w) /\ (OnWindows <=> ~OnLinux)
    BY DEF WriteInv, ProgressInv, WriteTypeOK, Platforms, OnLinux, OnWindows
  <1>1. /\ wr[w].pc \in {"chmod", "write", "sync"} /\ fsJournal' = fsJournal
        /\ wr[w].pc = "chmod" => OnLinux
        /\ CallOf(w) = "calling"
    BY <1>0 DEF SetFileMode, WriteAll, Flush, WriterAt, WriterOK, CallOf
  <1>2. \A upTo \in {"write", "sync", "close", "rename"} :
           Go(w, upTo) /\ (upTo = "close" => OnLinux) =>
              /\ \A v \in Writers \ {w} : wr'[v] = wr[v]
              /\ CallOf(w)' = CallOf(w)
    <2> TAKE upTo \in {"write", "sync", "close", "rename"}
    <2> HAVE Go(w, upTo) /\ (upTo = "close" => OnLinux)
    <2>1. /\ \A v \in Writers \ {w} : wr'[v] = wr[v]
          /\ wr'[w].pc = upTo
      BY <1>0, GoLocals DEF WriterPcs
    <2>2. CallOf(w)' = "calling"
      BY <2>1 DEF CallOf, OnLinux, OnWindows
    <2> QED
      BY <1>1, <2>1, <2>2
  <1>3. ErrorStep \in {"close", "remove"} /\ (ErrorStep = "close" => OnLinux)
    BY DEF ErrorStep
  <1>4. \/ \E upTo \in {"write", "sync", "close", "rename"} :
             Go(w, upTo) /\ (upTo = "close" => OnLinux)
        \/ \E upTo \in {"close", "remove"} : Fail(w, upTo) /\ (upTo = "close" => OnLinux)
    <2>1. CASE SetFileMode(w)
      BY <1>1, <2>1 DEF SetFileMode, WriterAt
    <2>2. CASE WriteAll(w)
      BY <1>3, <2>2 DEF WriteAll, WriteSome
    <2>3. CASE Flush(w)
      BY <1>3, <2>3 DEF Flush
    <2> QED
      BY <2>1, <2>2, <2>3
  <1>5. /\ \A v \in Writers \ {w} : wr'[v] = wr[v]
        /\ CallOf(w)' = CallOf(w)
    BY <1>1, <1>2, <1>4, ErrorCalls
  <1> QED
    BY <1>1, <1>5, SameFolderContents, CallStep

LEMMA CallingRefines ==
  ASSUME WriteInv, WriteInv', platform' = platform, NEW w \in Writers,
         ResolveLink(w) \/ CloseFile(w) \/ Renamed(w)
  PROVE  AbstractStep
  <1>0. WriteTypeOK /\ WriterOK(w) /\ (OnWindows <=> ~OnLinux)
    BY DEF WriteInv, ProgressInv, WriteTypeOK, Platforms, OnLinux, OnWindows
  <1>1. CASE ResolveLink(w)
    <2>1. /\ fsJournal' = fsJournal /\ wr[w].pc = "idle"
          /\ \A v \in Writers \ {w} : wr'[v] = wr[v]
          /\ wr'[w].pc = "create"
      BY <1>0, <1>1 DEF ResolveLink, WriterAt, WriteTypeOK, LocalStates
    <2>2. CallOf(w) = "idle" /\ CallOf(w)' = "calling"
      BY <2>1 DEF CallOf
    <2> QED
      BY <2>1, <2>2, SameFolderContents, CallStep
  <1>2. CASE CloseFile(w)
    <2>0. wr[w].pc = "close" /\ fsJournal' = fsJournal
      BY <1>2 DEF CloseFile, WriterAt
    <2>1. CASE OnWindows /\ wr[w].failed
      <3>1. Return(w, "failed")
        BY <1>2, <2>1 DEF CloseFile
      <3>2. /\ \A v \in Writers \ {w} : wr'[v] = wr[v]
            /\ wr'[w].pc = "failed"
        BY <1>0, <3>1, ReturnLocals DEF WriterPcs
      <3>3. CallOf(w) = "calling" /\ CallOf(w)' = "failed"
        BY <2>0, <2>1, <3>2 DEF CallOf
      <3> QED
        BY <2>0, <3>2, <3>3, SameFolderContents, CallStep
    <2>2. CASE OnWindows /\ ~wr[w].failed
      <3>1. Return(w, "done")
        BY <1>2, <2>2 DEF CloseFile
      <3>2. /\ \A v \in Writers \ {w} : wr'[v] = wr[v]
            /\ wr'[w].pc = "done"
        BY <1>0, <3>1, ReturnLocals DEF WriterPcs
      <3>3. CallOf(w) = "applied" /\ CallOf(w)' = "ok"
        BY <2>0, <2>2, <3>2 DEF CallOf
      <3> QED
        BY <2>0, <3>2, <3>3, SameFolderContents, CallStep
    <2>3. CASE ~OnWindows
      <3>1. Fail(w, "remove") \/ \E upTo \in {"remove", "rename"} : Go(w, upTo)
        BY <1>2, <2>3 DEF CloseFile
      <3>2. /\ \A v \in Writers \ {w} : wr'[v] = wr[v]
            /\ wr'[w].pc \in {"remove", "rename"}
        BY <1>0, <3>1, FailLocals, GoLocals DEF WriterPcs
      <3>3. CallOf(w) = "calling" /\ CallOf(w)' = "calling"
        BY <2>0, <2>3, <3>2 DEF CallOf
      <3> QED
        BY <2>0, <3>2, <3>3, SameFolderContents, CallStep
    <2> QED
      BY <2>1, <2>2, <2>3
  <1>3. CASE Renamed(w)
    <2>0. wr[w].pc = "renamed" /\ fsJournal' = fsJournal /\ CallOf(w) = "applied" /\ ~wr[w].failed
      BY <1>0, <1>3 DEF Renamed, WriterAt, CallOf, WriterOK
    <2>1. CASE OnLinux
      <3>1. Return(w, "done")
        BY <1>3, <2>1 DEF Renamed
      <3>2. /\ \A v \in Writers \ {w} : wr'[v] = wr[v]
            /\ wr'[w].pc = "done"
        BY <1>0, <3>1, ReturnLocals DEF WriterPcs
      <3>3. CallOf(w)' = "ok"
        BY <3>2 DEF CallOf
      <3> QED
        BY <2>0, <3>2, <3>3, SameFolderContents, CallStep
    <2>2. CASE ~OnLinux
      <3>1. Go(w, "close")
        BY <1>3, <2>2 DEF Renamed
      <3>2. /\ \A v \in Writers \ {w} : wr'[v] = wr[v]
            /\ wr'[w].pc = "close" /\ wr'[w].failed = wr[w].failed
        BY <1>0, <3>1, GoLocals DEF WriterPcs
      <3>3. CallOf(w)' = "applied"
        BY <1>0, <2>0, <2>2, <3>2 DEF CallOf, OnWindows
      <3> QED
        BY <2>0, <3>2, <3>3, SameFolderContents, CallStep
    <2> QED
      BY <2>1, <2>2
  <1> QED
    BY <1>1, <1>2, <1>3

LEMMA TemporaryRefines ==
  ASSUME WriteInv, WriteInv', platform' = platform, NEW w \in Writers,
         CreateTemporaryFile(w) \/ RemoveTemporary(w)
  PROVE  AbstractStep
  <1>0. WriteTypeOK /\ WriterOK(w) /\ (OnWindows <=> ~OnLinux)
    BY DEF WriteInv, ProgressInv, WriteTypeOK, Platforms, OnLinux, OnWindows
  <1>1. wr[w].pc \in {"create", "remove"} /\ CallOf(w) = "calling"
    BY DEF CreateTemporaryFile, RemoveTemporary, WriterAt, CallOf
  <1>2. Content(Dir)' = Content(Dir) /\ Past' = Past
    <2>1. CASE fsJournal' = fsJournal
      BY <2>1, SameFolderContents
    <2>2. CASE \E name \in TempNames, f \in Writers \cup {NoFile} : Enter([Dir EXCEPT ![name] = f])
      BY <1>0, <2>2, EnteredBeside, SameContents
    <2>3. RemoveTemporary(w) => wr[w].temp \in TempNames
      BY <1>0 DEF RemoveTemporary, WriterAt, WriterOK
    <2> QED
      BY <2>1, <2>2, <2>3 DEF CreateTemporaryFile, RemoveTemporary
  <1>3. CASE Return(w, "failed")
    <2>1. /\ \A v \in Writers \ {w} : wr'[v] = wr[v]
          /\ wr'[w].pc = "failed"
      BY <1>0, <1>3, ReturnLocals DEF WriterPcs
    <2>2. CallOf(w)' = "failed"
      BY <2>1 DEF CallOf
    <2> QED
      BY <1>1, <1>2, <2>1, <2>2, CallStep
  <1>4. CASE ~Return(w, "failed")
    <2>1. /\ \A v \in Writers \ {w} : wr'[v] = wr[v]
          /\ \/ wr'[w].pc \in {"create", "chmod", "write"}
             \/ wr'[w].pc = "close" /\ wr'[w].failed
      <3>1. CASE CreateTemporaryFile(w)
        <4>1. wr[w].pc = "create" /\ wr \in [Writers -> LocalStates]
          BY <1>0, <3>1 DEF CreateTemporaryFile, WriterAt, WriteTypeOK
        <4>2. \/ wr' = [wr EXCEPT ![w].tries = @ + 1]
              \/ \E name \in TempNames, upTo \in {"chmod", "write"} :
                    wr' = [wr EXCEPT ![w].pc = upTo, ![w].temp = name]
          BY <1>4, <3>1 DEF CreateTemporaryFile
        <4> QED
          BY <4>1, <4>2 DEF LocalStates
      <3>2. CASE RemoveTemporary(w)
        <4>1. Go(w, "close") /\ wr[w].failed
          BY <1>0, <1>4, <3>2 DEF RemoveTemporary, WriterAt, WriterOK
        <4> QED
          BY <1>0, <4>1, GoLocals DEF WriterPcs
      <3> QED
        BY <3>1, <3>2
    <2>2. CallOf(w)' = "calling"
      BY <2>1 DEF CallOf
    <2> QED
      BY <1>1, <1>2, <2>1, <2>2, CallStep
  <1> QED
    BY <1>3, <1>4

LEMMA RenameRefines ==
  ASSUME WriteInv, WriteInv', platform' = platform, NEW w \in Writers, RenameOver(w)
  PROVE  AbstractStep
  <1>0. WriteTypeOK /\ wr[w].pc = "rename" /\ CallOf(w) = "calling"
    BY DEF WriteInv, RenameOver, WriterAt, CallOf
  <1>1. ASSUME Enter([Dir EXCEPT ![wr[w].target] = w, ![wr[w].temp] = NoFile]), Go(w, "renamed")
        PROVE  AbstractStep
    <2>1. /\ DOMAIN fsJournal' = DOMAIN fsJournal \cup {Len(fsJournal) + 1}
          /\ fsJournal'[Len(fsJournal) + 1] = Dir'
          /\ \A i \in DOMAIN fsJournal : fsJournal'[i] = fsJournal[i]
          /\ Content(Dir)' = w
      BY <1>0, <1>1, RenameFacts DEF WriterAt
    <2>2. Past' = Past \cup {w}
      <3>1. Past' = {Content(fsJournal'[i]) : i \in DOMAIN fsJournal'} /\ Content(Dir') = w
        BY <2>1 DEF Past, Content, Followed
      <3>2. Past' = {Content(fsJournal[i]) : i \in DOMAIN fsJournal} \cup {Content(Dir')}
        BY <2>1, <3>1
      <3> QED
        BY <3>1, <3>2 DEF Past
    <2>3. Whole(Content(Dir))' = w
      BY <2>1, WholeAfter DEF ContentIsWhole
    <2>4. /\ \A v \in Writers \ {w} : wr'[v] = wr[v]
          /\ wr'[w].pc = "renamed"
      BY <1>0, <1>1, GoLocals DEF WriterPcs
    <2>5. \A v \in Writers : CallOf(v)' = IF v = w THEN "applied" ELSE CallOf(v)
      BY <2>4 DEF CallOf, OnWindows
    <2>6. Calls' = [v \in Writers |-> CallOf(v)'] /\ Calls = [v \in Writers |-> CallOf(v)]
      BY DEF Calls
    <2>7. Calls' = [v \in Writers |-> IF v = w THEN "applied" ELSE CallOf(v)]
      BY <2>5, <2>6
    <2>8. Calls' = [Calls EXCEPT ![w] = "applied"] /\ Calls[w] = "calling"
      BY <1>0, <2>6, <2>7
    <2> QED
      BY <2>2, <2>3, <2>8 DEF AbstractStep, Past, Calls, File!ANext, File!Apply, File!fileVars
  <1>2. ASSUME Fail(w, "remove"), fsJournal' = fsJournal
        PROVE  AbstractStep
    BY <1>0, <1>2, ErrorCalls, SameFolderContents, CallStep
  <1> QED
    BY <1>1, <1>2 DEF RenameOver

(* A step of the reader or of the user is none of the abstract file's.      *)
LEMMA OthersRefine ==
  ASSUME WriteInv, WriteInv', platform' = platform, fsJournal' = fsJournal, wr' = wr
  PROVE  AbstractStep
  <1>1. Content(Dir)' = Content(Dir) /\ Past' = Past
    BY SameFolderContents
  <1>2. Whole(Content(Dir))' = Whole(Content(Dir))
    BY <1>1, WholeAfter, NeverTorn DEF ContentIsWhole
  <1>3. Calls' = Calls
    BY DEF Calls, CallOf, OnWindows
  <1> QED
    BY <1>1, <1>2, <1>3 DEF AbstractStep, Past, Calls, File!fileVars

LEMMA CrashRefines ==
  ASSUME WriteInv, WriteInv', platform' = platform, SystemCrash
  PROVE  AbstractStep
  <1>1. PICK i \in DOMAIN fsJournal :
           /\ fsJournal' = <<fsJournal[i]>>
           /\ \A w \in Writers :
                 wr'[w].pc = (IF wr[w].pc \in {"done", "failed"} THEN wr[w].pc ELSE "dead")
    BY CrashFacts
  <1>2. Len(fsJournal') = 1 /\ DOMAIN fsJournal' = {1} /\ fsJournal'[1] = fsJournal[i]
    BY <1>1
  <1>3. Dir' = fsJournal[i]
    BY <1>2 DEF Dir, Last
  <1>4. Content(Dir)' = Content(fsJournal[i]) /\ Past' = {Content(fsJournal[i])}
    BY <1>2, <1>3 DEF Content, Followed, Past
  <1>5. Whole(Content(Dir))' \in Past /\ Past' = {Whole(Content(Dir))'}
    BY <1>4, WholeAfter DEF ContentIsWhole, Past
  <1>6. \A w \in Writers :
           CallOf(w)' = IF CallOf(w) \in {"ok", "failed"} THEN CallOf(w) ELSE "dead"
    BY <1>1 DEF CallOf
  <1>7. Calls' = [w \in Writers |-> IF Calls[w] \in {"ok", "failed"} THEN Calls[w] ELSE "dead"]
    <2>1. Calls' = [w \in Writers |-> CallOf(w)'] /\ Calls = [w \in Writers |-> CallOf(w)]
      BY DEF Calls
    <2> QED
      BY <1>6, <2>1
  <1> QED
    BY <1>5, <1>7 DEF AbstractStep, Past, Calls, File!ANext, File!Crash, File!fileVars

LEMMA AbstractInit ==
  ASSUME WriteInv, WriteInit
  PROVE  File!AInit
  <1>1. PICK path \in {NoFile, Old, SymLink}, real \in {NoFile, Old} :
          fsJournal = << [n \in {Path, Real} \cup TempNames |->
                             CASE n = Path -> path [] n = Real -> real [] OTHER -> NoFile] >>
    BY DEF WriteInit
  <1>2. Len(fsJournal) = 1 /\ DOMAIN fsJournal = {1} /\ Dir = fsJournal[1]
    BY <1>1 DEF Dir, Last
  <1>3. Dir[Path] = path /\ Dir[Real] = real
    BY <1>1, <1>2 DEF Path, Real
  <1>4. Content(Dir) \in Files \cup {NoFile}
    BY <1>3, WriteAssumption DEF Content, Followed, Files
  <1>5. Past = {Whole(Content(Dir))} /\ Whole(Content(Dir)) = Content(Dir)
    BY <1>2, NeverTorn DEF Past
  <1>6. Calls = [w \in Writers |-> "idle"]
    <2>1. \A w \in Writers : CallOf(w) = "idle"
      BY DEF WriteInit, Locals, CallOf
    <2> QED
      BY <2>1 DEF Calls
  <1> QED
    BY <1>4, <1>5, <1>6 DEF File!AInit, Past, Calls

(* Any number of writers, with failures at any call and a crash of the     *)
(* system between any two, implement a file that is replaced as a whole:   *)
(* a call that failed changed nothing, one that succeeded took effect once.*)
THEOREM WritesAreAtomic == Spec => ImplementsAtomicFile
  <1>1. Init => File!AInit
    BY WriteInitInv, AbstractInit DEF Init
  <1>2. WriteInv /\ WriteInv' /\ [Next]_vars => AbstractStep
    <2> SUFFICES ASSUME WriteInv, WriteInv', [Next]_vars
                 PROVE  AbstractStep
      OBVIOUS
    <2>1. platform' = platform /\ (WriteNext \/ UNCHANGED writeVars)
      BY ServicesStep
    <2>2. CASE WriteNext
      BY <2>1, <2>2, WritingRefines, CallingRefines, TemporaryRefines, RenameRefines, OthersRefine,
         CrashRefines
      DEF WriteNext, OpenToRead, ReadOpenFile, ChangeMode
    <2>3. CASE UNCHANGED writeVars
      BY <2>1, <2>3, OthersRefine DEF writeVars
    <2> QED
      BY <2>1, <2>2, <2>3
  <1> QED
    BY <1>1, <1>2, WriteInvariant, PTL DEF Spec, ImplementsAtomicFile, File!ASpec, AbstractStep
-----------------------------------------------------------------------------
(***************************************************************************)
(* CAddressLookup: whose memory a lookup's is.                             *)
(***************************************************************************)
LookupTypeOK ==
    /\ lkMemory \in [Lookups -> {"none", "live", "freed", "left"}]
    /\ lkSystem \in [Lookups -> {"none", "queued", "working", "done"}]
    /\ lkResult \in [Lookups -> {"none", "allocated", "freed"}]
    /\ lkEvent \in [Lookups -> BOOLEAN]
    /\ lookup \in Lookups \cup {None} /\ lkPending \in BOOLEAN /\ lkNeeded \subseteq Lookups

\* The memory is m_pLookup's while it is live, and not given back while the system works on it.
LookupOK(l) ==
    /\ lkMemory[l] = "live" <=> l = lookup
    /\ lkMemory[l] \in {"none", "freed"} => ~InProgress(l) /\ lkResult[l] # "allocated" /\ ~lkEvent[l]
    /\ lkMemory[l] = "left" => l \in lkNeeded

LookupInv ==
    /\ LookupTypeOK
    /\ \A l \in Lookups : LookupOK(l)
    /\ lkPending => OnWindows /\ lookup # None /\ lookup \in lkNeeded

LEMMA LookupInitInv == LookupInit => LookupInv
  BY LookupAssumption DEF LookupInit, LookupInv, LookupTypeOK, LookupOK, InProgress

LEMMA StartLookupKeeps ==
  ASSUME LookupInv, NEW l \in Lookups, StartLookup(l)
  PROVE  LookupInv'
  <1> USE LookupAssumption DEF LookupInv, LookupTypeOK
  <1>1. LookupTypeOK'
    BY DEF StartLookup, OnWindows
  <1>2. ASSUME NEW k \in Lookups PROVE LookupOK(k)'
    <2>1. CASE k = l
      BY <2>1 DEF StartLookup, LookupOK, InProgress
    <2>2. CASE k # l
      BY <2>2 DEF StartLookup, LookupOK, InProgress
    <2> QED
      BY <2>1, <2>2
  <1>3. ~lkPending'
    BY DEF StartLookup
  <1> QED
    BY <1>1, <1>2, <1>3

LEMMA FreeLookupTypes ==
  ASSUME LookupTypeOK, NEW l \in Lookups, FreeLookup(l)
  PROVE  /\ lkMemory' \in [Lookups -> {"none", "live", "freed", "left"}]
         /\ lkResult' \in [Lookups -> {"none", "allocated", "freed"}]
         /\ lkEvent' \in [Lookups -> BOOLEAN]
  <1>1. lkMemory' \in [Lookups -> {"none", "live", "freed", "left"}]
    BY DEF FreeLookup, LookupTypeOK
  <1>2. lkResult' \in [Lookups -> {"none", "allocated", "freed"}]
    BY DEF FreeLookup, LookupTypeOK
  <1>3. lkEvent' \in [Lookups -> BOOLEAN]
    BY DEF FreeLookup, LookupTypeOK
  <1> QED
    BY <1>1, <1>2, <1>3

LEMMA LetGoKeeps ==
  ASSUME LookupInv, platform' = platform,
         PollLookup \/ TerminateOnLinux \/ TerminateAsks \/ TerminateCancels
  PROVE  LookupInv'
  <1> USE LookupAssumption DEF LookupInv, LookupTypeOK
  <1> DEFINE l == lookup
  <1>0. l \in Lookups
    BY DEF PollLookup, TerminateOnLinux, TerminateAsks, TerminateCancels
  <1>1. LookupTypeOK'
    <2>1. CASE PollLookup
      BY <1>0, <2>1 DEF PollLookup, FreeLookup
    <2>2. CASE TerminateOnLinux
      <3>1. CASE lkSystem[l] = "working"
        BY <1>0, <2>2, <3>1 DEF TerminateOnLinux, LeaveLookup
      <3>2. CASE lkSystem[l] # "working"
        <4>1. FreeLookup(l) /\ LookupTypeOK
          BY <2>2, <3>2 DEF TerminateOnLinux
        <4> QED
          BY <1>0, <2>2, <4>1, FreeLookupTypes DEF TerminateOnLinux
      <3> QED
        BY <3>1, <3>2
    <2>3. CASE TerminateAsks
      <3>1. CASE InProgress(l)
        BY <1>0, <2>3, <3>1 DEF TerminateAsks
      <3>2. CASE ~InProgress(l)
        <4>1. FreeLookup(l) /\ LookupTypeOK
          BY <2>3, <3>2 DEF TerminateAsks
        <4> QED
          BY <1>0, <2>3, <3>2, <4>1, FreeLookupTypes DEF TerminateAsks
      <3> QED
        BY <3>1, <3>2
    <2>4. CASE TerminateCancels
      BY <1>0, <2>4 DEF TerminateCancels, LeaveLookup
    <2> QED
      BY <2>1, <2>2, <2>3, <2>4
  <1>2. ASSUME NEW k \in Lookups PROVE LookupOK(k)'
    <2>1. CASE PollLookup
      BY <1>0, <2>1 DEF PollLookup, FreeLookup, LookupOK, InProgress
    <2>2. CASE TerminateOnLinux
      BY <1>0, <2>2 DEF TerminateOnLinux, FreeLookup, LeaveLookup, LookupOK, InProgress
    <2>3. CASE TerminateAsks
      BY <1>0, <2>3 DEF TerminateAsks, FreeLookup, LookupOK, InProgress
    <2>4. CASE TerminateCancels
      BY <1>0, <2>4 DEF TerminateCancels, LeaveLookup, LookupOK, InProgress
    <2> QED
      BY <2>1, <2>2, <2>3, <2>4
  <1>3. lkPending' => (OnWindows /\ lookup # None /\ lookup \in lkNeeded)'
    BY <1>0 DEF PollLookup, TerminateOnLinux, TerminateAsks, TerminateCancels, FreeLookup, OnLinux, OnWindows
  <1> QED
    BY <1>1, <1>2, <1>3

LEMMA ResolverKeeps ==
  ASSUME LookupInv, platform' = platform, NEW l \in Lookups, NEW result \in {"none", "allocated"},
         ResolverTakes(l) \/ ResolverAnswers(l, result)
  PROVE  LookupInv'
  <1> USE DEF LookupInv, LookupTypeOK
  <1>1. LookupTypeOK'
    BY DEF ResolverTakes, ResolverAnswers
  <1>2. ASSUME NEW k \in Lookups PROVE LookupOK(k)'
    BY DEF ResolverTakes, ResolverAnswers, LookupOK, InProgress
  <1>3. UNCHANGED <<lookup, lkPending, lkNeeded>>
    BY DEF ResolverTakes, ResolverAnswers
  <1>4. (lkPending => OnWindows /\ lookup # None /\ lookup \in lkNeeded)'
    BY <1>3, Zenon DEF OnWindows
  <1> QED
    BY <1>1, <1>2, <1>4

LEMMA LookupNextInv ==
  ASSUME LookupInv, platform' = platform, LookupNext \/ UNCHANGED lookupVars
  PROVE  LookupInv'
  <1>1. CASE LookupNext
    BY <1>1, StartLookupKeeps, LetGoKeeps, ResolverKeeps DEF LookupNext
  <1>2. CASE UNCHANGED lookupVars
    BY <1>2 DEF lookupVars, LookupInv, LookupTypeOK, LookupOK, InProgress, OnWindows
  <1> QED
    BY <1>1, <1>2
-----------------------------------------------------------------------------
(***************************************************************************)
(* CDirectoryWatch on Windows: the buffer outlives the read that is        *)
(* written into it, and no change is lost between two reads.               *)
(***************************************************************************)
ReadTypeOK ==
    /\ rdState \in {"none", "pending", "complete", "lost", "failed"}
    /\ rdWatch \in {"off", "on", "ended", "releasing", "waiting", "done"}
    /\ rdBuffer \in {"none", "live", "freed"}
    /\ rdIsPending \in BOOLEAN /\ rdFolder \in BOOLEAN /\ rdEvent \in BOOLEAN

\* A read is the system's from its issue until its end was waited for, and as long the watch knows
\* of it and keeps the buffer and the folder.
HeldByRead ==
    /\ rdState = "pending" => rdIsPending /\ rdEntries = {}
    /\ rdIsPending => rdBuffer = "live" /\ rdFolder /\ rdWatch \in {"on", "releasing", "waiting"}
    /\ rdWatch = "done" => ~rdFolder /\ ~rdEvent
    /\ rdWatch = "off" => ~rdFolder /\ rdState = "none" /\ rdEntries = {}

\* What was made while the watch is on, part by part.
ChangesKept ==
    rdWatch \in {"off", "on"} => \/ rdOverflowed \/ rdState = "lost"
                                \/ rdMade = rdSeen \cup rdEntries \cup rdWaiting

ReadInv == ReadTypeOK /\ HeldByRead /\ ChangesKept

LEMMA ReadInitInv == ReadInit => ReadInv
  BY DEF ReadInit, ReadInv, ReadTypeOK, HeldByRead, ChangesKept

LEMMA ReadNextInv ==
  ASSUME ReadInv, ReadNext \/ UNCHANGED readVars
  PROVE  ReadInv'
  <1> USE DEF ReadInv, ReadTypeOK, HeldByRead, ChangesKept
  <1>1. CASE InitializeFails
    BY <1>1 DEF InitializeFails
  <1>2. CASE InitializeRead
    BY <1>2 DEF InitializeRead, IssueRead
  <1>3. CASE ReadCompleted
    BY <1>3 DEF ReadCompleted, IssueRead
  <1>4. CASE ReadFailed
    BY <1>4 DEF ReadFailed
  <1>5. CASE TerminateWatch
    BY <1>5 DEF TerminateWatch
  <1>6. CASE ReleaseCancels
    BY <1>6 DEF ReleaseCancels
  <1>7. CASE ReleaseWaited
    BY <1>7 DEF ReleaseWaited
  <1>8. CASE ReleaseAll
    BY <1>8 DEF ReleaseAll
  <1>9. CASE Change
    BY <1>9 DEF Change
  <1>10. CASE SystemCompletes
    BY <1>10 DEF SystemCompletes
  <1>11. CASE SystemFails
    BY <1>11 DEF SystemFails
  <1>12. CASE UNCHANGED readVars
    BY <1>12 DEF readVars
  <1> QED
    BY <1>1, <1>2, <1>3, <1>4, <1>5, <1>6, <1>7, <1>8, <1>9, <1>10, <1>11, <1>12 DEF ReadNext

-----------------------------------------------------------------------------
(***************************************************************************)
(* CChildProcess: whose process an id is, and what a child's descriptors   *)
(* lead to.                                                                *)
(***************************************************************************)
Ends == {"exited", "killed"}
Places == {"nothing", "null", "terminal", "socket", "output"}
Tables == [Descriptors -> [to : Places, cloexec : BOOLEAN]]

ProcStates ==
    [state : {"free", "running", "taken"}, of : Children \cup {None, Other, Orphan}]
    \cup [state : {"ended"}, of : Children \cup {None, Other, Orphan}, how : Ends]

ProcTypeOK ==
    /\ proc \in [Pids -> ProcStates]
    /\ fate \in [Children -> {None} \cup Ends]
    /\ child \in [Children -> [pid : Pids \cup {None}, hasEnded : BOOLEAN, handle : BOOLEAN,
                               result : {None, "error"} \cup Ends]]
    /\ streams \in [Pids -> [Descriptors -> Places]]
    /\ start \in Starts \cup {None}

\* An id leads to its child until the child's end was reported, or other code took it.
ChildOK(c) ==
    /\ child[c].pid = None => child[c] = NoChild
    /\ ~child[c].hasEnded => child[c].result = None
    /\ child[c].hasEnded => ~child[c].handle
    /\ child[c].result \notin {None, "error"} => child[c].result = fate[c]
    /\ child[c].pid # None /\ ~child[c].hasEnded =>
          proc[child[c].pid].of = c \/ proc[child[c].pid].state = "taken"

ProcessOK(p) ==
    /\ proc[p].of \in Children =>
          /\ proc[p].state \in {"running", "ended"}
          /\ child[proc[p].of].pid = p /\ ~child[proc[p].of].hasEnded
          /\ proc[p].state = "ended" => fate[proc[p].of] = proc[p].how
    /\ proc[p].state = "taken" => OnLinux

OwnStreams(s) ==
    /\ s[Stdin] = "null" /\ s[Stdout] = s[Stderr] /\ s[Stdout] \in {"output", "null"}
    /\ \A d \in Descriptors : d >= FirstUnusedDescriptor => s[d] = "nothing"

StreamsOK(p) ==
    proc[p].state = "running" /\ proc[p].of \in Children =>
       /\ OwnStreams(streams[p])
       /\ start # None /\ start.of = proc[p].of =>
             (streams[p][Stdout] = "output" <=> start.output # None)

\* The table of descriptors has a free entry, and the output file its own; the Start under way has
\* not made its process yet, and holds what it will give back.
StartOK ==
    /\ fds \in Tables
    /\ outputFd \in Descriptors \cup {None}
    /\ outputFd # None => fds[outputFd].to = "output"
    /\ fds[4] = Closed \/ outputFd = 4
    /\ start = None => held = {}
    /\ start # None =>
          /\ start.step <= Len(StartSteps) => child[start.of].pid = None
          /\ start.output \in {None, outputFd}
          /\ held \subseteq Released

ProcInv ==
    /\ ProcTypeOK /\ StartOK
    /\ \A c \in Children : ChildOK(c)
    /\ \A p \in Pids : ProcessOK(p) /\ StreamsOK(p)


LEMMA ProcFields ==
  ASSUME NEW r \in ProcStates
  PROVE  /\ r.state \in {"free", "running", "taken", "ended"}
         /\ r.state = "ended" => r.how \in Ends
         /\ [r EXCEPT !.of = Orphan] \in ProcStates
         /\ [r EXCEPT !.of = Orphan].state = r.state
         /\ [r EXCEPT !.of = Orphan].of = Orphan
  BY DEF ProcStates

LEMMA NewProcesses ==
         /\ FreePid \in ProcStates
         /\ \A o \in Children \cup {None, Other, Orphan} :
               /\ [state |-> "running", of |-> o] \in ProcStates
               /\ [state |-> "taken", of |-> o] \in ProcStates
               /\ \A h \in Ends : [state |-> "ended", of |-> o, how |-> h] \in ProcStates
  BY DEF ProcStates, FreePid

LEMMA MinIsIn ==
  ASSUME NEW S \in SUBSET Descriptors, S # {}
  PROVE  Min(S) \in S
  <1>1. \E x \in S : \A y \in S : x <= y
    <2>1. \A x \in S : x \in {0, 1, 2, 3, 4}
      BY DEF Descriptors
    <2>2. CASE 0 \in S
      BY <2>1, <2>2
    <2>3. CASE 0 \notin S /\ 1 \in S
      BY <2>1, <2>3
    <2>4. CASE 0 \notin S /\ 1 \notin S /\ 2 \in S
      BY <2>1, <2>4
    <2>5. CASE S \cap {0, 1, 2} = {}
      BY <2>1, <2>5
    <2> QED
      BY <2>2, <2>3, <2>4, <2>5
  <1> QED
    BY <1>1 DEF Min

LEMMA OutputKeeps ==
  ASSUME ProcInv, platform' = platform, OpenOutput \/ CloseOutput
  PROVE  ProcInv'
  <1> USE ProcAssumption
  <1>1. UNCHANGED <<proc, fate, child, streams, start, held>> /\ start = None
    BY DEF OpenOutput, CloseOutput
  <1>2. ProcTypeOK'
    BY <1>1 DEF ProcInv, ProcTypeOK
  <1>3. ASSUME OpenOutput PROVE StartOK'
    <2>1. outputFd = None /\ fds[4] = Closed /\ fds \in Tables
      BY <1>3 DEF ProcInv, StartOK, OpenOutput, Descriptors
    <2>2. outputFd' \in {d \in Descriptors : fds[d] = Closed}
      BY <1>3, <2>1, MinIsIn DEF OpenOutput, Descriptors
    <2>3. fds' = [fds EXCEPT ![outputFd'] = [to |-> "output", cloexec |-> TRUE]]
      BY <1>3 DEF OpenOutput
    <2> QED
      BY <1>1, <2>1, <2>2, <2>3 DEF ProcInv, StartOK, Tables, Places, Descriptors
  <1>4. ASSUME CloseOutput PROVE StartOK'
    <2>1. outputFd \in Descriptors /\ outputFd' = None /\ fds' = [fds EXCEPT ![outputFd] = Closed]
      BY <1>4 DEF ProcInv, StartOK, CloseOutput
    <2>2. fds' \in Tables
      BY <2>1 DEF ProcInv, StartOK, Tables, Closed, Places
    <2>3. fds'[4] = Closed
      BY <2>1 DEF ProcInv, StartOK, Tables, Descriptors
    <2>4. held' = {} /\ start' = None
      BY <1>1 DEF ProcInv, StartOK
    <2> QED
      BY <2>1, <2>2, <2>3, <2>4 DEF StartOK
  <1>6. ASSUME NEW c \in Children PROVE ChildOK(c)'
    BY <1>1 DEF ProcInv, ChildOK
  <1>7. ASSUME NEW p \in Pids PROVE ProcessOK(p)' /\ StreamsOK(p)'
    BY <1>1 DEF ProcInv, ProcessOK, StreamsOK, OwnStreams, OnLinux
  <1> QED
    BY <1>2, <1>3, <1>4, <1>6, <1>7 DEF ProcInv

(* How many steps Start takes, and what they leave to give back.           *)
LEMMA StepsOfStart ==
  ASSUME platform' = platform
  PROVE  /\ Len(StartSteps) \in 4 .. 6 /\ Len(StartSteps) + 1 \in 5 .. 7
         /\ DOMAIN StartSteps = 1 .. Len(StartSteps)
         /\ StartSteps' = StartSteps
         /\ \A i \in 1 .. Len(StartSteps) : Takes(StartSteps[i]) \subseteq Released
  <1>1. CASE OnLinux
    BY <1>1 DEF StartSteps, Takes, Released, OnLinux
  <1>2. CASE ~OnLinux
    BY <1>2 DEF StartSteps, Takes, Released, OnLinux
  <1> QED
    BY <1>1, <1>2

LEMMA StartBegins ==
  ASSUME ProcInv, platform' = platform, NEW c \in Children, NEW output \in {None, outputFd},
         Start(c, output)
  PROVE  ProcInv'
  <1> USE ProcAssumption
  <1>1. /\ start = None /\ UNCHANGED <<proc, child, fds, outputFd, streams, held>>
        /\ start' = [of |-> c, step |-> 1, output |-> output]
        /\ fate' = [fate EXCEPT ![c] = None]
        /\ child[c] = NoChild
    BY DEF Start, ProcInv, ChildOK
  <1>2. ProcTypeOK'
    BY <1>1 DEF ProcInv, ProcTypeOK, StartOK, Starts
  <1>3. StartOK'
    BY <1>1 DEF ProcInv, StartOK, NoChild
  <1>4. ASSUME NEW k \in Children PROVE ChildOK(k)'
    BY <1>1 DEF ProcInv, ProcTypeOK, ChildOK, NoChild
  <1>5. ASSUME NEW p \in Pids PROVE ProcessOK(p)' /\ StreamsOK(p)'
    <2>1. proc[p].of # c
      BY <1>1 DEF ProcInv, ProcessOK, NoChild
    <2> QED
      BY <1>1, <2>1 DEF ProcInv, ProcTypeOK, ProcessOK, StreamsOK, OwnStreams, OnLinux
  <1> QED
    BY <1>2, <1>3, <1>4, <1>5 DEF ProcInv

LEMMA StartGoesOn ==
  ASSUME ProcInv, platform' = platform, StartStep \/ StartFails \/ StartReturns
  PROVE  ProcInv'
  <1> USE ProcAssumption
  <1>1. start \in Starts /\ UNCHANGED <<proc, fate, child, fds, outputFd, streams>>
    BY DEF StartStep, StartFails, StartReturns, ProcInv, ProcTypeOK
  <1>2. \/ start' = None /\ held' = {}
        \/ /\ start' \in Starts /\ start'.of = start.of /\ start'.output = start.output
           /\ held' \subseteq Released
           /\ start'.step <= Len(StartSteps) => start.step <= Len(StartSteps)
    <2>1. CASE StartStep
      <3>1. start' = [start EXCEPT !.step = @ + 1] /\ start.step \in 1 .. Len(StartSteps) - 1
        BY <2>1 DEF StartStep
      <3>2. held' \subseteq Released
        BY <2>1, <1>1, <3>1, StepsOfStart DEF StartStep, ProcInv, StartOK
      <3> QED
        BY <1>1, <3>1, <3>2, StepsOfStart DEF Starts
    <2>2. CASE StartFails
      <3>1. PICK n \in 5 .. 7 : n = Len(StartSteps) + 1
        BY StepsOfStart, Zenon
      <3>2. start' = [start EXCEPT !.step = n] /\ held' = held
        BY <2>2, <3>1 DEF StartFails
      <3>3. held \subseteq Released
        BY <1>1 DEF ProcInv, StartOK
      <3>4. start' \in Starts /\ start'.step = n /\ start'.of = start.of /\ start'.output = start.output
        BY <1>1, <3>2 DEF Starts
      <3> QED
        BY <3>1, <3>2, <3>3, <3>4, StepsOfStart
    <2>3. CASE StartReturns
      BY <1>1, <2>3 DEF StartReturns, ProcInv, StartOK
    <2> QED
      BY <2>1, <2>2, <2>3
  <1>3. ProcTypeOK'
    BY <1>1, <1>2 DEF ProcInv, ProcTypeOK
  <1>4. StartOK'
    <2>1. StartSteps' = StartSteps /\ Released' = Released
      BY StepsOfStart DEF Released, OnLinux
    <2> QED
      BY <1>1, <1>2, <2>1 DEF ProcInv, StartOK
  <1>5. ASSUME NEW k \in Children PROVE ChildOK(k)'
    BY <1>1 DEF ProcInv, ChildOK
  <1>6. ASSUME NEW p \in Pids PROVE ProcessOK(p)' /\ StreamsOK(p)'
    BY <1>1, <1>2 DEF ProcInv, ProcessOK, StreamsOK, OwnStreams, OnLinux
  <1> QED
    BY <1>3, <1>4, <1>5, <1>6 DEF ProcInv

LEMMA Placing ==
  ASSUME NEW table \in Tables, NEW d \in Descriptors, NEW e \in Descriptors
  PROVE  Dup2(table, e, d) \in Tables /\ OpenAt(table, d) \in Tables
  <1>1. \A to \in Places : Leads(to) \in [to : Places, cloexec : BOOLEAN]
    BY DEF Leads
  <1>2. table[e].to \in Places /\ "null" \in Places
    BY DEF Tables, Places
  <1> QED
    BY <1>1, <1>2 DEF Tables, Dup2, OpenAt

(* What posix_spawn's file actions and the list of handles make of it.     *)
LEMMA StreamsMade ==
  ASSUME ProcInv, start \in Starts,
         NEW table \in {SpawnActions(start.output), InheritedHandles(start.output)}
  PROVE  /\ table \in [Descriptors -> Places] /\ OwnStreams(table)
         /\ table[Stdout] = "output" <=> start.output # None
  <1> USE ProcAssumption
  <1>0. PICK out \in Places : out = IF start.output # None THEN "output" ELSE "null"
    BY DEF Places
  <1>1. start.output # None => start.output \in Descriptors /\ fds[start.output].to = "output"
    BY DEF ProcInv, StartOK
  <1>2. fds \in Tables
    BY DEF ProcInv, StartOK
  <1>3. \A d \in Descriptors :
           table[d] = CASE d = Stdin -> "null" [] d \in {Stdout, Stderr} -> out [] OTHER -> "nothing"
    <2>1. CASE table = InheritedHandles(start.output)
      BY <1>0, <1>1, <2>1 DEF InheritedHandles
    <2>2. CASE table = SpawnActions(start.output)
      <3>0. {Stdin, Stdout, Stderr} \subseteq Descriptors /\ Stdin # Stdout /\ Stdin # Stderr
            /\ Stdout # Stderr
        BY DEF Descriptors, Stdin, Stdout, Stderr
      <3>1. PICK one \in Tables :
               one = IF start.output # None THEN Dup2(fds, start.output, Stdout) ELSE OpenAt(fds, Stdout)
        BY <1>1, <1>2, <3>0, Placing
      <3>2. one[Stdout] = Leads(out)
        <4>1. CASE start.output # None
          <5>1. one[Stdout] = Leads(fds[start.output].to)
            BY <1>1, <1>2, <3>0, <3>1, <4>1 DEF Dup2, Tables
          <5> QED
            BY <1>0, <1>1, <4>1, <5>1
        <4>2. CASE start.output = None
          BY <1>0, <1>2, <3>0, <3>1, <4>2 DEF OpenAt, Tables
        <4> QED
          BY <4>1, <4>2
      <3>3. PICK two \in Tables : two = Dup2(one, Stdout, Stderr)
        BY <3>0, <3>1, Placing
      <3>4. two[Stdout] = Leads(out) /\ two[Stderr] = Leads(out)
        <4>1. one[Stdout].to = out
          BY <3>2 DEF Leads
        <4>2. two[Stderr] = Leads(one[Stdout].to) /\ two[Stdout] = one[Stdout]
          BY <3>0, <3>1, <3>3 DEF Dup2, Tables
        <4> QED
          BY <3>2, <4>1, <4>2
      <3>5. PICK three \in Tables : three = OpenAt(two, Stdin)
        BY <3>0, <3>3, Placing
      <3>6. /\ three[Stdin] = Leads("null") /\ three[Stdout] = Leads(out)
            /\ three[Stderr] = Leads(out)
        <4>1. /\ three[Stdin] = Leads("null")
              /\ three[Stdout] = two[Stdout] /\ three[Stderr] = two[Stderr]
          BY <3>0, <3>3, <3>5 DEF OpenAt, Tables
        <4> QED
          BY <3>4, <4>1
      <3>7. table = AfterExec(CloseFrom(three, FirstUnusedDescriptor))
        BY <2>2, <3>1, <3>3, <3>5 DEF SpawnActions
      <3> QED
        BY <3>6, <3>7 DEF AfterExec, CloseFrom, Closed, Leads, Descriptors, Stdin, Stdout, Stderr,
                         FirstUnusedDescriptor
    <2> QED
      BY <2>1, <2>2
  <1>4. DOMAIN table = Descriptors /\ table = [d \in Descriptors |-> table[d]]
    BY DEF InheritedHandles, SpawnActions, AfterExec
  <1> QED
    BY <1>0, <1>3, <1>4 DEF OwnStreams, Places, Descriptors, Stdin, Stdout, Stderr, FirstUnusedDescriptor

LEMMA CreateProcessKeeps ==
  ASSUME ProcInv, platform' = platform, NEW p \in Pids, CreateProcess(p)
  PROVE  ProcInv'
  <1> USE ProcAssumption
  <1>1. PICK c \in Children : c = start.of /\ start \in Starts
    BY DEF CreateProcess, ProcInv, ProcTypeOK, Starts
  <1>2. PICK table \in {SpawnActions(start.output), InheritedHandles(start.output)} :
           streams' = [streams EXCEPT ![p] = table]
    BY DEF CreateProcess
  <1>3. table \in [Descriptors -> Places] /\ OwnStreams(table)
        /\ (table[Stdout] = "output" <=> start.output # None)
    BY <1>1, StreamsMade
  <1>4. /\ start.step = Len(StartSteps) /\ proc[p].state = "free"
        /\ proc' = [proc EXCEPT ![p] = [state |-> "running", of |-> c]]
        /\ start' = [start EXCEPT !.step = @ + 1]
        /\ UNCHANGED <<fate, fds, outputFd, held>>
    BY <1>1 DEF CreateProcess
  <1>5. PICK new : /\ child' = [child EXCEPT ![c] = new]
                   /\ new = [NoChild EXCEPT !.pid = p, !.handle = OnWindows]
    BY <1>1 DEF CreateProcess
  <1>a. OnWindows \in BOOLEAN
    BY DEF OnWindows
  <1>b. new = [pid |-> p, hasEnded |-> FALSE, handle |-> OnWindows, result |-> None]
    BY <1>5 DEF NoChild
  <1>c. new \in [pid : Pids \cup {None}, hasEnded : BOOLEAN, handle : BOOLEAN,
                  result : {None, "error"} \cup Ends]
    BY <1>a, <1>b
  <1>d. new.pid = p /\ ~new.hasEnded /\ new.result = None
    BY <1>b
  <1>6. child[c] = NoChild
    BY <1>1, <1>4, StepsOfStart DEF ProcInv, StartOK, ChildOK
  <1>7. ASSUME NEW q \in Pids PROVE proc[q].of # c
    BY <1>6 DEF ProcInv, ProcessOK, NoChild
  <1>8. start' \in Starts /\ start'.of = c /\ start'.output = start.output
        /\ start'.step = Len(StartSteps) + 1
    BY <1>1, <1>4, StepsOfStart DEF Starts
  <1>9. ProcTypeOK'
    BY <1>2, <1>3, <1>4, <1>5, <1>c, <1>8, NewProcesses DEF ProcInv, ProcTypeOK
  <1>10. StartOK'
    <2>1. StartSteps' = StartSteps /\ Released' = Released
      BY StepsOfStart DEF Released, OnLinux
    <2>2. Len(StartSteps) \in 4 .. 6
      BY StepsOfStart, Zenon
    <2>3. start # None /\ start' # None
      BY <1>1, <1>8
    <2>4. ~(start'.step <= Len(StartSteps'))
      BY <1>8, <2>1, <2>2
    <2>5. StartOK
      BY DEF ProcInv
    <2> QED
      BY <1>4, <1>8, <2>1, <2>3, <2>4, <2>5 DEF StartOK
  <1>11. ASSUME NEW k \in Children PROVE ChildOK(k)'
    <2>1. CASE k = c
      <3>1. child'[c] = new /\ proc'[p].of = c
        BY <1>4, <1>5 DEF ProcInv, ProcTypeOK
      <3> QED
        BY <1>d, <2>1, <3>1 DEF ChildOK
    <2>2. CASE k # c
      <3>1. child'[k] = child[k] /\ fate'[k] = fate[k]
        BY <1>4, <1>5, <2>2 DEF ProcInv, ProcTypeOK
      <3>2. child[k].pid # None /\ ~child[k].hasEnded => child[k].pid # p
        BY <1>4, <2>2 DEF ProcInv, ChildOK, ProcessOK
      <3> QED
        BY <1>4, <3>1, <3>2 DEF ProcInv, ProcTypeOK, ChildOK
    <2> QED
      BY <2>1, <2>2
  <1>12. ASSUME NEW q \in Pids PROVE ProcessOK(q)' /\ StreamsOK(q)'
    <2>1. CASE q = p
      <3>1. child'[c] = new /\ proc'[p].of = c /\ proc'[p].state = "running" /\ streams'[p] = table
        BY <1>2, <1>4, <1>5 DEF ProcInv, ProcTypeOK
      <3> QED
        BY <1>3, <1>8, <1>d, <2>1, <3>1 DEF ProcessOK, StreamsOK, OwnStreams
    <2>2. CASE q # p
      <3>1. proc'[q] = proc[q] /\ streams'[q] = streams[q] /\ proc[q].of # c
        BY <1>2, <1>4, <1>7, <2>2 DEF ProcInv, ProcTypeOK
      <3>2. \A k \in Children : k # c => child'[k] = child[k]
        BY <1>5 DEF ProcInv, ProcTypeOK
      <3> QED
        BY <1>4, <1>8, <3>1, <3>2 DEF ProcInv, ProcessOK, StreamsOK, OwnStreams, OnLinux
    <2> QED
      BY <2>1, <2>2
  <1> QED
    BY <1>9, <1>10, <1>11, <1>12 DEF ProcInv

(* A child whose end is reported gives its id back; one that is let go of  *)
(* leaves it to the system.                                                *)
LEMMA TryGetExitKeeps ==
  ASSUME ProcInv, platform' = platform, NEW c \in Children, TryGetExit(c)
  PROVE  ProcInv'
  <1> USE ProcAssumption
  <1>1. PICK p \in Pids : p = child[c].pid /\ ~child[c].hasEnded
    BY DEF TryGetExit, ProcInv, ProcTypeOK
  <1>2. start = None /\ UNCHANGED <<fate, fds, outputFd, streams, start, held>>
    BY DEF TryGetExit
  <1>3. PICK result \in {"error"} \cup Ends :
           /\ child' = [child EXCEPT ![c].hasEnded = TRUE, ![c].handle = FALSE, ![c].result = result]
           /\ result # "error" => proc[p].state = "ended" /\ result = proc[p].how
    <2>1. proc[p].state = "ended" => proc[p].how \in Ends
      BY ProcFields DEF ProcInv, ProcTypeOK
    <2> QED
      BY <1>1, <2>1 DEF TryGetExit, TryGetExitLinux, TryGetExitWindows, Ended
  <1>4. PICK new : /\ child' = [child EXCEPT ![c] = new]
                   /\ new \in [pid : Pids \cup {None}, hasEnded : BOOLEAN, handle : BOOLEAN,
                              result : {None, "error"} \cup Ends]
                   /\ new.pid = p /\ new.hasEnded = TRUE /\ new.handle = FALSE /\ new.result = result
    <2>1. PICK old : old = child[c] /\ old \in [pid : Pids \cup {None}, hasEnded : BOOLEAN,
                            handle : BOOLEAN, result : {None, "error"} \cup Ends]
      BY DEF ProcInv, ProcTypeOK
    <2>2. PICK new : new = [old EXCEPT !.hasEnded = TRUE, !.handle = FALSE, !.result = result]
      OBVIOUS
    <2>3. child' = [child EXCEPT ![c] = new]
      BY <1>3, <2>1, <2>2 DEF ProcInv, ProcTypeOK
    <2>4. new.pid = p
      BY <1>1, <2>1, <2>2
    <2>5. new.hasEnded = TRUE
      BY <2>1, <2>2
    <2>6. new.handle = FALSE
      BY <2>1, <2>2
    <2>7. new.result = result
      BY <2>1, <2>2
    <2>8. new \in [pid : Pids \cup {None}, hasEnded : BOOLEAN, handle : BOOLEAN,
                    result : {None, "error"} \cup Ends]
      BY <2>1, <2>2
    <2> QED
      BY <2>3, <2>4, <2>5, <2>6, <2>7, <2>8
  <1>a. PICK r \in ProcStates :
           /\ proc' = [proc EXCEPT ![p] = r]
           /\ \/ r = proc[p] /\ r.state = "taken"
              \/ r.of \notin Children /\ r.state # "taken" /\ proc[p].state # "taken"
    <2>1. CASE OnLinux
      BY <1>1, <2>1, NewProcesses
      DEF TryGetExit, TryGetExitLinux, ProcInv, ProcTypeOK, FreePid
    <2>2. CASE ~OnLinux
      <3>1. proc[p] \in ProcStates /\ proc[p].state # "taken" /\ proc' = CloseProcess(p)
        BY <1>1, <2>2 DEF TryGetExit, TryGetExitWindows, ProcInv, ProcTypeOK, ProcessOK
      <3>2. CASE proc[p].state = "running"
        <4>1. proc' = [proc EXCEPT ![p] = [proc[p] EXCEPT !.of = Orphan]]
          BY <3>1, <3>2 DEF CloseProcess
        <4> QED
          BY <3>1, <3>2, <4>1, ProcFields
      <3>3. CASE proc[p].state # "running"
        BY <3>1, <3>3, NewProcesses DEF CloseProcess, FreePid
      <3> QED
        BY <3>2, <3>3
    <2> QED
      BY <2>1, <2>2
  <1>5. /\ \A q \in Pids : q # p => proc'[q] = proc[q]
        /\ proc'[p].of \notin Children
        /\ proc'[p].state = "taken" => proc[p].state = "taken"
        /\ proc[p].state = "taken" => proc'[p] = proc[p]
        /\ proc' \in [Pids -> ProcStates]
    <2>1. proc'[p] = r
      BY <1>a DEF ProcInv, ProcTypeOK
    <2>2. proc[p].state = "taken" => proc[p].of \notin Children
      BY DEF ProcInv, ProcessOK
    <2> QED
      BY <1>a, <2>1, <2>2 DEF ProcInv, ProcTypeOK
  <1>6. ProcTypeOK'
    BY <1>1, <1>2, <1>4, <1>5 DEF ProcInv, ProcTypeOK
  <1>7. StartOK'
    BY <1>2 DEF ProcInv, StartOK
  <1>8. ASSUME NEW k \in Children PROVE ChildOK(k)'
    <2>1. CASE k = c
      <3>1. child'[c] = new
        BY <1>4 DEF ProcInv, ProcTypeOK
      <3>2. result # "error" => result = fate[c]
        BY <1>1, <1>3 DEF ProcInv, ChildOK, ProcessOK
      <3> QED
        BY <1>2, <1>4, <2>1, <3>1, <3>2 DEF ChildOK
    <2>2. CASE k # c
      <3>1. child'[k] = child[k] /\ fate'[k] = fate[k]
        BY <1>2, <1>4, <2>2 DEF ProcInv, ProcTypeOK
      <3>2. child[k].pid = p /\ ~child[k].hasEnded => proc[p].state = "taken"
        BY <1>1, <2>2 DEF ProcInv, ChildOK
      <3> QED
        BY <1>5, <3>1, <3>2 DEF ProcInv, ProcTypeOK, ChildOK
    <2> QED
      BY <2>1, <2>2
  <1>9. ASSUME NEW q \in Pids PROVE ProcessOK(q)' /\ StreamsOK(q)'
    <2>1. CASE q = p
      BY <1>5, <2>1 DEF ProcInv, ProcessOK, StreamsOK, OnLinux
    <2>2. CASE q # p
      <3>1. proc'[q] = proc[q]
        BY <1>5, <2>2
      <3>2. proc[q].of # c
        BY <1>1, <2>2 DEF ProcInv, ProcessOK
      <3>3. \A k \in Children : k # c => child'[k] = child[k]
        BY <1>4 DEF ProcInv, ProcTypeOK
      <3> QED
        BY <1>2, <3>1, <3>2, <3>3 DEF ProcInv, ProcessOK, StreamsOK, OwnStreams, OnLinux
    <2> QED
      BY <2>1, <2>2
  <1> QED
    BY <1>6, <1>7, <1>8, <1>9 DEF ProcInv

LEMMA TerminateKeeps ==
  ASSUME ProcInv, platform' = platform, NEW c \in Children, TerminateChild(c)
  PROVE  ProcInv'
  <1> USE ProcAssumption
  <1>1. PICK p \in Pids : p = child[c].pid
    BY DEF TerminateChild, ProcInv, ProcTypeOK
  <1>2. /\ start = None /\ UNCHANGED <<fate, fds, outputFd, streams, start, held>>
        /\ child' = [child EXCEPT ![c] = NoChild]
    BY DEF TerminateChild
  <1>3. PICK r \in ProcStates :
           /\ proc' = [proc EXCEPT ![p] = r]
           /\ r = proc[p] \/ r.of \notin Children
           /\ r.of # c /\ (r.state = "taken" <=> proc[p].state = "taken")
    <2>0. proc[p] \in ProcStates /\ proc \in [Pids -> ProcStates]
      BY DEF ProcInv, ProcTypeOK
    <2>1. CASE child[c].hasEnded
      <3>1. proc' = proc /\ proc = [proc EXCEPT ![p] = proc[p]]
        BY <2>0, <2>1 DEF TerminateChild
      <3>2. proc[p].of # c
        BY <2>1 DEF ProcInv, ProcessOK
      <3> QED
        BY <2>0, <3>1, <3>2
    <2>2. CASE ~child[c].hasEnded /\ (OnWindows => proc[p].state = "running")
      <3>1. proc' = [proc EXCEPT ![p].of = Orphan]
        BY <1>1, <2>2 DEF TerminateChild, CloseProcess
      <3>2. proc' = [proc EXCEPT ![p] = [proc[p] EXCEPT !.of = Orphan]]
        BY <3>1
      <3>3. PICK r \in ProcStates : r = [proc[p] EXCEPT !.of = Orphan] /\ r.of = Orphan
                                   /\ r.state = proc[p].state
        BY <2>0, ProcFields
      <3>4. proc' = [proc EXCEPT ![p] = r] /\ r.of \notin Children
        BY <3>2, <3>3
      <3> QED
        BY <3>3, <3>4
    <2>3. CASE ~child[c].hasEnded /\ OnWindows /\ proc[p].state # "running"
      <3>1. proc' = [proc EXCEPT ![p] = FreePid]
        BY <1>1, <2>3 DEF TerminateChild, CloseProcess
      <3>2. proc[p].state # "taken"
        BY <2>3 DEF ProcInv, ProcessOK, OnLinux, OnWindows
      <3> QED
        BY <3>1, <3>2, NewProcesses DEF FreePid
    <2> QED
      BY <2>1, <2>2, <2>3
  <1>4. proc'[p] = r /\ \A q \in Pids : q # p => proc'[q] = proc[q]
    BY <1>3 DEF ProcInv, ProcTypeOK
  <1>5. child'[c] = NoChild /\ \A k \in Children : k # c => child'[k] = child[k]
    BY <1>2 DEF ProcInv, ProcTypeOK
  <1>6. ProcTypeOK'
    <2>1. NoChild \in [pid : Pids \cup {None}, hasEnded : BOOLEAN, handle : BOOLEAN,
                        result : {None, "error"} \cup Ends]
      BY DEF NoChild
    <2> QED
      BY <1>2, <1>3, <2>1 DEF ProcInv, ProcTypeOK
  <1>7. StartOK'
    BY <1>2 DEF ProcInv, StartOK
  <1>8. ASSUME NEW k \in Children PROVE ChildOK(k)'
    <2>1. CASE k = c
      BY <1>5, <2>1 DEF ChildOK, NoChild
    <2>2. CASE k # c
      <3>1. child[k].pid = p /\ ~child[k].hasEnded => proc[p].of = k \/ proc[p].state = "taken"
        BY DEF ProcInv, ChildOK
      <3>2. proc[p].of = k => r = proc[p]
        <4>1. proc[p].of = k => child[k].pid = p /\ ~child[k].hasEnded
          BY DEF ProcInv, ProcessOK
        <4>2. proc[p].of = k => child[c].hasEnded
          BY <1>1, <2>2 DEF ProcInv, ChildOK, ProcessOK
        <4>3. child[c].hasEnded => proc' = proc
          BY DEF TerminateChild
        <4> QED
          BY <1>4, <4>2, <4>3
      <3> QED
        BY <1>2, <1>3, <1>4, <1>5, <2>2, <3>1, <3>2 DEF ProcInv, ProcTypeOK, ChildOK
    <2> QED
      BY <2>1, <2>2
  <1>9. ASSUME NEW q \in Pids PROVE ProcessOK(q)' /\ StreamsOK(q)'
    <2>1. CASE q = p
      BY <1>2, <1>3, <1>4, <1>5, <2>1 DEF ProcInv, ProcessOK, StreamsOK, OwnStreams, OnLinux
    <2>2. CASE q # p
      <3>1. proc[q].of # c
        BY <1>1, <2>2 DEF ProcInv, ProcessOK
      <3> QED
        BY <1>2, <1>4, <1>5, <2>2, <3>1 DEF ProcInv, ProcessOK, StreamsOK, OwnStreams, OnLinux
    <2> QED
      BY <2>1, <2>2
  <1> QED
    BY <1>6, <1>7, <1>8, <1>9 DEF ProcInv

LEMMA ProcessEndsKeeps ==
  ASSUME ProcInv, platform' = platform, NEW p \in Pids, NEW how \in Ends, ProcessEnds(p, how)
  PROVE  ProcInv'
  <1> USE ProcAssumption
  <1>1. /\ proc[p].state = "running"
        /\ fate' = [c \in Children |-> IF proc[p].of = c THEN how ELSE fate[c]]
        /\ streams' = [streams EXCEPT ![p] = NoStreams]
        /\ UNCHANGED <<child, fds, outputFd, start, held>>
    BY DEF ProcessEnds
  <1>2. PICK r \in ProcStates :
           /\ proc' = [proc EXCEPT ![p] = r]
           /\ \/ r = FreePid /\ proc[p].of = Orphan
              \/ r = [state |-> "ended", of |-> proc[p].of, how |-> how]
    <2>1. proc[p].of \in Children \cup {None, Other, Orphan}
      BY DEF ProcInv, ProcTypeOK, ProcStates
    <2> QED
      BY <2>1, NewProcesses DEF ProcessEnds
  <1>3. proc'[p] = r /\ \A q \in Pids : q # p => proc'[q] = proc[q]
    BY <1>2 DEF ProcInv, ProcTypeOK
  <1>4. r.state # "running" /\ r.state # "taken"
        /\ (proc[p].of \in Children => r.of = proc[p].of /\ r.how = how /\ r.state = "ended")
        /\ (proc[p].of \notin Children => r.of \notin Children)
    BY <1>2 DEF FreePid
  <1>5. ProcTypeOK'
    <2>1. NoStreams \in [Descriptors -> Places]
      BY DEF NoStreams, Places
    <2> QED
      BY <1>1, <1>2, <2>1 DEF ProcInv, ProcTypeOK
  <1>6. StartOK'
    <2>1. StartSteps' = StartSteps /\ Released' = Released
      BY StepsOfStart DEF Released, OnLinux
    <2> QED
      BY <1>1, <2>1 DEF ProcInv, StartOK
  <1>7. ASSUME NEW k \in Children PROVE ChildOK(k)'
    <2>1. proc[p].of = k => child[k].result = None
      BY DEF ProcInv, ProcessOK, ChildOK
    <2>2. child[k].pid = p /\ ~child[k].hasEnded => proc[p].of = k
      BY <1>1 DEF ProcInv, ChildOK
    <2> QED
      BY <1>1, <1>3, <1>4, <2>1, <2>2 DEF ProcInv, ProcTypeOK, ChildOK
  <1>8. ASSUME NEW q \in Pids PROVE ProcessOK(q)' /\ StreamsOK(q)'
    <2>1. CASE q = p
      BY <1>1, <1>3, <1>4, <2>1 DEF ProcInv, ProcessOK, StreamsOK
    <2>2. CASE q # p
      <3>1. proc[q].of \in Children => proc[q].of # proc[p].of
        BY <2>2 DEF ProcInv, ProcessOK
      <3>2. streams'[q] = streams[q]
        BY <1>1, <2>2 DEF ProcInv, ProcTypeOK
      <3> QED
        BY <1>1, <1>3, <2>2, <3>1, <3>2 DEF ProcInv, ProcessOK, StreamsOK, OwnStreams, OnLinux
    <2> QED
      BY <2>1, <2>2
  <1> QED
    BY <1>5, <1>6, <1>7, <1>8 DEF ProcInv

(* Other code's processes come and go by ids that are no child's.          *)
LEMMA OthersKeep ==
  ASSUME ProcInv, platform' = platform, NEW p \in Pids,
         OtherStarts(p) \/ OtherReaps(p) \/ OtherTakes(p)
  PROVE  ProcInv'
  <1> USE ProcAssumption
  <1>1. UNCHANGED <<fate, child, fds, outputFd, streams, start, held>>
    BY DEF OtherStarts, OtherReaps, OtherTakes
  <1>2. PICK r \in ProcStates :
           /\ proc' = [proc EXCEPT ![p] = r]
           /\ r.of \notin Children
           /\ r.state = "taken" => OnLinux
           /\ proc[p].state = "free" \/ proc[p].of = Other \/ r.state = "taken"
           /\ proc[p].state # "taken"
    <2>1. CASE OtherStarts(p)
      <3>1. PICK r \in ProcStates : r = [state |-> "running", of |-> Other]
        BY NewProcesses
      <3> QED
        BY <2>1, <3>1 DEF OtherStarts
    <2>2. CASE OtherReaps(p)
      <3>1. FreePid \in ProcStates /\ FreePid.of = None /\ FreePid.state = "free"
        BY NewProcesses DEF FreePid
      <3> QED
        BY <2>2, <3>1 DEF OtherReaps
    <2>3. CASE OtherTakes(p)
      <3>1. PICK r \in ProcStates : r = [state |-> "taken", of |-> Other]
        BY NewProcesses
      <3> QED
        BY <2>3, <3>1 DEF OtherTakes
    <2> QED
      BY <2>1, <2>2, <2>3
  <1>3. proc'[p] = r /\ \A q \in Pids : q # p => proc'[q] = proc[q]
    BY <1>2 DEF ProcInv, ProcTypeOK
  <1>4. ProcTypeOK'
    BY <1>1, <1>2 DEF ProcInv, ProcTypeOK
  <1>5. StartOK'
    <2>1. StartSteps' = StartSteps /\ Released' = Released
      BY StepsOfStart DEF Released, OnLinux
    <2> QED
      BY <1>1, <2>1 DEF ProcInv, StartOK
  <1>6. ASSUME NEW k \in Children PROVE ChildOK(k)'
    <2>1. child[k].pid = p /\ ~child[k].hasEnded => r.state = "taken"
      BY <1>2 DEF ProcInv, ChildOK, ProcessOK
    <2> QED
      BY <1>1, <1>3, <2>1 DEF ProcInv, ProcTypeOK, ChildOK
  <1>7. ASSUME NEW q \in Pids PROVE ProcessOK(q)' /\ StreamsOK(q)'
    <2>1. CASE q = p
      BY <1>2, <1>3, <2>1 DEF ProcessOK, StreamsOK, OnLinux
    <2>2. CASE q # p
      BY <1>1, <1>3, <2>2 DEF ProcInv, ProcessOK, StreamsOK, OwnStreams, OnLinux
    <2> QED
      BY <2>1, <2>2
  <1> QED
    BY <1>4, <1>5, <1>6, <1>7 DEF ProcInv

LEMMA ProcInitInv == ProcInit => ProcInv
  <1> SUFFICES ASSUME ProcInit PROVE ProcInv
    OBVIOUS
  <1> USE ProcAssumption
  <1>1. ProcTypeOK
    <2>1. proc \in [Pids -> ProcStates]
      BY NewProcesses DEF ProcInit
    <2>2. child \in [Children -> [pid : Pids \cup {None}, hasEnded : BOOLEAN, handle : BOOLEAN,
                                  result : {None, "error"} \cup Ends]]
      BY DEF ProcInit, NoChild
    <2>3. streams \in [Pids -> [Descriptors -> Places]]
      BY DEF ProcInit, NoStreams, Places
    <2> QED
      BY <2>1, <2>2, <2>3 DEF ProcInit, ProcTypeOK
  <1>2. StartOK
    <2>1. fds \in Tables /\ fds[4] = Closed
      BY DEF ProcInit, Tables, Places, Leads, Closed, Descriptors, Stdin, Stdout, Stderr,
             FirstUnusedDescriptor
    <2> QED
      BY <2>1 DEF ProcInit, StartOK
  <1>3. ASSUME NEW c \in Children PROVE ChildOK(c)
    BY DEF ProcInit, ChildOK, NoChild
  <1>4. ASSUME NEW p \in Pids PROVE ProcessOK(p) /\ StreamsOK(p)
    BY DEF ProcInit, ProcessOK, StreamsOK, FreePid
  <1> QED
    BY <1>1, <1>2, <1>3, <1>4 DEF ProcInv

LEMMA ProcNextInv ==
  ASSUME ProcInv, platform' = platform, ProcNext \/ UNCHANGED procVars
  PROVE  ProcInv'
  <1>1. CASE ProcNext
    BY <1>1, OutputKeeps, TryGetExitKeeps, TerminateKeeps, StartBegins, StartGoesOn,
       CreateProcessKeeps, OthersKeep, ProcessEndsKeeps DEF ProcNext, Ends
  <1>2. CASE UNCHANGED procVars
    <2>1. StartOK'
      <3>1. StartSteps' = StartSteps /\ Released' = Released
        BY StepsOfStart DEF Released, OnLinux
      <3> QED
        BY <1>2, <3>1 DEF procVars, ProcInv, StartOK
    <2>2. ProcTypeOK' /\ \A c \in Children : ChildOK(c)'
      BY <1>2 DEF procVars, ProcInv, ProcTypeOK, ChildOK
    <2>3. \A p \in Pids : ProcessOK(p)' /\ StreamsOK(p)'
      BY <1>2 DEF procVars, ProcInv, ProcessOK, StreamsOK, OwnStreams, OnLinux
    <2> QED
      BY <2>1, <2>2, <2>3 DEF ProcInv
  <1> QED
    BY <1>1, <1>2

-----------------------------------------------------------------------------
(***************************************************************************)
(* PrepareConsole and RestoreConsole: what is saved is what was found.     *)
(***************************************************************************)
CodePages == {0, 437, Utf8}
ConsoleInv ==
    /\ attached \in [ConsoleOutputs -> Consoles \cup {None}]
    /\ consoleModes \in [Consoles -> Modes] /\ codePage \in CodePages
    /\ logIsUp \in BOOLEAN
    /\ foundConsole \in [Consoles -> Modes] \X CodePages
    /\ savedModes = [i \in ConsoleOutputs |->
                        IF ~logIsUp \/ attached[i] = None THEN None ELSE foundConsole[1][attached[i]]]
    /\ savedCodePage = IF logIsUp THEN foundConsole[2] ELSE 0
    /\ ~logIsUp => foundConsole = <<consoleModes, codePage>>
    /\ logIsUp /\ foundConsole[2] = 0 => codePage = 0
    /\ logIsUp => \A c \in Consoles : (\A i \in ConsoleOutputs : attached[i] # c) =>
                                         consoleModes[c] = foundConsole[1][c]

LEMMA PrepareKeeps ==
  ASSUME ConsoleInv, PrepareConsole
  PROVE  ConsoleInv'
  <1> USE ConsoleAssumption
  <1>1. PICK modes \in [Consoles -> Modes], page \in CodePages : foundConsole' = <<modes, page>>
    BY DEF ConsoleInv, PrepareConsole
  <1>2. /\ logIsUp' = TRUE /\ attached' = attached
        /\ attached \in [ConsoleOutputs -> Consoles \cup {None}]
        /\ consoleModes \in [Consoles -> Modes] /\ codePage \in CodePages
    BY DEF ConsoleInv, PrepareConsole
  <1>3. savedCodePage' = page
    <2>1. CASE logIsUp
      BY <1>1, <2>1 DEF ConsoleInv, PrepareConsole
    <2>2. CASE ~logIsUp
      BY <1>1, <2>2 DEF ConsoleInv, PrepareConsole
    <2> QED
      BY <2>1, <2>2
  <1>4. \A i \in ConsoleOutputs :
           savedModes'[i] = IF attached[i] = None THEN None ELSE modes[attached[i]]
    <2>1. CASE logIsUp
      <3>1. foundConsole = <<modes, page>>
        BY <1>1, <2>1 DEF PrepareConsole
      <3>2. \A i \in ConsoleOutputs : savedModes[i] = IF attached[i] = None THEN None ELSE modes[attached[i]]
        BY <2>1, <3>1 DEF ConsoleInv
      <3> QED
        BY <1>2, <3>2 DEF PrepareConsole, ModeOf
    <2>2. CASE ~logIsUp
      <3>1. foundConsole' = <<consoleModes, codePage>>
        BY <2>2 DEF PrepareConsole
      <3>2. \A i \in ConsoleOutputs : savedModes[i] = None
        BY <2>2 DEF ConsoleInv
      <3> QED
        BY <1>1, <1>2, <3>1, <3>2 DEF PrepareConsole, ModeOf
    <2> QED
      BY <2>1, <2>2
  <1>5. savedModes' = [i \in ConsoleOutputs |-> IF attached[i] = None THEN None ELSE modes[attached[i]]]
    BY <1>4 DEF PrepareConsole
  <1>6. consoleModes' \in [Consoles -> Modes] /\ codePage' \in CodePages
    BY <1>2 DEF PrepareConsole, Modes, CodePages
  <1>7. page = 0 => codePage' = 0
    <2>1. CASE logIsUp
      BY <1>1, <1>3, <2>1 DEF ConsoleInv, PrepareConsole
    <2>2. CASE ~logIsUp
      BY <1>1, <1>3, <2>2 DEF ConsoleInv, PrepareConsole
    <2> QED
      BY <2>1, <2>2
  <1>8. ASSUME NEW c \in Consoles, \A i \in ConsoleOutputs : attached[i] # c
        PROVE  consoleModes'[c] = modes[c]
    <2>1. consoleModes'[c] = consoleModes[c]
      BY <1>8 DEF PrepareConsole
    <2>2. CASE logIsUp
      BY <1>1, <1>8, <2>1, <2>2 DEF ConsoleInv, PrepareConsole
    <2>3. CASE ~logIsUp
      BY <1>1, <2>1, <2>3 DEF ConsoleInv, PrepareConsole
    <2> QED
      BY <2>2, <2>3
  <1> QED
    BY <1>1, <1>2, <1>3, <1>5, <1>6, <1>7, <1>8 DEF ConsoleInv

LEMMA RestoreKeeps ==
  ASSUME ConsoleInv, RestoreConsole
  PROVE  ConsoleInv'
  <1> USE ConsoleAssumption
  <1>1. PICK modes \in [Consoles -> Modes], page \in CodePages : foundConsole = <<modes, page>>
    BY DEF ConsoleInv
  <1>2. /\ logIsUp' = FALSE /\ attached' = attached /\ foundConsole' = foundConsole
        /\ attached \in [ConsoleOutputs -> Consoles \cup {None}]
        /\ savedModes' = [i \in ConsoleOutputs |-> None] /\ savedCodePage' = 0
    BY DEF ConsoleInv, RestoreConsole
  <1>3. codePage' = page
    <2>1. CASE logIsUp
      BY <1>1, <2>1 DEF ConsoleInv, RestoreConsole
    <2>2. CASE ~logIsUp
      BY <1>1, <2>2 DEF ConsoleInv, RestoreConsole
    <2> QED
      BY <2>1, <2>2
  <1>4. ASSUME NEW c \in Consoles PROVE consoleModes'[c] = modes[c]
    <2> DEFINE given == {i \in ConsoleOutputs : attached[i] = c /\ savedModes[i] # None}
    <2>1. CASE given = {}
      <3>1. consoleModes'[c] = consoleModes[c]
        BY <2>1 DEF RestoreConsole
      <3>2. CASE ~logIsUp
        BY <1>1, <3>1, <3>2 DEF ConsoleInv
      <3>3. CASE logIsUp
        <4>1. \A i \in ConsoleOutputs : attached[i] # c
          <5>1. SUFFICES ASSUME NEW i \in ConsoleOutputs, attached[i] = c PROVE FALSE
            OBVIOUS
          <5>2. savedModes[i] = modes[c] /\ modes[c] # None
            BY <1>1, <3>3, <5>1 DEF ConsoleInv
          <5> QED
            BY <2>1, <5>1, <5>2
        <4> QED
          BY <1>1, <3>1, <3>3, <4>1 DEF ConsoleInv
      <3> QED
        BY <3>2, <3>3
    <2>2. CASE given # {}
      <3>1. logIsUp
        BY <2>2 DEF ConsoleInv
      <3>2. \E i \in given : \A j \in given : j <= i
        BY <2>2 DEF ConsoleOutputs
      <3>3. PICK i \in given : consoleModes'[c] = savedModes[i]
        BY <2>2, <3>2 DEF RestoreConsole
      <3> QED
        BY <1>1, <3>1, <3>3 DEF ConsoleInv
    <2> QED
      BY <2>1, <2>2
  <1>5. consoleModes' = modes
    BY <1>4 DEF RestoreConsole
  <1> QED
    BY <1>1, <1>2, <1>3, <1>5 DEF ConsoleInv

LEMMA ConsoleInitInv == ConsoleInit => ConsoleInv
  <1> SUFFICES ASSUME ConsoleInit PROVE ConsoleInv
    OBVIOUS
  <1>1. logIsUp = FALSE /\ ~logIsUp
    BY DEF ConsoleInit
  <1>2. /\ attached \in [ConsoleOutputs -> Consoles \cup {None}]
        /\ consoleModes \in [Consoles -> Modes] /\ codePage \in CodePages
        /\ foundConsole = <<consoleModes, codePage>>
        /\ savedModes = [i \in ConsoleOutputs |-> None] /\ savedCodePage = 0
    BY DEF ConsoleInit, CodePages
  <1> QED
    BY <1>1, <1>2 DEF ConsoleInv

LEMMA ConsoleNextInv ==
  ASSUME ConsoleInv, ConsoleNext \/ UNCHANGED consoleVars
  PROVE  ConsoleInv'
  <1>1. CASE UserChangesConsole
    <2>1. ~logIsUp' /\ ~logIsUp /\ UNCHANGED <<attached, savedModes, savedCodePage>>
      BY <1>1 DEF UserChangesConsole
    <2>2. /\ consoleModes' \in [Consoles -> Modes] /\ codePage' \in CodePages
          /\ foundConsole' = <<consoleModes', codePage'>>
      BY <1>1 DEF UserChangesConsole, ConsoleInv, CodePages
    <2>3. logIsUp' = FALSE
      BY <1>1 DEF UserChangesConsole, ConsoleInv
    <2> QED
      BY <2>1, <2>2, <2>3 DEF ConsoleInv
  <1>2. CASE UNCHANGED consoleVars
    BY <1>2 DEF consoleVars, ConsoleInv
  <1> QED
    BY <1>1, <1>2, PrepareKeeps, RestoreKeeps DEF ConsoleNext
-----------------------------------------------------------------------------
(***************************************************************************)
(* The calls of Windows' certificates: the handles a call holds, and the   *)
(* error it will return.                                                   *)
(***************************************************************************)
CertFields == {"op", "pc", "found", "unread", "next", "result"}

CertInv ==
    /\ DOMAIN certCall = CertFields
    /\ certCall.pc \in {"idle", "returned", "openStore"} => handles = {}
    /\ certCall.pc = "idle" => certCall.result = None /\ firstError = None
    /\ certCall.pc \in {"openStore", "add", "policy"} => firstError = None
    /\ certCall.pc = "createContext" /\ "sent" \in handles => firstError = None
    /\ certCall.pc = "createContext" /\ "sent" \notin handles => firstError = "CertOpenStore"
    /\ certCall.pc \in {"openStore", "createContext", "add", "policy", "free"} =>
          certCall.result = firstError
    /\ certCall.pc \in {"enumerate", "askUsage", "readUsage", "closeRoots"} => certCall.op = "roots"
    /\ VerdictIsOfItsCall

LEMMA CertInitInv == CertInit => CertInv
  BY DEF CertInit, CertInv, NoCall, CertFields, VerdictIsOfItsCall

LEMMA CertNextInv ==
  ASSUME CertInv, CertNext \/ UNCHANGED certVars
  PROVE  CertInv'
  <1> USE CertAssumption DEF CertInv, CertFields, VerdictIsOfItsCall
  <1>1. CASE ReadSystemRootCertificates
    <2>1. CASE OnLinux
      BY <1>1, <2>1 DEF ReadSystemRootCertificates, CertReturn, NoCall
    <2>2. CASE ~OnLinux
      BY <1>1, <2>2 DEF ReadSystemRootCertificates, Tries, Succeeds, Fails, At, Failed
    <2> QED
      BY <2>1, <2>2
  <1>2. CASE CertEnumCertificatesInStore
    BY <1>2 DEF CertEnumCertificatesInStore
  <1>3. CASE AskUsage \/ ReadUsage
    BY <1>3 DEF AskUsage, ReadUsage, Tries, At, Unread
  <1>4. CASE CloseRoots
    BY <1>4 DEF CloseRoots, At
  <1>5. ASSUME NEW numSent \in 0 .. 2, VerifyServerChain(numSent) PROVE CertInv'
    <2>1. CASE OnLinux \/ numSent = 0
      <3>1. PICK error \in {"not_supported", "invalid_argument"} :
               certCall' = [op |-> "verify", pc |-> "returned", found |-> <<>>, unread |-> {},
                            next |-> 0, result |-> error]
        BY <1>5, <2>1 DEF VerifyServerChain, CertReturn, NoCall
      <3>2. certCall.pc = "idle" /\ UNCHANGED <<handles, firstError>>
        BY <1>5 DEF VerifyServerChain
      <3> QED
        BY <3>1, <3>2
    <2>2. CASE ~(OnLinux \/ numSent = 0)
      BY <1>5, <2>2 DEF VerifyServerChain
    <2> QED
      BY <2>1, <2>2
  <1>6. CASE CertOpenStore
    BY <1>6 DEF CertOpenStore, Tries, Succeeds, Fails, At, Failed
  <1>7. CASE CertCreateCertificateContext
    BY <1>7 DEF CertCreateCertificateContext, Tries, Succeeds, Fails, At, Failed
  <1>8. CASE CertAddEncodedCertificateToStore
    BY <1>8 DEF CertAddEncodedCertificateToStore
  <1>9. CASE CertGetCertificateChain
    BY <1>9 DEF CertGetCertificateChain, Tries, Succeeds, Fails, At, Failed
  <1>10. CASE CheckServerPolicy
    BY <1>10 DEF CheckServerPolicy, Tries, Succeeds, Fails, At, Failed
  <1>11. CASE FreeHandle
    BY <1>11 DEF FreeHandle, Succeeds
  <1>12. CASE UNCHANGED certVars
    BY <1>12 DEF certVars
  <1> QED
    BY <1>1, <1>2, <1>3, <1>4, <1>5, <1>6, <1>7, <1>8, <1>9, <1>10, <1>11, <1>12 DEF CertNext
-----------------------------------------------------------------------------
(***************************************************************************)
(* The sockets: who holds each, and what the client was told of its        *)
(* connection.                                                             *)
(***************************************************************************)
LiveSockets ==
    [state : {"new", "bound", "listening", "connecting", "connected", "failed"},
     isBlocking : BOOLEAN, isInheritable : BOOLEAN, error : BOOLEAN, isTaken : BOOLEAN,
     inbox : {"empty", "bytes", "closed"}]

SaidStates ==
    [what : {"nothing", "pending", "error", "connected", "bytes", "closed", "would_block",
             "not_connected"},
     state : {"new", "bound", "listening", "connecting", "connected", "failed"},
     isTaken : BOOLEAN]

\* A failed connect's error is there or was read.
SettledOK(r) == r.state = "failed" => r.error \/ r.isTaken

NetTypeOK ==
    /\ sock \in [NetSockets -> {NoSocket} \cup LiveSockets]
    /\ owned \in [Objects -> NetSockets \cup {None}]
    /\ said \in SaidStates
    /\ backlog \in BOOLEAN

\* An object's socket is open, private and no other object's.
OwnedOK ==
    /\ \A o \in Objects : owned[o] # None =>
          sock[owned[o]] \in LiveSockets /\ ~sock[owned[o]].isInheritable
    /\ \A o, p \in Objects : owned[o] = owned[p] /\ owned[o] # None => o = p

\* Initialize of o before its step i, with the socket s that step 1 opened.
InitAt(o, i, s) ==
    /\ netCall = [what |-> "init", object |-> o, step |-> i, socket |-> s]
    /\ owned[o] = None /\ i <= Len(InitSteps(o))
    /\ i = 1 <=> s = None
    /\ s # None => /\ sock[s] \in LiveSockets
                   /\ sock[s].isInheritable => InitSteps(o)[i] = "uninherit"
                   /\ \A p \in Objects : owned[p] # s

AskSteps == {"pollError", "receivePoll", "receiveError"}
AskAt(w) ==
    /\ netCall = [what |-> w, object |-> "client"]
    /\ owned["client"] # None /\ said.what \notin {"nothing", "error"}

CallOK ==
    \/ netCall = None
    \/ \E o \in Objects, i \in 1 .. 4, s \in NetSockets \cup {None} : InitAt(o, i, s)
    \/ \E w \in AskSteps : AskAt(w)

SocketOK(s) ==
    /\ SettledOK(sock[s])
    /\ sock[s] # NoSocket => \/ \E o \in Objects : owned[o] = s
                             \/ netCall # None /\ netCall.what = "init" /\ netCall.socket = s

SaidOK ==
    /\ FailedConnectIsReported
    /\ owned["client"] = None => said.what = "nothing"
    /\ said.what \notin {"nothing", "error"} => Client.state # "new"

NetInv == NetTypeOK /\ OwnedOK /\ CallOK /\ SaidOK /\ \A s \in NetSockets : SocketOK(s)

LEMMA StepsOfInit ==
  ASSUME platform' = platform, NEW o \in Objects
  PROVE  /\ InitSteps(o)' = InitSteps(o)
         /\ Len(InitSteps(o)) \in 1 .. 4
         /\ InitSteps(o)[1] \in {"open", "accept"}
         /\ \A i \in 2 .. Len(InitSteps(o)) : InitSteps(o)[i] \notin {"open", "accept"}
         /\ InitSteps(o)[1] = "accept" /\ OnWindows =>
               Len(InitSteps(o)) >= 2 /\ InitSteps(o)[2] = "uninherit"
  <1>1. CASE OnLinux
    <2>1. ~OnWindows
      BY <1>1 DEF OnLinux, OnWindows
    <2> QED
      BY <1>1, <2>1 DEF InitSteps, OnLinux
  <1>2. CASE ~OnLinux
    <2>1. InitSteps(o)' = InitSteps(o)
      BY DEF InitSteps, OnLinux
    <2>2. CASE o = "server"
      BY <1>2, <2>1, <2>2 DEF InitSteps
    <2>3. CASE o = "client"
      BY <1>2, <2>1, <2>3 DEF InitSteps
    <2>4. CASE o = "listener"
      BY <1>2, <2>1, <2>4 DEF InitSteps
    <2>5. CASE o = "udp"
      BY <1>2, <2>1, <2>5 DEF InitSteps
    <2> QED
      BY <2>2, <2>3, <2>4, <2>5 DEF Objects
  <1> QED
    BY <1>1, <1>2

LEMMA NoSocketIsFree ==
  /\ NoSocket \notin LiveSockets
  /\ \A r \in LiveSockets : r.state # "free"
  /\ NoSocket.state = "free"
  BY DEF NoSocket, LiveSockets

(* What is known of an object's socket.                                    *)
LEMMA OwnedSocket ==
  ASSUME NetInv, NEW o \in Objects, owned[o] # None
  PROVE  /\ owned[o] \in NetSockets /\ sock[owned[o]] \in LiveSockets
         /\ SettledOK(sock[owned[o]]) /\ ~sock[owned[o]].isInheritable
  <1>1. owned[o] \in NetSockets
    BY DEF NetInv, NetTypeOK
  <1> QED
    BY <1>1 DEF NetInv, OwnedOK, SocketOK

(* A socket that is open changes and stays open.                           *)
LEMMA SocketStep ==
  ASSUME NetInv, platform' = platform, owned' = owned,
         NEW s \in NetSockets, sock[s] \in LiveSockets,
         NEW r \in LiveSockets, SettledOK(r), r.isInheritable = sock[s].isInheritable,
         sock' = [sock EXCEPT ![s] = r]
  PROVE  /\ sock' \in [NetSockets -> {NoSocket} \cup LiveSockets]
         /\ OwnedOK'
         /\ \A k \in NetSockets : /\ SettledOK(sock'[k])
                                  /\ sock'[k] # NoSocket => sock[k] # NoSocket
         /\ \A o \in Objects, i \in 1 .. 4, k \in NetSockets \cup {None} :
               InitAt(o, i, k) /\ netCall' = netCall => InitAt(o, i, k)'
  <1> USE NetAssumption
  <1>1. /\ sock' \in [NetSockets -> {NoSocket} \cup LiveSockets]
        /\ sock'[s] = r /\ \A k \in NetSockets : k # s => sock'[k] = sock[k]
    BY DEF NetInv, NetTypeOK
  <1>2. OwnedOK'
    <2>1. ASSUME NEW o \in Objects, owned[o] # None
          PROVE  sock'[owned[o]] \in LiveSockets /\ ~sock'[owned[o]].isInheritable
      <3>1. owned[o] \in NetSockets /\ sock[owned[o]] \in LiveSockets /\ ~sock[owned[o]].isInheritable
        BY <2>1, OwnedSocket
      <3>2. CASE owned[o] = s
        BY <1>1, <3>1, <3>2
      <3>3. CASE owned[o] # s
        BY <1>1, <3>1, <3>3
      <3> QED
        BY <3>2, <3>3
    <2> QED
      BY <2>1 DEF NetInv, OwnedOK
  <1>3. ASSUME NEW k \in NetSockets
        PROVE  SettledOK(sock'[k]) /\ (sock'[k] # NoSocket => sock[k] # NoSocket)
    <2>1. CASE k = s
      BY <1>1, <2>1, NoSocketIsFree
    <2>2. CASE k # s
      BY <1>1, <2>2 DEF NetInv, SocketOK
    <2> QED
      BY <2>1, <2>2
  <1>4. ASSUME NEW o \in Objects, NEW i \in 1 .. 4, NEW k \in NetSockets \cup {None},
               InitAt(o, i, k), netCall' = netCall
        PROVE  InitAt(o, i, k)'
    <2>1. InitSteps(o)' = InitSteps(o)
      BY StepsOfInit
    <2>2. CASE k = s
      BY <1>1, <1>4, <2>1, <2>2 DEF InitAt
    <2>3. CASE k # s
      BY <1>1, <1>4, <2>1, <2>3 DEF InitAt
    <2> QED
      BY <2>2, <2>3
  <1> QED
    BY <1>1, <1>2, <1>3, <1>4

(* Sockets change by the caller's SO_BLOCKING, the network and the peer.   *)
LEMMA SameCallStep ==
  ASSUME NetInv, platform' = platform, UNCHANGED <<owned, netCall, said>>, backlog' \in BOOLEAN,
         NEW s \in NetSockets, sock[s] \in LiveSockets,
         NEW r \in LiveSockets, SettledOK(r), r.isInheritable = sock[s].isInheritable,
         r.state = "new" => sock[s].state = "new",
         sock' = [sock EXCEPT ![s] = r]
  PROVE  NetInv'
  <1> USE NetAssumption
  <1>1. /\ sock' \in [NetSockets -> {NoSocket} \cup LiveSockets]
        /\ OwnedOK'
        /\ \A k \in NetSockets : /\ SettledOK(sock'[k])
                                 /\ sock'[k] # NoSocket => sock[k] # NoSocket
        /\ \A o \in Objects, i \in 1 .. 4, k \in NetSockets \cup {None} :
               InitAt(o, i, k) => InitAt(o, i, k)'
    BY SocketStep
  <1>2. NetTypeOK'
    BY <1>1 DEF NetInv, NetTypeOK
  <1>3. CallOK'
    <2>1. CASE netCall = None
      BY <2>1 DEF CallOK
    <2>2. CASE \E o \in Objects, i \in 1 .. 4, k \in NetSockets \cup {None} : InitAt(o, i, k)
      BY <1>1, <2>2 DEF CallOK
    <2>3. CASE \E w \in AskSteps : AskAt(w)
      BY <2>3 DEF CallOK, AskAt
    <2> QED
      BY <2>1, <2>2, <2>3 DEF NetInv, CallOK
  <1>4. SaidOK'
    <2>1. said.what \notin {"nothing", "error"} => Client'.state # "new"
      <3>1. SUFFICES ASSUME said.what \notin {"nothing", "error"} PROVE Client'.state # "new"
        OBVIOUS
      <3>2. owned["client"] \in NetSockets /\ sock[owned["client"]].state # "new"
        BY <3>1, OwnedSocket DEF NetInv, SaidOK, Client, Objects
      <3> QED
        BY <3>2 DEF NetInv, NetTypeOK, Client
    <2> QED
      BY <2>1 DEF NetInv, SaidOK, FailedConnectIsReported
  <1>5. ASSUME NEW k \in NetSockets PROVE SocketOK(k)'
    BY <1>1 DEF NetInv, SocketOK
  <1> QED
    BY <1>1, <1>2, <1>3, <1>4, <1>5 DEF NetInv

LEMMA SurroundingsKeep ==
  ASSUME NetInv, platform' = platform, NEW s \in NetSockets,
         NEW how \in {"connected", "failed"}, NEW inbox \in {"bytes", "closed"}, NEW o \in Objects,
         ConnectSettles(s, how) \/ PeerActs(s, inbox) \/ SetBlocking(o)
  PROVE  NetInv'
  <1> USE NetAssumption
  <1>1. ASSUME NEW t \in NetSockets PROVE sock[t] \in {NoSocket} \cup LiveSockets /\ SettledOK(sock[t])
    BY DEF NetInv, NetTypeOK, SocketOK
  <1>2. CASE ConnectSettles(s, how)
    <2>1. PICK old \in LiveSockets : old = sock[s] /\ old.state = "connecting"
      BY <1>1, <1>2, NoSocketIsFree DEF ConnectSettles
    <2>2. PICK b \in BOOLEAN : b = (how = "failed")
      OBVIOUS
    <2>3. PICK r : r = [old EXCEPT !.state = how, !.error = b]
      OBVIOUS
    <2>4. sock' = [sock EXCEPT ![s] = r]
      BY <1>2, <2>1, <2>2, <2>3 DEF ConnectSettles, NetInv, NetTypeOK
    <2>5. r \in LiveSockets
      BY <2>1, <2>3 DEF LiveSockets
    <2>6. r.state = how /\ r.isInheritable = old.isInheritable
      BY <2>1, <2>3 DEF LiveSockets
    <2>7. r.error = b
      BY <2>1, <2>3 DEF LiveSockets
    <2>8. SettledOK(r)
      BY <2>2, <2>6, <2>7 DEF SettledOK
    <2>9. UNCHANGED <<owned, netCall, said>> /\ backlog' \in BOOLEAN
      BY <1>2 DEF ConnectSettles, NetInv, NetTypeOK
    <2> QED
      BY <2>1, <2>4, <2>5, <2>6, <2>8, <2>9, SameCallStep
  <1>3. CASE PeerActs(s, inbox)
    <2>1. PICK old \in LiveSockets : old = sock[s]
      BY <1>1, <1>3, NoSocketIsFree DEF PeerActs
    <2>2. PICK r : r = [old EXCEPT !.inbox = inbox]
      OBVIOUS
    <2>3. sock' = [sock EXCEPT ![s] = r]
      BY <1>3, <2>1, <2>2 DEF PeerActs
    <2>4. r \in LiveSockets /\ r.isInheritable = old.isInheritable /\ r.state = old.state
          /\ r.error = old.error /\ r.isTaken = old.isTaken
      BY <2>1, <2>2 DEF LiveSockets
    <2>5. SettledOK(r)
      BY <1>1, <2>1, <2>4 DEF SettledOK
    <2>6. UNCHANGED <<owned, netCall, said>> /\ backlog' \in BOOLEAN
      BY <1>3 DEF PeerActs, NetInv, NetTypeOK
    <2> QED
      BY <2>1, <2>3, <2>4, <2>5, <2>6, SameCallStep
  <1>4. CASE SetBlocking(o)
    <2>0. PICK t \in NetSockets : t = owned[o] /\ sock[t] \in LiveSockets
      BY <1>4, OwnedSocket DEF SetBlocking
    <2>1. PICK old \in LiveSockets : old = sock[t]
      BY <2>0
    <2>2. PICK r : r = [old EXCEPT !.isBlocking = TRUE]
      OBVIOUS
    <2>3. sock' = [sock EXCEPT ![t] = r]
      BY <1>4, <2>0, <2>1, <2>2 DEF SetBlocking
    <2>4. r \in LiveSockets /\ r.isInheritable = old.isInheritable /\ r.state = old.state
          /\ r.error = old.error /\ r.isTaken = old.isTaken
      BY <2>1, <2>2 DEF LiveSockets
    <2>5. SettledOK(r)
      BY <1>1, <2>1, <2>4 DEF SettledOK
    <2>6. UNCHANGED <<owned, netCall, said>> /\ backlog' \in BOOLEAN
      BY <1>4 DEF SetBlocking, NetInv, NetTypeOK
    <2> QED
      BY <2>1, <2>3, <2>4, <2>5, <2>6, SameCallStep
  <1> QED
    BY <1>2, <1>3, <1>4

(* A call of the client's, between two of its system calls.                *)
LEMMA ClientStep ==
  ASSUME NetInv, platform' = platform, UNCHANGED <<owned, backlog>>, owned["client"] # None,
         netCall = None \/ \E w \in AskSteps : AskAt(w),
         NEW r \in LiveSockets, SettledOK(r), r.isInheritable = Client.isInheritable,
         sock' = [sock EXCEPT ![owned["client"]] = r],
         said' \in SaidStates,
         FailedConnectIsReported',
         said'.what \notin {"nothing", "error"} => r.state # "new",
         \/ netCall' = None
         \/ /\ said'.what \notin {"nothing", "error"}
            /\ \E w \in AskSteps :
                  netCall' = [what |-> w, object |-> "client"]
  PROVE  NetInv'
  <1> USE NetAssumption
  <1>0. "client" \in Objects
    BY DEF Objects
  <1>1. PICK s \in NetSockets : s = owned["client"] /\ sock[s] \in LiveSockets
    BY <1>0, OwnedSocket
  <1>2. /\ sock' \in [NetSockets -> {NoSocket} \cup LiveSockets]
        /\ OwnedOK'
        /\ \A k \in NetSockets : /\ SettledOK(sock'[k])
                                 /\ sock'[k] # NoSocket => sock[k] # NoSocket
    BY <1>1, SocketStep DEF Client
  <1>3. NetTypeOK'
    BY <1>2 DEF NetInv, NetTypeOK
  <1>4. CallOK'
    BY DEF CallOK, AskAt
  <1>5. SaidOK'
    <2>1. sock'[s] = r
      BY <1>1 DEF NetInv, NetTypeOK
    <2> QED
      BY <1>1, <2>1 DEF SaidOK, Client
  <1>6. ASSUME NEW k \in NetSockets PROVE SocketOK(k)'
    <2>1. ~(netCall # None /\ netCall.what = "init")
      BY DEF AskAt, AskSteps
    <2>2. sock[k] # NoSocket => \E o \in Objects : owned[o] = k
      BY <2>1 DEF NetInv, SocketOK
    <2> QED
      BY <1>2, <2>2 DEF SocketOK
  <1> QED
    BY <1>2, <1>3, <1>4, <1>5, <1>6 DEF NetInv

(* What the client is told, as Say has it.                                 *)
LEMMA Saying ==
  ASSUME NetInv, owned["client"] # None,
         NEW w \in {"pending", "error", "connected", "bytes", "closed", "would_block", "not_connected"},
         Say(w),
         w # "error" => Client.state # "new",
         w \in {"connected", "not_connected", "closed"} => (Client.state = "failed" => Client.isTaken)
  PROVE  /\ said' \in SaidStates
         /\ FailedConnectIsReported'
         /\ said'.what = w
  <1>1. PICK old \in LiveSockets : old = Client
    BY OwnedSocket DEF Client, Objects
  <1>2. said' = [what |-> w, state |-> old.state, isTaken |-> old.isTaken]
    BY <1>1 DEF Say
  <1>3. said'.what = w /\ said'.state = old.state /\ said'.isTaken = old.isTaken
    BY <1>2
  <1>4. said' \in SaidStates
    BY <1>1, <1>2 DEF LiveSockets, SaidStates
  <1> QED
    BY <1>1, <1>3, <1>4 DEF FailedConnectIsReported

(* The client's socket with its error taken.                               *)
LEMMA ErrorTaken ==
  ASSUME NetInv, owned["client"] # None, TakePendingError
  PROVE  \E r \in LiveSockets : /\ sock' = [sock EXCEPT ![owned["client"]] = r]
                                /\ SettledOK(r) /\ r.isInheritable = Client.isInheritable
                                /\ r.state = Client.state
  <1>1. PICK old \in LiveSockets : old = Client /\ SettledOK(old)
    BY OwnedSocket DEF Client, Objects
  <1>2. PICK b \in BOOLEAN : b = (old.isTaken \/ old.error)
    OBVIOUS
  <1>3. PICK r : r = [old EXCEPT !.error = FALSE, !.isTaken = b]
    OBVIOUS
  <1>4. sock' = [sock EXCEPT ![owned["client"]] = r]
    BY <1>1, <1>2, <1>3 DEF TakePendingError, SetClient
  <1>5. r \in LiveSockets
    BY <1>1, <1>3 DEF LiveSockets
  <1>6. r.isInheritable = old.isInheritable /\ r.state = old.state
    BY <1>1, <1>3 DEF LiveSockets
  <1>7. r.isTaken = b
    BY <1>1, <1>3 DEF LiveSockets
  <1>8. SettledOK(r)
    BY <1>1, <1>2, <1>6, <1>7 DEF SettledOK
  <1> QED
    BY <1>1, <1>4, <1>5, <1>6, <1>8

LEMMA SocketLeft ==
  ASSUME NetInv, owned["client"] # None, UNCHANGED sock
  PROVE  \E r \in LiveSockets : /\ sock' = [sock EXCEPT ![owned["client"]] = r]
                                /\ SettledOK(r) /\ r.isInheritable = Client.isInheritable
                                /\ r.state = Client.state
  <1>1. owned["client"] \in NetSockets /\ Client \in LiveSockets /\ SettledOK(Client)
    BY OwnedSocket DEF Client, Objects
  <1>2. sock = [sock EXCEPT ![owned["client"]] = Client]
    BY <1>1 DEF NetInv, NetTypeOK, Client
  <1> QED
    BY <1>1, <1>2

(* The caller asks only after a connect that was taken on.                 *)
LEMMA AskedOf ==
  ASSUME NetInv, Asking \/ \E w \in AskSteps : AskAt(w)
  PROVE  /\ owned["client"] # None /\ said.what \notin {"nothing", "error"}
         /\ Client \in LiveSockets /\ Client.state # "new"
         /\ Client.state = "failed" => Client.error \/ Client.isTaken
         /\ netCall = None \/ \E w \in AskSteps : AskAt(w)
  <1>1. owned["client"] # None /\ said.what \notin {"nothing", "error"}
    BY DEF Asking, HasClient, AskAt
  <1>2. Client \in LiveSockets /\ SettledOK(Client)
    BY <1>1, OwnedSocket DEF Client, Objects
  <1> QED
    BY <1>1, <1>2 DEF NetInv, SaidOK, SettledOK, Asking, HasClient, Idle

LEMMA CallIsAsked ==
  ASSUME NetInv, netCall # None, NEW w \in AskSteps,
         netCall.what = w
  PROVE  AskAt(w)
  BY DEF NetInv, CallOK, InitAt, AskAt, AskSteps

LEMMA ConnectKeeps ==
  ASSUME NetInv, platform' = platform, NEW code \in ConnectCodes, Connect(code)
  PROVE  NetInv'
  <1>1. owned["client"] # None /\ netCall = None /\ UNCHANGED <<owned, netCall, backlog>>
    BY DEF Connect, HasClient, Idle
  <1>2. PICK old \in LiveSockets : old = Client /\ SettledOK(old)
    BY <1>1, OwnedSocket DEF Client, Objects
  <1>3. PICK st \in {"connected", "connecting", "new"} :
           /\ sock' = [sock EXCEPT ![owned["client"]] = [old EXCEPT !.state = st]]
           /\ st = CASE code = "connected" -> "connected"
                     [] code \in {"EINPROGRESS", "WSAEWOULDBLOCK"} -> "connecting"
                     [] OTHER -> "new"
    BY <1>2 DEF Connect, SetClient
  <1>4. PICK r \in LiveSockets : r = [old EXCEPT !.state = st] /\ r.state = st
                                 /\ r.isInheritable = old.isInheritable
    <2>1. PICK r : r = [old EXCEPT !.state = st]
      OBVIOUS
    <2>2. r \in LiveSockets /\ r.state = st /\ r.isInheritable = old.isInheritable
      BY <1>2, <1>3, <2>1 DEF LiveSockets
    <2> QED
      BY <2>1, <2>2
  <1>5. PICK w \in {"pending", "error"} :
           /\ said' = [what |-> w, state |-> "new", isTaken |-> FALSE]
           /\ w = "pending" => st # "new"
    <2>1. code = "connected" \/ IsConnectInProgress(code) => st # "new"
      BY <1>3 DEF IsConnectInProgress
    <2> QED
      BY <2>1 DEF Connect, Unsaid
  <1>6. said' \in SaidStates /\ said'.what = w
    BY <1>5 DEF SaidStates
  <1>7. FailedConnectIsReported'
    BY <1>5, <1>6 DEF FailedConnectIsReported
  <1>8. SettledOK(r)
    BY <1>4 DEF SettledOK
  <1> QED
    BY <1>1, <1>2, <1>3, <1>4, <1>5, <1>6, <1>7, <1>8, ClientStep

LEMMA PollConnectedKeeps ==
  ASSUME NetInv, platform' = platform, PollConnected
  PROVE  NetInv'
  <1>1. /\ owned["client"] # None /\ said.what \notin {"nothing", "error"}
        /\ Client \in LiveSockets /\ Client.state # "new" /\ netCall = None
    BY AskedOf DEF PollConnected, Asking, HasClient, Idle
  <1>2. UNCHANGED <<sock, owned, backlog>>
    BY DEF PollConnected
  <1>3. said' = said \/ said' = [said EXCEPT !.what = "pending"]
    BY DEF PollConnected
  <1>4. /\ said' \in SaidStates /\ said'.what \notin {"nothing", "error"}
        /\ FailedConnectIsReported'
    BY <1>1, <1>3 DEF NetInv, NetTypeOK, SaidOK, SaidStates, FailedConnectIsReported
  <1>5. netCall' = None \/ netCall' = [what |-> "pollError", object |-> "client"]
    BY <1>1 DEF PollConnected, PollSocket
  <1>6. PICK r \in LiveSockets : /\ sock' = [sock EXCEPT ![owned["client"]] = r]
                                /\ SettledOK(r) /\ r.isInheritable = Client.isInheritable
                                /\ r.state = Client.state
    BY <1>1, <1>2, SocketLeft
  <1> QED
    BY <1>1, <1>2, <1>4, <1>5, <1>6, ClientStep DEF AskSteps

LEMMA ReadsErrorKeeps ==
  ASSUME NetInv, platform' = platform, PollReadsError \/ ReceiveReadsError
  PROVE  NetInv'
  <1>1. \E w \in AskSteps : AskAt(w)
    BY CallIsAsked DEF PollReadsError, ReceiveReadsError, AskSteps
  <1>2. /\ owned["client"] # None /\ said.what \notin {"nothing", "error"}
        /\ Client \in LiveSockets /\ Client.state # "new"
        /\ Client.state = "failed" => Client.error \/ Client.isTaken
    BY <1>1, AskedOf
  <1>3. netCall' = None /\ UNCHANGED <<owned, backlog>>
    BY DEF PollReadsError, ReceiveReadsError
  <1>4. PICK w \in {"error", "connected", "not_connected"} :
           Say(w) /\ (w # "error" => ~Client.error)
    BY DEF PollReadsError, ReceiveReadsError
  <1>5. said' \in SaidStates /\ FailedConnectIsReported' /\ said'.what = w
    BY <1>2, <1>4, Saying
  <1>6. PICK r \in LiveSockets : /\ sock' = [sock EXCEPT ![owned["client"]] = r]
                                /\ SettledOK(r) /\ r.isInheritable = Client.isInheritable
                                /\ r.state = Client.state
    BY <1>2, ErrorTaken, SocketLeft DEF PollReadsError, ReceiveReadsError
  <1> QED
    BY <1>1, <1>2, <1>3, <1>5, <1>6, ClientStep

LEMMA ReceivePollsKeeps ==
  ASSUME NetInv, platform' = platform, ReceivePolls
  PROVE  NetInv'
  <1>1. \E w \in AskSteps : AskAt(w)
    BY CallIsAsked DEF ReceivePolls, AskSteps
  <1>2. /\ owned["client"] # None /\ said.what \notin {"nothing", "error"}
        /\ Client \in LiveSockets /\ Client.state # "new"
    BY <1>1, AskedOf
  <1>3. UNCHANGED <<sock, owned, backlog>>
    BY DEF ReceivePolls
  <1>4. netCall' = None \/ netCall' = [what |-> "receiveError", object |-> "client"]
    BY DEF ReceivePolls, PollSocket
  <1>5. said' = said \/ Say("would_block")
    BY DEF ReceivePolls
  <1>6. /\ said' \in SaidStates /\ said'.what \notin {"nothing", "error"}
        /\ FailedConnectIsReported'
    <2>1. CASE said' = said
      BY <1>2, <2>1 DEF NetInv, NetTypeOK, SaidOK, FailedConnectIsReported
    <2>2. CASE Say("would_block")
      BY <1>2, <2>2, Saying
    <2> QED
      BY <1>5, <2>1, <2>2
  <1>7. PICK r \in LiveSockets : /\ sock' = [sock EXCEPT ![owned["client"]] = r]
                                /\ SettledOK(r) /\ r.isInheritable = Client.isInheritable
                                /\ r.state = Client.state
    BY <1>2, <1>3, SocketLeft
  <1> QED
    BY <1>1, <1>2, <1>3, <1>4, <1>6, <1>7, ClientStep DEF AskSteps

LEMMA ReceiveKeeps ==
  ASSUME NetInv, platform' = platform, Receive
  PROVE  NetInv'
  <1>1. /\ owned["client"] # None /\ said.what \notin {"nothing", "error"}
        /\ Client \in LiveSockets /\ Client.state # "new" /\ netCall = None
        /\ Client.state = "failed" => Client.error \/ Client.isTaken
    BY AskedOf DEF Receive, Asking, HasClient, Idle
  <1>2. UNCHANGED <<owned, backlog>>
    BY DEF Receive
  <1>3. CASE RecvBytes = "not_connected"
    <2>1. UNCHANGED <<sock, said>> /\ netCall' = [what |-> "receivePoll", object |-> "client"]
      BY <1>3 DEF Receive
    <2>2. /\ said' \in SaidStates /\ said'.what \notin {"nothing", "error"}
          /\ FailedConnectIsReported'
      BY <1>1, <2>1 DEF NetInv, NetTypeOK, SaidOK, FailedConnectIsReported
    <2>3. PICK r \in LiveSockets : /\ sock' = [sock EXCEPT ![owned["client"]] = r]
                                  /\ SettledOK(r) /\ r.isInheritable = Client.isInheritable
                                  /\ r.state = Client.state
      BY <1>1, <2>1, SocketLeft
    <2> QED
      BY <1>1, <1>2, <2>1, <2>2, <2>3, ClientStep DEF AskSteps
  <1>4. CASE RecvBytes # "not_connected"
    <2>1. netCall' = None /\ Say(RecvBytes)
      BY <1>1, <1>4 DEF Receive
    <2>2. PICK w \in {"error", "bytes", "closed", "would_block"} :
             /\ w = RecvBytes
             /\ w = "closed" => (Client.state = "failed" => ~Client.error)
      BY <1>1, <1>4 DEF RecvBytes, LiveSockets
    <2>3. said' \in SaidStates /\ FailedConnectIsReported' /\ said'.what = w
      BY <1>1, <2>1, <2>2, Saying
    <2>4. PICK r \in LiveSockets : /\ sock' = [sock EXCEPT ![owned["client"]] = r]
                                  /\ SettledOK(r) /\ r.isInheritable = Client.isInheritable
                                  /\ r.state = Client.state
      <3>1. CASE w = "bytes"
        <4>1. PICK old \in LiveSockets : old = Client /\ SettledOK(old)
          BY <1>1, OwnedSocket DEF Client, Objects
        <4>2. PICK r : r = [old EXCEPT !.inbox = "empty"]
          OBVIOUS
        <4>3. sock' = [sock EXCEPT ![owned["client"]] = r]
          BY <1>4, <2>2, <3>1, <4>1, <4>2 DEF Receive, SetClient
        <4>4. r \in LiveSockets /\ r.isInheritable = old.isInheritable /\ r.state = old.state
              /\ r.error = old.error /\ r.isTaken = old.isTaken
          BY <4>1, <4>2 DEF LiveSockets
        <4> QED
          BY <4>1, <4>3, <4>4 DEF SettledOK
      <3>2. CASE w = "error"
        BY <1>1, <1>4, <2>2, <3>2, ErrorTaken DEF Receive
      <3>3. CASE w \notin {"bytes", "error"}
        BY <1>1, <1>4, <2>2, <3>3, SocketLeft DEF Receive
      <3> QED
        BY <3>1, <3>2, <3>3
    <2> QED
      BY <1>1, <1>2, <2>1, <2>3, <2>4, ClientStep
  <1> QED
    BY <1>3, <1>4

LEMMA InitBeginKeeps ==
  ASSUME NetInv, platform' = platform, NEW o \in Objects, InitBegin(o)
  PROVE  NetInv'
  <1> USE NetAssumption
  <1>1. /\ netCall = None /\ owned[o] = None /\ UNCHANGED <<sock, owned, backlog, said>>
        /\ netCall' = [what |-> "init", object |-> o, step |-> 1, socket |-> None]
    BY DEF InitBegin, Idle
  <1>2. InitAt(o, 1, None)'
    BY <1>1, StepsOfInit DEF InitAt
  <1>3. CallOK'
    BY <1>2 DEF CallOK
  <1>4. NetTypeOK' /\ OwnedOK' /\ SaidOK'
    BY <1>1 DEF NetInv, NetTypeOK, OwnedOK, SaidOK, FailedConnectIsReported, Client
  <1>5. ASSUME NEW k \in NetSockets PROVE SocketOK(k)'
    BY <1>1 DEF NetInv, SocketOK
  <1> QED
    BY <1>3, <1>4, <1>5 DEF NetInv

(* A step of Initialize that succeeds with the socket t, as its next step  *)
(* or its object finds it.                                                 *)
LEMMA InitGoesOn ==
  ASSUME NetInv, platform' = platform, NEW o \in Objects, NEW i \in 1 .. 4,
         NEW s \in NetSockets \cup {None}, InitAt(o, i, s),
         NEW t \in NetSockets, t = s \/ (s = None /\ sock[t] = NoSocket),
         NEW r \in LiveSockets, SettledOK(r), sock' = [sock EXCEPT ![t] = r],
         r.isInheritable => i < Len(InitSteps(o)) /\ InitSteps(o)[i + 1] = "uninherit",
         StepDone(t), said' = said, backlog' \in BOOLEAN
  PROVE  NetInv'
  <1> USE NetAssumption
  <1>1. /\ netCall = [what |-> "init", object |-> o, step |-> i, socket |-> s]
        /\ netCall.object = o /\ netCall.step = i /\ netCall.socket = s
        /\ owned[o] = None /\ i <= Len(InitSteps(o))
    BY DEF InitAt
  <1>2. Len(InitSteps(o)) \in 1 .. 4 /\ InitSteps(o)' = InitSteps(o)
    BY StepsOfInit
  <1>3. \A p \in Objects : owned[p] # t
    BY OwnedSocket, NoSocketIsFree DEF InitAt
  <1>4. /\ sock' \in [NetSockets -> {NoSocket} \cup LiveSockets]
        /\ sock'[t] = r /\ \A k \in NetSockets : k # t => sock'[k] = sock[k]
    BY DEF NetInv, NetTypeOK
  <1>5. ASSUME NEW p \in Objects, owned[p] # None
        PROVE  sock'[owned[p]] \in LiveSockets /\ ~sock'[owned[p]].isInheritable
               /\ sock'[owned[p]] = sock[owned[p]]
    BY <1>3, <1>4, <1>5, OwnedSocket
  <1>6. ASSUME NEW k \in NetSockets PROVE SettledOK(sock'[k])
    BY <1>4 DEF NetInv, SocketOK
  <1>7. ASSUME NEW k \in NetSockets, sock'[k] # NoSocket, k # t
        PROVE  \E p \in Objects : owned[p] = k
    <2>1. sock[k] # NoSocket /\ k # s
      BY <1>4, <1>7 DEF InitAt
    <2> QED
      BY <1>1, <2>1 DEF NetInv, SocketOK
  <1>8. CASE i = Len(InitSteps(o))
    <2>1. netCall' = None /\ owned' = [owned EXCEPT ![o] = t]
      BY <1>1, <1>8 DEF StepDone
    <2>2. owned' \in [Objects -> NetSockets \cup {None}]
          /\ owned'[o] = t /\ \A p \in Objects : p # o => owned'[p] = owned[p]
      BY <2>1 DEF NetInv, NetTypeOK
    <2>3. NetTypeOK'
      BY <1>4, <2>2 DEF NetInv, NetTypeOK
    <2>4. ~r.isInheritable
      BY <1>2, <1>8
    <2>5. OwnedOK'
      BY <1>3, <1>4, <1>5, <2>2, <2>4 DEF NetInv, OwnedOK
    <2>6. SaidOK'
      <3>1. CASE o = "client"
        BY <1>1, <3>1 DEF NetInv, SaidOK, FailedConnectIsReported
      <3>2. CASE o # "client"
        <4>1. owned'["client"] = owned["client"]
          BY <2>2, <3>2 DEF Objects
        <4>2. owned["client"] # None => Client' = Client
          BY <1>5, <4>1 DEF Client, Objects
        <4> QED
          BY <4>1, <4>2 DEF NetInv, SaidOK, FailedConnectIsReported
      <3> QED
        BY <3>1, <3>2
    <2>7. ASSUME NEW k \in NetSockets PROVE SocketOK(k)'
      <3>1. CASE k = t
        BY <1>6, <2>2, <3>1 DEF SocketOK
      <3>2. CASE k # t
        <4>1. sock'[k] # NoSocket => \E p \in Objects : owned'[p] = k
          BY <1>1, <1>7, <2>2, <3>2
        <4> QED
          BY <1>6, <4>1 DEF SocketOK
      <3> QED
        BY <3>1, <3>2
    <2> QED
      BY <2>1, <2>3, <2>5, <2>6, <2>7 DEF NetInv, CallOK
  <1>9. CASE i # Len(InitSteps(o))
    <2>1. netCall' = [netCall EXCEPT !.step = @ + 1, !.socket = t] /\ owned' = owned
      BY <1>1, <1>9 DEF StepDone
    <2>2. netCall' = [what |-> "init", object |-> o, step |-> i + 1, socket |-> t]
      BY <1>1, <2>1
    <2>3. i + 1 \in 1 .. 4 /\ i + 1 <= Len(InitSteps(o)) /\ i + 1 # 1
      <3>1. PICK n \in 1 .. 4 : n = Len(InitSteps(o))
        BY <1>2
      <3>2. i <= n /\ i # n
        BY <1>1, <1>9, <3>1
      <3> QED
        BY <3>1, <3>2
    <2>4. InitAt(o, i + 1, t)'
      BY <1>1, <1>2, <1>3, <1>4, <2>1, <2>2, <2>3 DEF InitAt
    <2>5. CallOK'
      BY <2>3, <2>4 DEF CallOK
    <2>6. NetTypeOK' /\ OwnedOK'
      BY <1>4, <1>5, <2>1 DEF NetInv, NetTypeOK, OwnedOK
    <2>7. SaidOK'
      <3>1. owned["client"] # None => Client' = Client
        BY <1>5, <2>1 DEF Client, Objects
      <3> QED
        BY <2>1, <3>1 DEF NetInv, SaidOK, FailedConnectIsReported
    <2>8. ASSUME NEW k \in NetSockets PROVE SocketOK(k)'
      <3>1. netCall' # None /\ netCall'.what = "init" /\ netCall'.socket = t
        BY <2>2, <2>3 DEF NetCalls
      <3> QED
        BY <1>6, <1>7, <2>1, <3>1 DEF SocketOK
    <2> QED
      BY <2>5, <2>6, <2>7, <2>8 DEF NetInv
  <1> QED
    BY <1>8, <1>9

LEMMA InitStepKeeps ==
  ASSUME NetInv, platform' = platform, InitStep
  PROVE  NetInv'
  <1> USE NetAssumption
  <1>1. PICK o \in Objects, i \in 1 .. 4, s \in NetSockets \cup {None} : InitAt(o, i, s)
    BY DEF InitStep, AtStep, NetInv, CallOK, AskAt, AskSteps
  <1>2. /\ netCall.object = o /\ netCall.step = i /\ netCall.socket = s /\ i <= Len(InitSteps(o))
        /\ i = 1 <=> s = None
    BY <1>1 DEF InitAt
  <1>3. Step = InitSteps(o)[i] /\ said' = said
    BY <1>2 DEF Step, InitStep
  <1>4. CASE Step \in {"open", "accept"}
    <2>1. i = 1 /\ s = None
      BY <1>2, <1>3, <1>4, StepsOfInit
    <2>2. PICK t \in NetSockets :
             /\ sock[t].state = "free" /\ StepDone(t) /\ backlog' = (backlog /\ Step # "accept")
             /\ sock' = [sock EXCEPT ![t] = IF Step = "open" THEN NewSocket("new")
                             ELSE [NewSocket("connected") EXCEPT !.isInheritable = OnWindows]]
      BY <1>4 DEF InitStep
    <2>3. sock[t] = NoSocket
      BY <2>2, NoSocketIsFree DEF NetInv, NetTypeOK
    <2>4. PICK b \in BOOLEAN : b = OnWindows
      BY DEF OnWindows
    <2>5. PICK r \in LiveSockets :
             /\ sock' = [sock EXCEPT ![t] = r] /\ r.state # "failed"
             /\ r.isInheritable => Step = "accept" /\ OnWindows
      <3>1. CASE Step = "open"
        <4>1. PICK r : r = [state |-> "new", isBlocking |-> b, isInheritable |-> FALSE,
                            error |-> FALSE, isTaken |-> FALSE, inbox |-> "empty"]
          OBVIOUS
        <4>2. r = NewSocket("new")
          BY <2>4, <4>1 DEF NewSocket
        <4>3. r \in LiveSockets /\ r.state = "new" /\ ~r.isInheritable
          BY <4>1 DEF LiveSockets
        <4> QED
          BY <2>2, <3>1, <4>2, <4>3
      <3>2. CASE Step = "accept"
        <4>1. PICK new : new = [state |-> "connected", isBlocking |-> b, isInheritable |-> FALSE,
                                error |-> FALSE, isTaken |-> FALSE, inbox |-> "empty"]
          OBVIOUS
        <4>2. new = NewSocket("connected")
          BY <2>4, <4>1 DEF NewSocket
        <4>3. new \in LiveSockets /\ new.state = "connected"
          BY <4>1 DEF LiveSockets
        <4>4. PICK r : r = [new EXCEPT !.isInheritable = b]
          OBVIOUS
        <4>5. r \in LiveSockets /\ r.state = "connected"
          BY <4>3, <4>4 DEF LiveSockets
        <4>6. r.isInheritable = b
          BY <4>3, <4>4 DEF LiveSockets
        <4>7. sock' = [sock EXCEPT ![t] = r]
          BY <2>2, <2>4, <3>2, <4>2, <4>4
        <4>8. r.isInheritable => Step = "accept" /\ OnWindows
          BY <2>4, <3>2, <4>6
        <4> QED
          BY <4>5, <4>7, <4>8
      <3> QED
        BY <1>4, <3>1, <3>2
    <2>6. r.isInheritable => i < Len(InitSteps(o)) /\ InitSteps(o)[i + 1] = "uninherit"
      BY <1>3, <2>1, <2>5, StepsOfInit
    <2>7. SettledOK(r) /\ backlog' \in BOOLEAN
      BY <2>2, <2>5 DEF SettledOK
    <2> QED
      BY <1>1, <1>3, <2>1, <2>2, <2>3, <2>5, <2>6, <2>7, InitGoesOn
  <1>5. CASE Step \notin {"open", "accept"}
    <2>1. /\ sock' = [sock EXCEPT ![s] = AfterStep(@, Step)] /\ StepDone(s)
          /\ backlog' = backlog
      BY <1>2, <1>5 DEF InitStep
    <2>2. s \in NetSockets
      BY <1>2, <1>3, <1>5, StepsOfInit
    <2>3. PICK old \in LiveSockets : old = sock[s] /\ SettledOK(old)
                                    /\ (old.isInheritable => Step = "uninherit")
      BY <1>1, <1>3, <2>2 DEF InitAt, NetInv, SocketOK
    <2>4. PICK r : r = AfterStep(old, Step)
      OBVIOUS
    <2>5. r \in LiveSockets
      BY <2>3, <2>4 DEF AfterStep, LiveSockets
    <2>6. ~r.isInheritable
      <3>1. CASE Step = "uninherit"
        BY <2>3, <2>4, <3>1 DEF AfterStep, LiveSockets
      <3>2. CASE Step # "uninherit"
        <4>1. r.isInheritable = old.isInheritable
          BY <2>3, <2>4, <3>2 DEF AfterStep, LiveSockets
        <4> QED
          BY <2>3, <3>2, <4>1
      <3> QED
        BY <3>1, <3>2
    <2>7. SettledOK(r)
      <3>1. r.state = old.state \/ r.state # "failed"
        BY <2>3, <2>4 DEF AfterStep, LiveSockets
      <3>2. r.error = old.error /\ r.isTaken = old.isTaken
        BY <2>3, <2>4 DEF AfterStep, LiveSockets
      <3> QED
        BY <2>3, <3>1, <3>2 DEF SettledOK
    <2>8. sock' = [sock EXCEPT ![s] = r] /\ backlog' \in BOOLEAN
      BY <2>1, <2>3, <2>4 DEF NetInv, NetTypeOK
    <2> QED
      BY <1>1, <1>3, <2>1, <2>2, <2>5, <2>6, <2>7, <2>8, InitGoesOn
  <1> QED
    BY <1>4, <1>5

(* A socket is closed: the call's own, or an object's.                     *)
LEMMA InitFailsKeeps ==
  ASSUME NetInv, platform' = platform, InitFails
  PROVE  NetInv'
  <1> USE NetAssumption
  <1>1. PICK o \in Objects, i \in 1 .. 4, s \in NetSockets \cup {None} : InitAt(o, i, s)
    BY DEF InitFails, AtStep, NetInv, CallOK, AskAt, AskSteps
  <1>2. netCall.socket = s /\ \A p \in Objects : owned[p] # None => owned[p] # s
    BY <1>1 DEF InitAt
  <1>3. netCall' = None /\ UNCHANGED <<owned, backlog, said>>
    BY DEF InitFails
  <1>4. /\ sock' \in [NetSockets -> {NoSocket} \cup LiveSockets]
        /\ \A k \in NetSockets : sock'[k] = IF k = s THEN NoSocket ELSE sock[k]
    BY <1>2 DEF InitFails, CloseSocket, NetInv, NetTypeOK
  <1>5. \A p \in Objects : owned[p] # None => sock'[owned[p]] = sock[owned[p]]
    BY <1>2, <1>4, OwnedSocket
  <1>6. NetTypeOK'
    BY <1>3, <1>4 DEF NetInv, NetTypeOK
  <1>7. OwnedOK'
    BY <1>3, <1>5 DEF NetInv, OwnedOK
  <1>8. SaidOK'
    <2>1. owned["client"] # None => Client' = Client
      BY <1>3, <1>5 DEF Client, Objects
    <2> QED
      BY <1>3, <2>1 DEF NetInv, SaidOK, FailedConnectIsReported
  <1>9. ASSUME NEW k \in NetSockets PROVE SocketOK(k)'
    BY <1>2, <1>3, <1>4, NoSocketIsFree DEF NetInv, SocketOK, SettledOK
  <1> QED
    BY <1>3, <1>6, <1>7, <1>8, <1>9 DEF NetInv, CallOK

LEMMA TerminateSocketKeeps ==
  ASSUME NetInv, platform' = platform, NEW o \in Objects, TerminateSocket(o)
  PROVE  NetInv'
  <1> USE NetAssumption
  <1>1. PICK s \in NetSockets : s = owned[o] /\ owned[o] # None
    BY OwnedSocket DEF TerminateSocket
  <1>2. /\ netCall = None /\ netCall' = None /\ sock' = [sock EXCEPT ![s] = NoSocket]
        /\ owned' = [owned EXCEPT ![o] = None]
        /\ said' = IF o = "client" THEN Unsaid ELSE said
        /\ backlog' \in BOOLEAN
    BY <1>1 DEF TerminateSocket, CloseSocket, Idle
  <1>3. /\ sock' \in [NetSockets -> {NoSocket} \cup LiveSockets]
        /\ \A k \in NetSockets : sock'[k] = IF k = s THEN NoSocket ELSE sock[k]
    BY <1>2 DEF NetInv, NetTypeOK
  <1>4. /\ owned' \in [Objects -> NetSockets \cup {None}]
        /\ \A p \in Objects : owned'[p] = IF p = o THEN None ELSE owned[p]
    BY <1>2 DEF NetInv, NetTypeOK
  <1>5. Unsaid \in SaidStates /\ Unsaid.what = "nothing"
    BY DEF Unsaid, SaidStates
  <1>6. NetTypeOK'
    BY <1>2, <1>3, <1>4, <1>5 DEF NetInv, NetTypeOK
  <1>7. \A p \in Objects : p # o /\ owned[p] # None => sock'[owned[p]] = sock[owned[p]]
    <2>1. \A p \in Objects : p # o /\ owned[p] # None => owned[p] # s
      BY <1>1 DEF NetInv, OwnedOK
    <2> QED
      BY <1>3, <2>1, OwnedSocket
  <1>8. OwnedOK'
    BY <1>4, <1>7 DEF NetInv, OwnedOK
  <1>9. SaidOK'
    <2>1. CASE o = "client"
      BY <1>2, <1>5, <2>1 DEF SaidOK, FailedConnectIsReported
    <2>2. CASE o # "client"
      <3>1. owned'["client"] = owned["client"] /\ said' = said
        BY <1>2, <1>4, <2>2 DEF Objects
      <3>2. owned["client"] # None => Client' = Client
        BY <1>7, <2>2, <3>1 DEF Client, Objects
      <3> QED
        BY <3>1, <3>2 DEF NetInv, SaidOK, FailedConnectIsReported
    <2> QED
      BY <2>1, <2>2
  <1>10. ASSUME NEW k \in NetSockets PROVE SocketOK(k)'
    <2>1. CASE k = s
      BY <1>3, <2>1, NoSocketIsFree DEF SocketOK, SettledOK
    <2>2. CASE k # s
      <3>1. sock[k] # NoSocket => \E p \in Objects : owned[p] = k
        BY <1>2 DEF NetInv, SocketOK
      <3>2. sock[k] # NoSocket => \E p \in Objects : owned'[p] = k
        BY <1>1, <1>4, <2>2, <3>1
      <3> QED
        BY <1>3, <2>2, <3>2 DEF NetInv, SocketOK
    <2> QED
      BY <2>1, <2>2
  <1> QED
    BY <1>2, <1>6, <1>8, <1>9, <1>10 DEF NetInv, CallOK

LEMMA NetInitInv == NetInit => NetInv
  <1> SUFFICES ASSUME NetInit PROVE NetInv
    OBVIOUS
  <1> USE NetAssumption
  <1>1. Unsaid \in SaidStates /\ Unsaid.what = "nothing"
    BY DEF Unsaid, SaidStates
  <1>2. NetTypeOK
    BY <1>1 DEF NetInit, NetTypeOK
  <1>3. OwnedOK /\ CallOK
    BY DEF NetInit, OwnedOK, CallOK
  <1>4. SaidOK
    BY <1>1 DEF NetInit, SaidOK, FailedConnectIsReported
  <1>5. ASSUME NEW s \in NetSockets PROVE SocketOK(s)
    BY NoSocketIsFree DEF NetInit, SocketOK, SettledOK
  <1> QED
    BY <1>2, <1>3, <1>4, <1>5 DEF NetInv

LEMMA NetSameInv ==
  ASSUME NetInv, platform' = platform, UNCHANGED <<sock, owned, netCall, said>>, backlog' \in BOOLEAN
  PROVE  NetInv'
  <1>1. NetTypeOK' /\ OwnedOK' /\ SaidOK'
    BY DEF NetInv, NetTypeOK, OwnedOK, SaidOK, FailedConnectIsReported, Client
  <1>2. CallOK'
    <2>1. ASSUME NEW o \in Objects, NEW i \in 1 .. 4, NEW s \in NetSockets \cup {None},
                 InitAt(o, i, s)
          PROVE  InitAt(o, i, s)'
      BY <2>1, StepsOfInit DEF InitAt
    <2>2. ASSUME NEW w \in AskSteps, AskAt(w) PROVE AskAt(w)'
      BY <2>2 DEF AskAt
    <2> QED
      BY <2>1, <2>2 DEF NetInv, CallOK
  <1>3. ASSUME NEW k \in NetSockets PROVE SocketOK(k)'
    BY DEF NetInv, SocketOK
  <1> QED
    BY <1>1, <1>2, <1>3 DEF NetInv

LEMMA NetNextInv ==
  ASSUME NetInv, platform' = platform, NetNext \/ UNCHANGED netVars
  PROVE  NetInv'
  <1>1. CASE NetNext
    <2>1. CASE PeerConnects
      <3>1. UNCHANGED <<sock, owned, netCall, said>> /\ backlog' \in BOOLEAN
        BY <2>1 DEF PeerConnects
      <3> QED
        BY <3>1, NetSameInv
    <2>2. CASE \E o \in Objects : InitBegin(o) \/ TerminateSocket(o) \/ SetBlocking(o)
      <3>1. "connected" \in {"connected", "failed"} /\ "bytes" \in {"bytes", "closed"}
        OBVIOUS
      <3>2. ASSUME NEW o \in Objects, SetBlocking(o) PROVE NetInv'
        <4>1. PICK s \in NetSockets : s = owned[o]
          BY <3>2, OwnedSocket DEF SetBlocking
        <4> QED
          BY <3>1, <3>2, <4>1, SurroundingsKeep
      <3> QED
        BY <2>2, <3>2, InitBeginKeeps, TerminateSocketKeeps
    <2>3. CASE \E s \in NetSockets, how \in {"connected", "failed"} : ConnectSettles(s, how)
      BY <2>3, SurroundingsKeep DEF Objects
    <2>4. CASE \E s \in NetSockets, inbox \in {"bytes", "closed"} : PeerActs(s, inbox)
      BY <2>4, SurroundingsKeep DEF Objects
    <2> QED
      BY <1>1, <2>1, <2>2, <2>3, <2>4, InitStepKeeps, InitFailsKeeps, ConnectKeeps,
         PollConnectedKeeps, ReadsErrorKeeps, ReceiveKeeps, ReceivePollsKeeps DEF NetNext
  <1>2. CASE UNCHANGED netVars
    BY <1>2, NetSameInv DEF netVars, NetInv, NetTypeOK
  <1> QED
    BY <1>1, <1>2

-----------------------------------------------------------------------------
(***************************************************************************)
(* CDirectoryWatch on Linux: the end of the root is never passed over.     *)
(* Its event may be lost when the queue overflows, and the watch may be    *)
(* walking the tree, or reading other events, when it comes.               *)
(***************************************************************************)
WatchDirs == Folders \cup {Root}
WatchEvents == [wd : Nat, what : {"arrived", "left", "ignored", "gone", "overflow"},
                name : FolderNames \cup {""}]

\* The events that tell of the root's end, or may hide it.
IsUrgent(event) == event.what \in {"gone", "overflow"}
HasUrgent(q) == \E k \in 1 .. Len(q) : IsUrgent(q[k])

WatchTypeOK ==
    /\ at \in [Folders -> [in : WatchDirs \cup {Outside, Away, Gone}, as : FolderNames \cup {""}]]
    /\ wdOf \in [WatchDirs -> Nat] /\ nextWd \in Nat
    /\ queue \in Seq(WatchEvents)
    /\ dwPc \in {"off", "walk", "idle", "drain", "arrive", "ended", "terminated"}

\* While the watch is on, the root has its descriptor; once the root has gone, the watch knows of it,
\* is to walk the tree again, or has an event to read that makes it.
RootInv ==
    /\ WatchTypeOK
    /\ dwPc \in {"walk", "idle", "drain", "arrive"} =>
          /\ wdOf[Root] = RootWd
          /\ rootHere \/ isRootGone \/ shouldWalkAgain \/ HasUrgent(queue)
    /\ isRootGone => dwPc \in {"drain", "ended"}
    /\ shouldWalkAgain => dwPc \in {"drain", "arrive", "walk", "ended"}

\* An urgent event is kept, or one that says events were lost comes in its place.
LEMMA QueuedKeeps ==
  ASSUME NEW q \in Seq(WatchEvents), NEW event \in WatchEvents
  PROVE  /\ Queued(q, event) \in Seq(WatchEvents)
         /\ HasUrgent(q) \/ IsUrgent(event) => HasUrgent(Queued(q, event))
  <1>1. MaxQueue \in Nat \ {0} /\ Len(q) \in Nat
    BY WatchAssumption
  <1> DEFINE lost == [wd |-> 0, what |-> "overflow", name |-> ""]
  <1>2. lost \in WatchEvents /\ IsUrgent(lost)
    BY DEF WatchEvents, IsUrgent
  <1>3. ASSUME NEW e \in WatchEvents
        PROVE  /\ Append(q, e) \in Seq(WatchEvents)
               /\ HasUrgent(q) \/ IsUrgent(e) => HasUrgent(Append(q, e))
    <2>1. /\ Append(q, e) \in Seq(WatchEvents) /\ Len(Append(q, e)) = Len(q) + 1
          /\ Append(q, e)[Len(q) + 1] = e
          /\ \A k \in 1 .. Len(q) : Append(q, e)[k] = q[k]
      OBVIOUS
    <2>2. \A k \in 1 .. Len(q) + 1 : IsUrgent(Append(q, e)[k]) => HasUrgent(Append(q, e))
      BY <2>1 DEF HasUrgent
    <2>3. Len(q) + 1 \in 1 .. Len(q) + 1 /\ \A k \in 1 .. Len(q) : k \in 1 .. Len(q) + 1
      BY <1>1
    <2> QED
      BY <2>1, <2>2, <2>3 DEF HasUrgent
  <1>4. CASE Len(q) < MaxQueue
    BY <1>3, <1>4 DEF Queued
  <1>5. CASE ~(Len(q) < MaxQueue) /\ Last(q).what = "overflow"
    <2>1. Len(q) \in 1 .. Len(q)
      BY <1>1, <1>5
    <2>2. HasUrgent(q)
      BY <1>5, <2>1 DEF HasUrgent, IsUrgent, Last
    <2> QED
      BY <1>5, <2>2 DEF Queued
  <1>6. CASE ~(Len(q) < MaxQueue) /\ Last(q).what # "overflow"
    <2>1. Queued(q, event) = Append(q, lost)
      BY <1>6 DEF Queued
    <2> HIDE DEF lost
    <2> QED
      BY <1>2, <1>3, <2>1
  <1> QED
    BY <1>4, <1>5, <1>6

\* The queue after each of the events: tlapm asks that such a function exists.
IsQueued(G, q, events, n) ==
    G = [k \in 0 .. n |-> IF k = 0 THEN q ELSE Queued(G[k - 1], events[k])]

LEMMA QueuedExists ==
  ASSUME NEW q, NEW events, NEW n \in Nat
  PROVE  \E G : IsQueued(G, q, events, n)
  <1> DEFINE T == {k \in Nat : ~ \E G : IsQueued(G, q, events, k)}
  <1> SUFFICES ASSUME T # {} PROVE FALSE
    OBVIOUS
  <1>1. PICK k \in T : \A m \in T : k <= m
    BY LeastNumber
  <1>2. k \in Nat /\ ~ \E G : IsQueued(G, q, events, k)
    BY <1>1
  <1>3. CASE k = 0
    <2>1. IsQueued([m \in 0 .. 0 |-> q], q, events, 0)
      BY DEF IsQueued
    <2> QED
      BY <2>1, <1>2, <1>3
  <1>4. CASE k # 0
    <2>1. k - 1 \in Nat /\ k - 1 \notin T
      BY <1>1, <1>2, <1>4
    <2>2. PICK G : IsQueued(G, q, events, k - 1)
      BY <2>1
    <2> DEFINE last == Queued(G[k - 1], events[k])
               H == [m \in 0 .. k |-> IF m = k THEN last ELSE G[m]]
    <2>3. ASSUME NEW m \in 0 .. k, m # k, m # 0
          PROVE  H[m] = Queued(H[m - 1], events[m])
      <3>1. m \in 0 .. (k - 1) /\ m - 1 \in 0 .. k /\ m - 1 # k
        BY <1>2, <2>3
      <3>2. G[m] = Queued(G[m - 1], events[m])
        BY <2>2, <3>1, <2>3 DEF IsQueued
      <3> QED
        BY <3>1, <3>2, <2>3
    <2>4. H[k] = Queued(H[k - 1], events[k])
      BY <1>2, <1>4
    <2>5. H[0] = q
      BY <1>2, <1>4, <2>1, <2>2 DEF IsQueued
    <2> HIDE DEF last
    <2>6. IsQueued(H, q, events, k)
      <3>1. H = [m \in 0 .. k |-> H[m]]
        OBVIOUS
      <3> HIDE DEF H
      <3> DEFINE K == [m \in 0 .. k |-> IF m = 0 THEN q ELSE Queued(H[m - 1], events[m])]
      <3>2. \A m \in 0 .. k : H[m] = K[m]
        BY <2>3, <2>4, <2>5, <1>4
      <3>3. K = [m \in 0 .. k |-> K[m]]
        OBVIOUS
      <3> HIDE DEF K
      <3>4. [m \in 0 .. k |-> H[m]] = [m \in 0 .. k |-> K[m]]
        BY <3>2
      <3>5. H = K
        BY <3>1, <3>3, <3>4
      <3> QED
        BY <3>5 DEF K, IsQueued
    <2> QED
      BY <2>6, <1>2
  <1> QED
    BY <1>3, <1>4

\* So for any number of events.
LEMMA EventsAreQueued ==
  ASSUME NEW q \in Seq(WatchEvents), NEW events \in Seq(WatchEvents)
  PROVE  /\ QueueEvents(q, events) \in Seq(WatchEvents)
         /\ HasUrgent(q) \/ HasUrgent(events) => HasUrgent(QueueEvents(q, events))
  <1>0. Len(events) \in Nat
    OBVIOUS
  <1> DEFINE F == CHOOSE G : IsQueued(G, q, events, Len(events))
  <1>1. IsQueued(F, q, events, Len(events))
    BY <1>0, QueuedExists
  <1>2. QueueEvents(q, events) = F[Len(events)]
    BY DEF QueueEvents, IsQueued
  <1>3. F[0] = q /\ \A k \in 1 .. Len(events) : F[k] = Queued(F[k - 1], events[k])
    <2>1. PICK G : G = F
      OBVIOUS
    <2>2. G = [k \in 0 .. Len(events) |-> IF k = 0 THEN q ELSE Queued(G[k - 1], events[k])]
      BY <1>1, <2>1 DEF IsQueued
    <2>3. \A k \in 0 .. Len(events) : G[k] = IF k = 0 THEN q ELSE Queued(G[k - 1], events[k])
      BY <2>2
    <2> HIDE DEF F
    <2> QED
      BY <1>0, <2>1, <2>3
  <1> HIDE DEF F
  <1> DEFINE Good(k) == /\ F[k] \in Seq(WatchEvents)
                        /\ HasUrgent(q) \/ (\E i \in 1 .. k : IsUrgent(events[i])) => HasUrgent(F[k])
             T == {k \in 0 .. Len(events) : ~Good(k)}
  <1>4. T = {}
    <2> SUFFICES ASSUME T # {} PROVE FALSE
      OBVIOUS
    <2>0. T \in SUBSET Nat
      BY <1>0
    <2>1. PICK k \in T : \A m \in T : k <= m
      <3> HIDE DEF T
      <3> QED
        BY <2>0, LeastNumber
    <2>2. CASE k = 0
      <3>1. Good(0)
        BY <1>3
      <3> QED
        BY <2>1, <2>2, <3>1
    <2>3. CASE k # 0
      <3>1. k - 1 \in 0 .. Len(events) /\ k \in 1 .. Len(events) /\ k - 1 \notin T
        BY <1>0, <2>1, <2>3
      <3>2. Good(k - 1)
        BY <3>1
      <3>3. PICK g \in Seq(WatchEvents) : g = F[k - 1]
        BY <3>2
      <3>4. PICK e \in WatchEvents : e = events[k]
        BY <3>1
      <3>5. F[k] = Queued(g, e)
        BY <1>3, <3>1, <3>3, <3>4
      <3>6. /\ Queued(g, e) \in Seq(WatchEvents)
            /\ HasUrgent(g) \/ IsUrgent(e) => HasUrgent(Queued(g, e))
        BY QueuedKeeps
      <3>7. \A i \in 1 .. k : i = k \/ i \in 1 .. k - 1
        BY <3>1
      <3>8. (\E i \in 1 .. k : IsUrgent(events[i])) =>
               IsUrgent(e) \/ \E i \in 1 .. k - 1 : IsUrgent(events[i])
        BY <3>4, <3>7
      <3>9. Good(k)
        BY <3>2, <3>3, <3>5, <3>6, <3>8
      <3> QED
        BY <2>1, <3>9
    <2> QED
      BY <2>2, <2>3
  <1>5. Good(Len(events))
    BY <1>0, <1>4
  <1> QED
    BY <1>2, <1>5 DEF HasUrgent

\* A finite set has a list.
LEMMA SetIsListed ==
  ASSUME NEW S, IsFiniteSet(S)
  PROVE  SetToSeq(S) \in Seq(S)
  <1>1. PICK f : f \in Bijection(1 .. Cardinality(S), S)
    BY FS_CardinalityType DEF ExistsBijection
  <1>2. f \in [1 .. Cardinality(S) -> S] /\ IsInjective(f)
    BY <1>1 DEF Bijection, Injection
  <1>3. SetToSeq(S) \in [1 .. Cardinality(S) -> S]
    BY <1>2 DEF SetToSeq
  <1>4. Cardinality(S) \in Nat
    BY FS_CardinalityType
  <1> QED
    BY <1>3, <1>4

\* ForgetBelow queues the end of each watch, and leaves the root its own.
LEMMA Forgetting ==
  ASSUME WatchTypeOK, NEW path, NEW q \in Seq(WatchEvents), ForgetBelow(path, q)
  PROVE  /\ wdOf' \in [WatchDirs -> Nat] /\ nextWd' \in Nat
         /\ queue' \in Seq(WatchEvents)
         /\ wdOf[Root] = RootWd => wdOf'[Root] = RootWd
         /\ HasUrgent(q) => HasUrgent(queue')
  <1> DEFINE removed == {d \in DOMAIN wdOf : wdOf[d] \in Forgotten(path)}
             ignored == [d \in removed |-> [wd |-> wdOf[d], what |-> "ignored", name |-> ""]]
             S == {[wd |-> wdOf[d], what |-> "ignored", name |-> ""] : d \in removed}
  <1>1. DOMAIN wdOf = WatchDirs /\ \A d \in WatchDirs : wdOf[d] \in Nat
    BY DEF WatchTypeOK
  <1>2. IsFiniteSet(removed)
    <2>1. IsFiniteSet(WatchDirs)
      BY WatchAssumption, FS_AddElement DEF WatchDirs
    <2>2. removed \in SUBSET WatchDirs
      BY <1>1
    <2> HIDE DEF removed
    <2> QED
      BY <2>1, <2>2, FS_Subset
  <1>3. S \subseteq WatchEvents
    <2>1. ASSUME NEW d \in removed
          PROVE  [wd |-> wdOf[d], what |-> "ignored", name |-> ""] \in WatchEvents
      BY <1>1 DEF WatchEvents
    <2> HIDE DEF removed
    <2> QED
      BY <2>1
  <1>4. IsFiniteSet(S)
    <2>1. ignored \in Surjection(removed, S)
      <3> HIDE DEF removed
      <3> QED
        BY DEF Surjection
    <2> HIDE DEF removed, ignored, S
    <2> QED
      BY <1>2, <2>1, FS_Surjection
  <1>5. SetToSeq(S) \in Seq(WatchEvents)
    <2>1. SetToSeq(S) \in Seq(S)
      <3> HIDE DEF S
      <3> QED
        BY <1>4, SetIsListed
    <2> HIDE DEF S
    <2> QED
      BY <1>3, <2>1
  <1>6. queue' = QueueEvents(q, SetToSeq(S))
    BY DEF ForgetBelow
  <1>7. queue' \in Seq(WatchEvents) /\ (HasUrgent(q) => HasUrgent(queue'))
    <2> HIDE DEF S
    <2> QED
      BY <1>5, <1>6, EventsAreQueued
  <1>8. wdOf' \in [WatchDirs -> Nat] /\ nextWd' \in Nat
    BY <1>1 DEF ForgetBelow, WatchTypeOK
  <1>9. wdOf[Root] = RootWd => wdOf'[Root] = RootWd
    BY <1>1 DEF ForgetBelow, Forgotten, WatchDirs
  <1> QED
    BY <1>7, <1>8, <1>9

LEMMA RootInitInv == WatchInit => RootInv
  <1> SUFFICES ASSUME WatchInit PROVE RootInv
    OBVIOUS
  <1>1. (CHOOSE n \in FolderNames : TRUE) \in FolderNames
    BY WatchAssumption
  <1>2. at \in [Folders -> [in : WatchDirs \cup {Outside, Away, Gone}, as : FolderNames \cup {""}]]
    <2> DEFINE first == CHOOSE i \in Folders : TRUE
               name == CHOOSE n \in FolderNames : TRUE
               Place == [in : WatchDirs \cup {Outside, Away, Gone}, as : FolderNames \cup {""}]
    <2>1. PICK i \in Folders, dir \in Folders \cup {Outside} :
             at = [j \in Folders |-> IF j = first THEN [in |-> Root, as |-> name]
                                     ELSE IF j = i /\ dir # Outside THEN [in |-> dir, as |-> name]
                                     ELSE [in |-> Outside, as |-> ""]]
      BY DEF WatchInit
    <2>2. name \in FolderNames
      BY <1>1
    <2> HIDE DEF first, name
    <2>3. /\ [in |-> Root, as |-> name] \in Place /\ [in |-> dir, as |-> name] \in Place
          /\ [in |-> Outside, as |-> ""] \in Place
      BY <2>2 DEF WatchDirs
    <2> HIDE DEF Place
    <2>4. at \in [Folders -> Place]
      BY <2>1, <2>3
    <2> QED
      BY <2>4 DEF Place
  <1>3. queue \in Seq(WatchEvents) /\ wdOf \in [WatchDirs -> Nat] /\ nextWd \in Nat
    <2>1. queue = <<>> /\ nextWd = 1 /\ wdOf = [d \in WatchDirs |-> 0]
      BY DEF WatchInit, WatchDirs, RootWd
    <2> QED
      BY <2>1
  <1> QED
    BY <1>2, <1>3 DEF WatchInit, RootInv, WatchTypeOK

\* A step of another program, which queues events.
LEMMA ChangeKeeps ==
  ASSUME RootInv, NEW events \in Seq(WatchEvents), Changed(events),
         at' \in [Folders -> [in : WatchDirs \cup {Outside, Away, Gone}, as : FolderNames \cup {""}]],
         wdOf' \in [WatchDirs -> Nat], wdOf'[Root] = wdOf[Root], nextWd' = nextWd,
         rootHere' = rootHere \/ (wdOf[Root] = RootWd => HasUrgent(events))
  PROVE  RootInv'
  <1>1. /\ QueueEvents(queue, events) \in Seq(WatchEvents)
        /\ HasUrgent(queue) \/ HasUrgent(events) => HasUrgent(QueueEvents(queue, events))
    BY EventsAreQueued DEF RootInv, WatchTypeOK
  <1>2. queue' \in Seq(WatchEvents)
    BY <1>1 DEF Changed, RootInv, WatchTypeOK
  <1>3. /\ dwPc' = dwPc /\ isRootGone' = isRootGone /\ shouldWalkAgain' = shouldWalkAgain
        /\ dwPc \in {"walk", "idle", "drain", "arrive"} => queue' = QueueEvents(queue, events)
    BY DEF Changed, localVars
  <1>4. WatchTypeOK'
    BY <1>2, <1>3 DEF RootInv, WatchTypeOK
  <1>5. ASSUME dwPc \in {"walk", "idle", "drain", "arrive"}, HasUrgent(queue) \/ HasUrgent(events)
        PROVE  HasUrgent(queue)'
    BY <1>1, <1>3, <1>5 DEF HasUrgent, IsUrgent
  <1>6. dwPc' \in {"walk", "idle", "drain", "arrive"} =>
           /\ wdOf'[Root] = RootWd
           /\ rootHere' \/ isRootGone' \/ shouldWalkAgain' \/ HasUrgent(queue)'
    BY <1>3, <1>5 DEF RootInv
  <1> QED
    BY <1>3, <1>4, <1>6 DEF RootInv

LEMMA ShortLists ==
  ASSUME NEW S
  PROVE  << >> \in Seq(S) /\ \A e \in S : << e >> \in Seq(S)
  OBVIOUS

LEMMA EventTypes ==
  ASSUME WatchTypeOK, NEW dir \in WatchDirs,
         NEW what \in {"arrived", "left", "ignored", "gone", "overflow"},
         NEW name \in FolderNames \cup {""}
  PROVE  Event(dir, what, name) \in Seq(WatchEvents)
  <1>1. wdOf[dir] \in Nat
    BY DEF WatchTypeOK
  <1>2. [wd |-> wdOf[dir], what |-> what, name |-> name] \in WatchEvents
    BY <1>1 DEF WatchEvents
  <1> QED
    BY <1>2, ShortLists, Zenon DEF Event

\* In the tree, or in a circle, which no program can make.
IsIn(F) == F = [j \in Folders |-> at[j].in = Root \/ (at[j].in \in Folders /\ F[at[j].in])]

LEMMA InExists == \E F : IsIn(F)
  <1> DEFINE LeadsUp(X) == \A k \in X : at[k].in = Root \/ at[k].in \in X
             Held(j) == \E X \in SUBSET Folders : j \in X /\ LeadsUp(X)
             F == [j \in Folders |-> Held(j)]
  <1>1. ASSUME NEW j \in Folders
        PROVE  Held(j) <=> at[j].in = Root \/ (at[j].in \in Folders /\ Held(at[j].in))
    <2>1. CASE at[j].in = Root
      <3>1. {j} \in SUBSET Folders /\ LeadsUp({j})
        BY <2>1
      <3> QED
        BY <2>1, <3>1
    <2>2. ASSUME at[j].in \in Folders, Held(at[j].in) PROVE Held(j)
      <3>1. PICK X \in SUBSET Folders : at[j].in \in X /\ LeadsUp(X)
        BY <2>2
      <3>2. X \cup {j} \in SUBSET Folders /\ LeadsUp(X \cup {j})
        BY <3>1
      <3> QED
        BY <3>2
    <2>3. ASSUME Held(j), at[j].in # Root PROVE at[j].in \in Folders /\ Held(at[j].in)
      BY <2>3
    <2> QED
      BY <2>1, <2>2, <2>3
  <1>2. \A j : Held(j) \in BOOLEAN
    OBVIOUS
  <1> HIDE DEF Held
  <1>3. F = [j \in Folders |-> at[j].in = Root \/ (at[j].in \in Folders /\ F[at[j].in])]
    <2> DEFINE InNext(j) == at[j].in = Root \/ (at[j].in \in Folders /\ F[at[j].in])
    <2>1. ASSUME NEW j \in Folders PROVE Held(j) = InNext(j)
      <3>1. at[j].in \in Folders => F[at[j].in] = Held(at[j].in)
        OBVIOUS
      <3>2. Held(j) <=> InNext(j)
        BY <1>1, <3>1
      <3> QED
        BY <1>2, <3>2
    <2> HIDE DEF InNext
    <2>2. [j \in Folders |-> Held(j)] = [j \in Folders |-> InNext(j)]
      BY <2>1
    <2> QED
      BY <2>2 DEF InNext
  <1> QED
    BY <1>3 DEF IsIn

\* What is in the tree is in a folder.
LEMMA ParentIsThere ==
  ASSUME NEW i \in Folders, InTree[i]
  PROVE  at[i].in \in WatchDirs
  <1> DEFINE F == CHOOSE G : IsIn(G)
  <1>1. IsIn(F)
    BY InExists
  <1>2. InTree[i] = F[i]
    BY WatchAssumption DEF InTree, IsIn
  <1>3. PICK G : G = F
    OBVIOUS
  <1>4. G = [j \in Folders |-> at[j].in = Root \/ (at[j].in \in Folders /\ G[at[j].in])]
    BY <1>1, <1>3 DEF IsIn
  <1> HIDE DEF F
  <1> QED
    BY <1>2, <1>3, <1>4 DEF WatchDirs

OtherPrograms ==
    \/ \E i \in Folders : FolderLeaves(i) \/ FolderRemoved(i)
    \/ \E i \in Folders, dir \in Folders \cup {Root}, name \in FolderNames :
          FolderArrives(i, dir, name) \/ FolderMoves(i, dir, name)
    \/ RootLeaves

LEMMA OthersKeepRoot ==
  ASSUME RootInv, OtherPrograms
  PROVE  RootInv'
  <1> DEFINE Ats == [Folders -> [in : WatchDirs \cup {Outside, Away, Gone}, as : FolderNames \cup {""}]]
  <1>0. /\ WatchTypeOK /\ at \in Ats /\ wdOf \in [WatchDirs -> Nat]
        /\ Root \in WatchDirs /\ Root \notin Folders /\ Folders \subseteq WatchDirs
    BY WatchAssumption DEF RootInv, WatchTypeOK, WatchDirs
  <1>1. ASSUME NEW i \in Folders, FolderLeaves(i) PROVE RootInv'
    <2>1. at[i].in \in WatchDirs /\ at[i].as \in FolderNames \cup {""}
      BY <1>0, <1>1, ParentIsThere DEF FolderLeaves
    <2>2. Event(at[i].in, "left", at[i].as) \in Seq(WatchEvents)
      BY <1>0, <2>1, EventTypes
    <2>3. Changed(Event(at[i].in, "left", at[i].as))
      BY <1>1 DEF FolderLeaves
    <2>4. at' \in Ats
      BY <1>0, <1>1 DEF FolderLeaves
    <2>5. nextWd' = nextWd /\ rootHere' = rootHere /\ wdOf' = wdOf
      BY <1>1 DEF FolderLeaves
    <2> QED
      BY <1>0, <2>2, <2>3, <2>4, <2>5, ChangeKeeps
  <1>2. ASSUME NEW i \in Folders, FolderRemoved(i) PROVE RootInv'
    <2>1. Event(i, "ignored", "") \in Seq(WatchEvents)
      BY <1>0, EventTypes
    <2>2. Changed(Event(i, "ignored", ""))
      BY <1>2 DEF FolderRemoved
    <2>3. at' \in Ats /\ wdOf' \in [WatchDirs -> Nat] /\ wdOf'[Root] = wdOf[Root]
      BY <1>0, <1>2 DEF FolderRemoved
    <2>4. nextWd' = nextWd /\ rootHere' = rootHere
      BY <1>2 DEF FolderRemoved
    <2> QED
      BY <2>1, <2>2, <2>3, <2>4, ChangeKeeps
  <1>3. ASSUME NEW i \in Folders, NEW dir \in Folders \cup {Root}, NEW name \in FolderNames,
               FolderArrives(i, dir, name)
        PROVE  RootInv'
    <2>1. Event(dir, "arrived", name) \in Seq(WatchEvents)
      BY <1>0, EventTypes DEF WatchDirs
    <2>2. Changed(Event(dir, "arrived", name))
      BY <1>3 DEF FolderArrives
    <2>3. at' \in Ats
      BY <1>0, <1>3 DEF FolderArrives, WatchDirs
    <2>4. nextWd' = nextWd /\ rootHere' = rootHere /\ wdOf' = wdOf
      BY <1>3 DEF FolderArrives
    <2> QED
      BY <1>0, <2>1, <2>2, <2>3, <2>4, ChangeKeeps
  <1>4. ASSUME NEW i \in Folders, NEW dir \in Folders \cup {Root}, NEW name \in FolderNames,
               FolderMoves(i, dir, name)
        PROVE  RootInv'
    <2>1. at[i].in \in WatchDirs /\ at[i].as \in FolderNames \cup {""}
      BY <1>0, <1>4, ParentIsThere DEF FolderMoves
    <2>2. /\ Event(at[i].in, "left", at[i].as) \in Seq(WatchEvents)
          /\ Event(dir, "arrived", name) \in Seq(WatchEvents)
      BY <1>0, <2>1, EventTypes DEF WatchDirs
    <2>3. Event(at[i].in, "left", at[i].as) \o Event(dir, "arrived", name) \in Seq(WatchEvents)
      BY <2>2
    <2>4. Changed(Event(at[i].in, "left", at[i].as) \o Event(dir, "arrived", name))
      BY <1>4 DEF FolderMoves
    <2>5. at' \in Ats
      BY <1>0, <1>4 DEF FolderMoves, WatchDirs
    <2>6. nextWd' = nextWd /\ rootHere' = rootHere /\ wdOf' = wdOf
      BY <1>4 DEF FolderMoves
    <2> QED
      BY <1>0, <2>3, <2>4, <2>5, <2>6, ChangeKeeps
  <1>5. CASE RootLeaves
    <2>1. Event(Root, "gone", "") \in Seq(WatchEvents)
      BY <1>0, EventTypes
    <2>2. Changed(Event(Root, "gone", ""))
      BY <1>5 DEF RootLeaves
    <2>3. nextWd' = nextWd /\ at' = at /\ wdOf' = wdOf
      BY <1>5 DEF RootLeaves
    <2>4. ASSUME wdOf[Root] = RootWd PROVE HasUrgent(Event(Root, "gone", ""))
      <3>1. Event(Root, "gone", "") = << [wd |-> RootWd, what |-> "gone", name |-> ""] >>
        BY <2>4 DEF Event, RootWd
      <3>2. PICK q : q = Event(Root, "gone", "")
        OBVIOUS
      <3>3. q = << [wd |-> RootWd, what |-> "gone", name |-> ""] >>
        BY <3>1, <3>2, Zenon
      <3>4. Len(q) = 1 /\ q[1].what = "gone"
        BY <3>3
      <3>5. HasUrgent(q)
        BY <3>4 DEF HasUrgent, IsUrgent
      <3> QED
        BY <3>2, <3>5, Zenon
    <2> QED
      BY <1>0, <2>1, <2>2, <2>3, <2>4, ChangeKeeps
  <1> QED
    BY <1>1, <1>2, <1>3, <1>4, <1>5 DEF OtherPrograms

\* A new descriptor is never the root's.
LEMMA AddWatchKeeps ==
  ASSUME WatchTypeOK, NEW path, NEW what, AddWatch(path, what)
  PROVE  /\ wdOf' \in [WatchDirs -> Nat] /\ nextWd' \in Nat /\ queue' = queue
         /\ wdOf[Root] = RootWd => wdOf'[Root] = RootWd
  <1>1. \A i \in FoldersAt(path) : i \in WatchDirs
    BY DEF FoldersAt, WatchDirs
  <1>2. Root \in WatchDirs
    BY DEF WatchDirs
  <1>3. CASE UNCHANGED kernelVars
    BY <1>3 DEF kernelVars, WatchTypeOK
  <1>4. ASSUME NEW i \in FoldersAt(path), wdOf[i] = 0, wdOf' = [wdOf EXCEPT ![i] = nextWd],
               nextWd' = nextWd + 1, UNCHANGED queue
        PROVE  /\ wdOf' \in [WatchDirs -> Nat] /\ nextWd' \in Nat /\ queue' = queue
               /\ wdOf[Root] = RootWd => wdOf'[Root] = RootWd
    <2>1. wdOf \in [WatchDirs -> Nat] /\ nextWd \in Nat /\ nextWd' \in Nat
      <3>1. wdOf \in [WatchDirs -> Nat] /\ nextWd \in Nat
        BY DEF WatchTypeOK
      <3>2. \A n \in Nat : n + 1 \in Nat
        OBVIOUS
      <3> QED
        BY <1>4, <3>1, <3>2
    <2>2. wdOf' \in [WatchDirs -> Nat]
      BY <1>4, <2>1
    <2>3. wdOf[Root] = RootWd => i # Root
      BY <1>4 DEF RootWd
    <2>4. i # Root => wdOf'[Root] = wdOf[Root]
      BY <1>2, <1>4, <2>1
    <2> QED
      BY <1>4, <2>1, <2>2, <2>3, <2>4
  <1>5. \/ UNCHANGED kernelVars
        \/ \E i \in FoldersAt(path) :
              /\ wdOf[i] = 0 /\ wdOf' = [wdOf EXCEPT ![i] = nextWd]
              /\ nextWd' = nextWd + 1 /\ UNCHANGED queue
    BY DEF AddWatch, kernelVars
  <1> QED
    BY <1>3, <1>4, <1>5

\* ReadEvent takes the queue's head: if it was the only urgent event, it is taken notice of.
LEMMA QueueRead ==
  ASSUME WatchTypeOK, queue # <<>>
  PROVE  /\ Head(queue) \in WatchEvents /\ Tail(queue) \in Seq(WatchEvents)
         /\ HasUrgent(queue) => IsUrgent(Head(queue)) \/ HasUrgent(Tail(queue))
  <1>1. PICK q \in Seq(WatchEvents) : q = queue
    BY DEF WatchTypeOK
  <1>2. /\ Head(q) \in WatchEvents /\ Tail(q) \in Seq(WatchEvents)
        /\ Len(q) \in Nat /\ Len(q) > 0 /\ Len(Tail(q)) = Len(q) - 1 /\ Head(q) = q[1]
        /\ \A k \in 1 .. Len(Tail(q)) : Tail(q)[k] = q[k + 1]
    BY <1>1
  <1>3. ASSUME NEW k \in 1 .. Len(q), k # 1
        PROVE  k - 1 \in 1 .. Len(Tail(q)) /\ Tail(q)[k - 1] = q[k]
    <2>1. k - 1 \in 1 .. Len(Tail(q)) /\ (k - 1) + 1 = k
      BY <1>2, <1>3
    <2> QED
      BY <1>2, <2>1
  <1>4. HasUrgent(q) => IsUrgent(Head(q)) \/ HasUrgent(Tail(q))
    BY <1>2, <1>3 DEF HasUrgent
  <1> QED
    BY <1>1, <1>2, <1>4

\* Every step of the watch and of the other programs.
LEMMA RootNextInv ==
  ASSUME RootInv, WatchNext \/ UNCHANGED watchVars
  PROVE  RootInv'
  <1> DEFINE Ats == [Folders -> [in : WatchDirs \cup {Outside, Away, Gone}, as : FolderNames \cup {""}]]
             IsOn == dwPc \in {"walk", "idle", "drain", "arrive"}
             EndKnown == rootHere \/ isRootGone \/ shouldWalkAgain \/ HasUrgent(queue)
  <1>0. /\ WatchTypeOK /\ at \in Ats /\ wdOf \in [WatchDirs -> Nat] /\ nextWd \in Nat
        /\ queue \in Seq(WatchEvents)
    BY DEF RootInv, WatchTypeOK
  <1>1. ASSUME UNCHANGED <<treeVars, kernelVars>>,
               dwPc' \in {"off", "walk", "idle", "drain", "arrive", "ended", "terminated"},
               IsOn' => IsOn /\ (EndKnown => isRootGone' \/ shouldWalkAgain' \/ rootHere \/ HasUrgent(queue)),
               isRootGone' => dwPc' \in {"drain", "ended"},
               shouldWalkAgain' => dwPc' \in {"drain", "arrive", "walk", "ended"}
        PROVE  RootInv'
    <2>1. WatchTypeOK' /\ rootHere' = rootHere /\ (HasUrgent(queue)' <=> HasUrgent(queue))
          /\ wdOf' = wdOf
      BY <1>0, <1>1 DEF WatchTypeOK, treeVars, kernelVars, HasUrgent, IsUrgent
    <2> QED
      BY <1>1, <2>1 DEF RootInv
  <1>2. CASE Initialize
    <2>1. CASE ~rootHere
      BY <1>0, <1>2, <2>1 DEF Initialize, End, RootInv, WatchTypeOK, treeVars, kernelVars, localVars
    <2>2. CASE rootHere
      <3>1. wdOf' = [wdOf EXCEPT ![Root] = RootWd] /\ nextWd' = RootWd + 1 /\ queue' = queue
            /\ dwPc' \in {"walk", "idle"} /\ at' = at /\ rootHere' = rootHere
            /\ isRootGone' = isRootGone /\ shouldWalkAgain' = shouldWalkAgain /\ dwPc = "off"
        BY <1>2, <2>2 DEF Initialize, treeVars, localVars
      <3>2. RootWd \in Nat /\ Root \in WatchDirs
        BY DEF RootWd, WatchDirs
      <3>3. wdOf' \in [WatchDirs -> Nat] /\ wdOf'[Root] = RootWd /\ nextWd' \in Nat
        <4>1. wdOf' \in [WatchDirs -> Nat]
          BY <1>0, <3>1, <3>2
        <4>2. wdOf'[Root] = RootWd
          BY <1>0, <3>1, <3>2
        <4>3. nextWd' \in Nat
          BY <3>1 DEF RootWd
        <4> QED
          BY <4>1, <4>2, <4>3
      <3>4. WatchTypeOK'
        BY <1>0, <3>1, <3>3 DEF WatchTypeOK
      <3> QED
        BY <2>2, <3>1, <3>3, <3>4 DEF RootInv
    <2> QED
      BY <2>1, <2>2
  <1>3. CASE ListFolder
    BY <1>1, <1>3 DEF ListFolder, RootInv, treeVars, kernelVars, localVars
  <1>4. CASE WalkDone
    BY <1>1, <1>4 DEF WalkDone, RootInv, treeVars, kernelVars, localVars
  <1>5. CASE ReadChanges
    BY <1>1, <1>5 DEF ReadChanges, RootInv, treeVars, kernelVars, localVars
  <1>6. CASE QueueEmpty
    <2>1. queue = <<>> => ~HasUrgent(queue)
      BY DEF HasUrgent
    <2> QED
      BY <1>1, <1>6, <2>1 DEF QueueEmpty, End, RootInv, treeVars, kernelVars, localVars
  <1>7. CASE ChangesRead
    BY <1>1, <1>7 DEF ChangesRead, RootInv, treeVars, kernelVars, localVars
  <1>8. CASE UNCHANGED watchVars
    BY <1>1, <1>8 DEF watchVars, RootInv, WatchTypeOK, treeVars, kernelVars, localVars
  <1>9. ASSUME NEW path, NEW what, AddWatch(path, what), UNCHANGED <<treeVars, isRootGone, shouldWalkAgain>>,
               \/ dwPc = "walk" /\ dwPc' \in {"walk", "ended"}
               \/ dwPc = "arrive" /\ dwPc' \in {"arrive", "walk", "ended"}
        PROVE  RootInv'
    <2>1. /\ wdOf' \in [WatchDirs -> Nat] /\ nextWd' \in Nat /\ queue' = queue
          /\ wdOf[Root] = RootWd => wdOf'[Root] = RootWd
      BY <1>0, <1>9, AddWatchKeeps
    <2>2. WatchTypeOK' /\ rootHere' = rootHere /\ (HasUrgent(queue)' <=> HasUrgent(queue))
      BY <1>0, <1>9, <2>1 DEF WatchTypeOK, treeVars, HasUrgent, IsUrgent
    <2> QED
      BY <1>9, <2>1, <2>2 DEF RootInv
  <1>10. CASE WatchEntry
    BY <1>9, <1>10 DEF WatchEntry, End, localVars
  <1>11. CASE WatchNewFolder
    BY <1>9, <1>11 DEF WatchNewFolder
  <1>12. CASE ReadEvent
    <2>1. /\ Head(queue) \in WatchEvents /\ Tail(queue) \in Seq(WatchEvents)
          /\ HasUrgent(queue) => IsUrgent(Head(queue)) \/ HasUrgent(Tail(queue))
      BY <1>0, <1>12, QueueRead DEF ReadEvent
    <2>2. /\ dwPc = "drain" /\ dwPc' = dwPc /\ at' = at /\ rootHere' = rootHere
      BY <1>12 DEF ReadEvent, treeVars
    <2>3. ASSUME wdOf' \in [WatchDirs -> Nat], nextWd' \in Nat, queue' \in Seq(WatchEvents),
                 wdOf[Root] = RootWd => wdOf'[Root] = RootWd,
                 HasUrgent(queue) => isRootGone' \/ shouldWalkAgain' \/ HasUrgent(queue'),
                 isRootGone => isRootGone', shouldWalkAgain => shouldWalkAgain'
          PROVE  RootInv'
      <3>1. WatchTypeOK'
        BY <1>0, <2>2, <2>3 DEF WatchTypeOK
      <3>2. HasUrgent(queue') <=> HasUrgent(queue)'
        BY DEF HasUrgent, IsUrgent
      <3> QED
        BY <2>2, <2>3, <3>1, <3>2 DEF RootInv
    <2>4. CASE Head(queue).what = "overflow"
      <3>1. shouldWalkAgain' = TRUE /\ queue' = Tail(queue)
            /\ UNCHANGED <<wdOf, nextWd, isRootGone>>
        BY <1>12, <2>4 DEF ReadEvent
      <3> QED
        BY <1>0, <2>1, <2>3, <3>1
    <2>5. CASE Head(queue).what = "gone"
      <3>1. isRootGone' = TRUE /\ queue' = Tail(queue)
            /\ UNCHANGED <<wdOf, nextWd, shouldWalkAgain>>
        BY <1>12, <2>5 DEF ReadEvent
      <3> QED
        BY <1>0, <2>1, <2>3, <3>1
    <2>6. CASE Head(queue).what \in {"ignored", "arrived"}
      <3>1. queue' = Tail(queue) /\ UNCHANGED <<wdOf, nextWd, isRootGone, shouldWalkAgain>>
        BY <1>12, <2>6 DEF ReadEvent, localVars
      <3>2. ~IsUrgent(Head(queue))
        BY <2>6 DEF IsUrgent
      <3> QED
        BY <1>0, <2>1, <2>3, <3>1, <3>2
    <2>7. CASE Head(queue).what = "left"
      <3>1. UNCHANGED <<isRootGone, shouldWalkAgain>>
        BY <1>12, <2>7 DEF ReadEvent, localVars
      <3>2. ~IsUrgent(Head(queue))
        BY <2>7 DEF IsUrgent
      <3>3. \/ \E path : ForgetBelow(path, Tail(queue))
            \/ queue' = Tail(queue) /\ UNCHANGED <<wdOf, nextWd>>
        BY <1>12, <2>7 DEF ReadEvent
      <3>4. CASE \E path : ForgetBelow(path, Tail(queue))
        BY <1>0, <2>1, <2>3, <3>1, <3>2, <3>4, Forgetting
      <3>5. CASE queue' = Tail(queue) /\ UNCHANGED <<wdOf, nextWd>>
        BY <1>0, <2>1, <2>3, <3>1, <3>2, <3>5
      <3> QED
        BY <3>3, <3>4, <3>5
    <2> QED
      BY <2>1, <2>4, <2>5, <2>6, <2>7 DEF WatchEvents
  <1>13. CASE WalkAgain
    <2>1. /\ dwPc = "arrive" /\ shouldWalkAgain' = FALSE /\ at' = at /\ rootHere' = rootHere
          /\ isRootGone' = isRootGone
      BY <1>13 DEF WalkAgain, treeVars
    <2>2. CASE ~rootHere
      <3>1. dwPc' = "ended" /\ UNCHANGED kernelVars
        BY <1>13, <2>2 DEF WalkAgain, End
      <3> QED
        BY <1>0, <2>1, <3>1 DEF RootInv, WatchTypeOK, kernelVars
    <2>3. CASE rootHere /\ scope = "Tree"
      <3>1. ForgetBelow(<<>>, queue) /\ dwPc' = "walk"
        BY <1>13, <2>3 DEF WalkAgain
      <3>2. /\ wdOf' \in [WatchDirs -> Nat] /\ nextWd' \in Nat /\ queue' \in Seq(WatchEvents)
            /\ wdOf[Root] = RootWd => wdOf'[Root] = RootWd
        BY <1>0, <3>1, Forgetting
      <3>3. WatchTypeOK'
        BY <1>0, <2>1, <3>1, <3>2 DEF WatchTypeOK
      <3> QED
        BY <2>1, <2>3, <3>1, <3>2, <3>3 DEF RootInv
    <2>4. CASE rootHere /\ scope # "Tree"
      <3>1. dwPc' = "idle" /\ UNCHANGED kernelVars
        BY <1>13, <2>4 DEF WalkAgain
      <3> QED
        BY <1>0, <2>1, <2>4, <3>1 DEF RootInv, WatchTypeOK, kernelVars
    <2> QED
      BY <2>2, <2>3, <2>4
  <1>14. CASE Terminate
    <2>1. wdOf' = [d \in WatchDirs |-> 0] /\ queue' = <<>> /\ dwPc' = "terminated"
          /\ isRootGone' = FALSE /\ shouldWalkAgain' = FALSE /\ at' = at /\ nextWd' = nextWd
      BY <1>0, <1>14 DEF Terminate, treeVars
    <2>2. wdOf' \in [WatchDirs -> Nat] /\ queue' \in Seq(WatchEvents)
      BY <2>1, ShortLists
    <2>3. WatchTypeOK'
      BY <1>0, <2>1, <2>2 DEF WatchTypeOK
    <2> QED
      BY <2>1, <2>3 DEF RootInv
  <1>15. CASE OtherPrograms
    BY <1>15, OthersKeepRoot
  <1>16. CASE WatchNext
    BY <1>2, <1>3, <1>4, <1>5, <1>6, <1>7, <1>10, <1>11, <1>12, <1>13, <1>14, <1>15, <1>16
    DEF WatchNext, OtherPrograms
  <1> QED
    BY <1>8, <1>16

LEMMA RootEndSeen == RootInv => RootEndIsSeen
  <1>1. queue = <<>> => ~HasUrgent(queue)
    BY DEF HasUrgent
  <1> QED
    BY <1>1 DEF RootInv, RootEndIsSeen

-----------------------------------------------------------------------------
(***************************************************************************)
(* All of them together.                                                   *)
(***************************************************************************)
PartsInv == LookupInv /\ RootInv /\ ReadInv /\ ProcInv /\ NetInv /\ ConsoleInv /\ CertInv

LEMMA PartsStep ==
  ASSUME [Next]_vars
  PROVE  /\ platform' = platform
         /\ LookupNext \/ UNCHANGED lookupVars
         /\ WatchNext \/ UNCHANGED watchVars
         /\ ReadNext \/ UNCHANGED readVars
         /\ ProcNext \/ UNCHANGED procVars
         /\ NetNext \/ UNCHANGED netVars
         /\ ConsoleNext \/ UNCHANGED consoleVars
         /\ CertNext \/ UNCHANGED certVars
  BY DEF Next, Only, vars

(* The invariants of the lookups, both watches, the children, the sockets, *)
(* the console and the certificates' calls, whichever of them a behaviour  *)
(* is about.                                                               *)
THEOREM PartsInvariant == Spec => []PartsInv
  <1>1. Init => PartsInv
    BY LookupInitInv, RootInitInv, ReadInitInv, ProcInitInv, NetInitInv, ConsoleInitInv, CertInitInv
    DEF Init, PartsInv
  <1>2. PartsInv /\ [Next]_vars => PartsInv'
    BY PartsStep, LookupNextInv, RootNextInv, ReadNextInv, ProcNextInv, NetNextInv, ConsoleNextInv,
       CertNextInv
    DEF PartsInv
  <1> QED
    BY <1>1, <1>2, PTL DEF Spec

(* Whatever the resolver, Poll, Terminate, the cancelled read and Release  *)
(* do first, the system writes into memory that is still there.            *)
THEOREM SystemWritesAreSafe == Spec => []SystemWritesIntoLive
  <1>1. PartsInv => SystemWritesIntoLive
    BY DEF PartsInv, LookupInv, LookupOK, ReadInv, HeldByRead, SystemWritesIntoLive,
           ResolverWritesIntoLive, BufferOutlivesRead
  <1> QED
    BY <1>1, PartsInvariant, PTL

(* On Linux no read that starts after the root has gone ends well, even if *)
(* the event that told of it was lost to an overflow.                      *)
THEOREM RootEndIsNoticed == Spec => []RootEndIsSeen
  <1>1. PartsInv => RootEndIsSeen
    BY RootEndSeen DEF PartsInv
  <1> QED
    BY <1>1, PartsInvariant, PTL

(* On Windows no change is lost between one read of the folder and the     *)
(* next, unless the watch says so.                                         *)
THEOREM WindowsWatchMissesNothing == Spec => []NoChangeMissed
  <1>1. PartsInv => NoChangeMissed
    BY DEF PartsInv, ReadInv, ChangesKept, NoChangeMissed
  <1> QED
    BY <1>1, PartsInvariant, PTL

(* The exit that is reported of a child, and the streams it holds, are its *)
(* own, however many children and ids there are.                           *)
THEOREM ChildrenAreOwn == Spec => []ChildIsOwn
  <1>1. PartsInv => ChildIsOwn
    BY DEF PartsInv, ProcInv, ChildOK, StreamsOK, OwnStreams, ChildIsOwn, ExitIsOwn, StreamsAreOwn
  <1> QED
    BY <1>1, PartsInvariant, PTL

(* However poll, SO_ERROR and recv fall between the network's steps, a     *)
(* failed connect is told of and never hidden.                             *)
THEOREM FailedConnectsAreReported == Spec => []FailedConnectIsReported
  <1>1. PartsInv => FailedConnectIsReported
    BY DEF PartsInv, NetInv, SaidOK
  <1> QED
    BY <1>1, PartsInvariant, PTL

(* VerifyServerChain returns the error of the first call that failed,      *)
(* whatever the later ones leave in GetLastError.                          *)
THEOREM VerdictsAreOwn == Spec => []VerdictIsOfItsCall
  <1>1. PartsInv => VerdictIsOfItsCall
    BY DEF PartsInv, CertInv
  <1> QED
    BY <1>1, PartsInvariant, PTL

(* On every path, the failing ones included, what a call took is given     *)
(* back: temporary files, handles and zombies, address lists, sockets,     *)
(* certificates, the console's settings.                                   *)
THEOREM NothingLeaks == Spec => []NothingIsLeaked
  <1>1. PartsInv => NothingLeftBehind
    BY DEF PartsInv, ProcInv, StartOK, ChildOK, ProcessOK, NothingLeftBehind
  <1>2. PartsInv => LookupsAreFreed
    BY DEF PartsInv, LookupInv, LookupOK, LookupsAreFreed
  <1>3. PartsInv => SocketsAreOwned
    <2>1. SUFFICES ASSUME NetInv PROVE SocketsAreOwned
      BY DEF PartsInv
    <2>2. ASSUME NEW s \in NetSockets, sock[s].state # "free"
          PROVE  \/ \E o \in Objects : owned[o] = s /\ ~sock[s].isInheritable
                 \/ netCall # None /\ netCall.what = "init" /\ netCall.socket = s
      <3>1. sock[s] # NoSocket
        BY <2>2, NoSocketIsFree
      <3>2. \A o \in Objects : owned[o] = s => ~sock[s].isInheritable
        BY <2>1, NetAssumption, OwnedSocket
      <3> QED
        BY <2>1, <3>1, <3>2 DEF NetInv, SocketOK
    <2> QED
      BY <2>1, <2>2 DEF NetInv, OwnedOK, SocketsAreOwned
  <1>4. PartsInv => ConsoleIsGivenBack
    BY DEF PartsInv, ConsoleInv, ConsoleIsGivenBack
  <1>5. PartsInv => CertificatesAreReleased
    BY DEF PartsInv, CertInv, CertificatesAreReleased
  <1>6. PartsInv /\ NoTempLeftBehind => NothingIsLeaked
    BY <1>1, <1>2, <1>3, <1>4, <1>5 DEF NothingIsLeaked
  <1> QED
    BY <1>6, PartsInvariant, TempsAreRemoved, PTL
=============================================================================
