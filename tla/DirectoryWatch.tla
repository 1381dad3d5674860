---------------------------- MODULE DirectoryWatch ----------------------------
(***************************************************************************)
(* CDirectoryWatch on Linux (src/private/io/directory_watch.cpp): one      *)
(* inotify watch per folder of a tree, kept up while other programs make,  *)
(* rename, move and remove folders between any two system calls.  Folders  *)
(* are inodes; a path is the sequence of names from the root.  Of the      *)
(* events only those that can change the watches are modelled: the others, *)
(* a file's among them, add a path to the result and nothing else.         *)
(***************************************************************************)
EXTENDS Naturals, Sequences, SequencesExt, Functions, TLC

CONSTANTS Folders,      \* inodes of folders other than the root
          FolderNames,
          Root, Outside, Away, Gone,
          RacingMoves,  \* while the watch walks or reads, other programs move folders within
                        \* the tree, put one in the place of another, and bring back folders
                        \* they moved out of it
          MaxQueue,     \* inotify's max_queued_events
          MaxChanges    \* bound on what other programs do

ASSUME WatchAssumption ==
    /\ IsFiniteSet(Folders) /\ Root \notin Folders
    /\ FolderNames # {}
    /\ MaxQueue \in Nat \ {0}

VARIABLES at,           \* folder -> the folder it is in, and its name there
          rootHere,     \* the watched path still leads to the root
          wdOf,         \* kernel: folder -> its watch descriptor, 0 without one
          nextWd,       \* kernel: descriptors are not used twice
          queue,        \* kernel: events not yet read
          numChanges,
          scope,        \* EWatchScope
          dwPc,
          folders,      \* SNativeDirectoryWatch::folders, descriptor -> path
          newFolders, isRootGone, shouldWalkAgain,   \* locals of ReadChanges
          pending, here, listing                     \* locals of WatchBelow

treeVars == <<at, rootHere, numChanges>>
kernelVars == <<wdOf, nextWd, queue>>
localVars == <<newFolders, isRootGone, shouldWalkAgain>>
walkVars == <<pending, here, listing>>
watchVars == <<treeVars, kernelVars, scope, dwPc, folders, localVars, walkVars>>

RootWd == 1

InTree == [d \in Folders \cup {Root} |->
    LET in[j \in Folders] == at[j].in = Root \/ (at[j].in \in Folders /\ in[at[j].in])
    IN  IF d = Root THEN TRUE ELSE in[d]]
PathOf == [i \in Folders |->
    LET path[j \in Folders] == IF at[j].in \in Folders THEN path[at[j].in] \o <<at[j].as>>
                               ELSE <<at[j].as>>
    IN  path[i]]
Below(i) == {j \in Folders : InTree[i] /\ InTree[j] /\ IsPrefix(PathOf[i], PathOf[j])}
FoldersAt(path) == IF path = <<>> THEN {Root} ELSE {i \in Folders : InTree[i] /\ PathOf[i] = path}
Entries(dir) == {i \in Folders : at[i].in = dir}

\* An event past the limit is replaced by a single one that says so.
Queued(q, event) ==
    IF Len(q) < MaxQueue THEN Append(q, event)
    ELSE IF Last(q).what = "overflow" THEN q
    ELSE Append(q, [wd |-> 0, what |-> "overflow", name |-> ""])
QueueEvents(q, events) ==
    LET queued[n \in 0 .. Len(events)] == IF n = 0 THEN q ELSE Queued(queued[n - 1], events[n])
    IN  queued[Len(events)]
Event(dir, what, name) == IF wdOf[dir] = 0 THEN <<>>
                          ELSE << [wd |-> wdOf[dir], what |-> what, name |-> name] >>

\* A folder in the tree, no matter which, and elsewhere, perhaps, one with another in it.
WatchInit ==
    /\ LET first == CHOOSE i \in Folders : TRUE
           name == CHOOSE n \in FolderNames : TRUE
       IN  \E i \in Folders, dir \in Folders \cup {Outside} :
              /\ dir \notin {first, i}
              /\ at = [j \in Folders |-> IF j = first THEN [in |-> Root, as |-> name]
                                        ELSE IF j = i /\ dir # Outside THEN [in |-> dir, as |-> name]
                                        ELSE [in |-> Outside, as |-> ""]]
    /\ rootHere = TRUE /\ numChanges = 0
    /\ wdOf = [d \in Folders \cup {Root} |-> 0] /\ nextWd = RootWd /\ queue = <<>>
    /\ scope \in {"Folder", "Tree"}
    /\ dwPc = "off" /\ folders = <<>>
    /\ newFolders = <<>> /\ isRootGone = FALSE /\ shouldWalkAgain = FALSE
    /\ pending = <<>> /\ here = <<>> /\ listing = {}
-----------------------------------------------------------------------------
(* Other programs *)

CanChange == rootHere /\ numChanges < MaxChanges
Changed(events) ==
    /\ numChanges' = numChanges + 1
    /\ queue' = IF dwPc \in {"off", "ended"} THEN queue ELSE QueueEvents(queue, events)
    /\ UNCHANGED <<scope, dwPc, folders, localVars, walkVars>>

IsFree(dir, name) == \A j \in Entries(dir) : at[j].as # name

\* What comes there comes in the place of a folder, or of one that led to it, that the watch has or
\* is about to watch.
TakesPlace(dir, name) ==
    LET path == Append(IF dir = Root THEN <<>> ELSE PathOf[dir], name)
    IN  /\ InTree[dir]
        /\ \E known \in Range(folders) \cup Range(newFolders) \cup Range(pending)
                          \cup {Append(here, entry) : entry \in listing} : IsPrefix(path, known)

\* Made, or moved in from elsewhere with what it holds.
FolderArrives(i, dir, name) ==
    /\ CanChange
    /\ at[i].in = Outside /\ dir # i /\ IsFree(dir, name)
    /\ InTree[dir] \/ (dir \in Folders /\ at[dir].in = Outside)
    /\ RacingMoves \/ dwPc = "idle" \/ ~TakesPlace(dir, name)
    /\ at' = [at EXCEPT ![i] = [in |-> dir, as |-> name]]
    /\ Changed(Event(dir, "arrived", name))
    /\ UNCHANGED <<rootHere, wdOf, nextWd>>

FolderLeaves(i) ==
    /\ CanChange
    /\ InTree[i]
    /\ at' = [at EXCEPT ![i] = [in |-> IF RacingMoves THEN Outside ELSE Away, as |-> ""]]
    /\ Changed(Event(at[i].in, "left", at[i].as))
    /\ UNCHANGED <<rootHere, wdOf, nextWd>>

FolderMoves(i, dir, name) ==
    /\ CanChange
    /\ RacingMoves \/ dwPc = "idle"
    /\ InTree[i]
    /\ InTree[dir] /\ dir \notin Below(i)
    /\ IsFree(dir, name)
    /\ at' = [at EXCEPT ![i] = [in |-> dir, as |-> name]]
    /\ Changed(Event(at[i].in, "left", at[i].as) \o Event(dir, "arrived", name))
    /\ UNCHANGED <<rootHere, wdOf, nextWd>>

\* The kernel drops the watch of a folder that is gone.
FolderRemoved(i) ==
    /\ CanChange
    /\ InTree[i] /\ Entries(i) = {}
    /\ at' = [at EXCEPT ![i] = [in |-> Gone, as |-> ""]]
    /\ wdOf' = [wdOf EXCEPT ![i] = 0]
    /\ Changed(Event(i, "ignored", ""))
    /\ UNCHANGED <<rootHere, nextWd>>

RootLeaves ==
    /\ CanChange
    /\ rootHere' = FALSE
    /\ Changed(Event(Root, "gone", ""))
    /\ UNCHANGED <<at, wdOf, nextWd>>
-----------------------------------------------------------------------------
(* The watch *)

End == dwPc' = "ended"

\* inotify_add_watch and folders.try_emplace.  what is "added", "known", "skipped" or "failed": the
\* number of watches is limited for all programs of the user together.
AddWatch(path, what) ==
    LET found == IF rootHere THEN FoldersAt(path) ELSE {}
    IN  \/ /\ found = {} /\ what = "skipped"
           /\ UNCHANGED <<kernelVars, folders>>
        \/ \E i \in found :
              \/ /\ wdOf[i] = 0 /\ what = "failed"
                 /\ UNCHANGED <<kernelVars, folders>>
              \/ /\ wdOf[i] = 0 /\ what = "added"
                 /\ wdOf' = [wdOf EXCEPT ![i] = nextWd] /\ nextWd' = nextWd + 1
                 /\ folders' = folders @@ (nextWd :> path)
                 /\ UNCHANGED queue
              \/ /\ wdOf[i] # 0
                 /\ what = IF wdOf[i] \in DOMAIN folders THEN "known" ELSE "added"
                 /\ folders' = folders @@ (wdOf[i] :> path)
                 /\ UNCHANGED kernelVars

\* What is left of the descriptors, the kernel's watches and its queue without the folders at or
\* below the path; the root stays.
Forgotten(path) == {wd \in DOMAIN folders \ {RootWd} : IsPrefix(path, folders[wd])}
ForgetBelow(path, q) ==
    LET removed == {d \in DOMAIN wdOf : wdOf[d] \in Forgotten(path)}
    IN  /\ folders' = Restrict(folders, DOMAIN folders \ Forgotten(path))
        /\ wdOf' = [d \in DOMAIN wdOf |-> IF d \in removed THEN 0 ELSE wdOf[d]]
        /\ queue' = QueueEvents(q, SetToSeq({[wd |-> wdOf[d], what |-> "ignored", name |-> ""] :
                                              d \in removed}))
        /\ UNCHANGED nextWd

Initialize ==
    /\ dwPc = "off"
    /\ IF ~rootHere THEN End /\ UNCHANGED <<kernelVars, folders, pending>>
       ELSE /\ wdOf' = [wdOf EXCEPT ![Root] = RootWd] /\ nextWd' = RootWd + 1
            /\ folders' = (RootWd :> <<>>)
            /\ dwPc' = IF scope = "Tree" THEN "walk" ELSE "idle"
            /\ pending' = IF scope = "Tree" THEN << <<>> >> ELSE <<>>
            /\ UNCHANGED queue
    /\ UNCHANGED <<treeVars, scope, localVars, here, listing>>

\* The next folder to list is one already watched.
ListFolder ==
    /\ dwPc = "walk" /\ listing = {} /\ pending # <<>>
    /\ here' = Head(pending) /\ pending' = Tail(pending)
    /\ listing' = {at[i].as : i \in {j \in Folders : /\ rootHere
                                                     /\ at[j].in \in FoldersAt(Head(pending))}}
    /\ UNCHANGED <<treeVars, kernelVars, scope, dwPc, folders, localVars>>

WatchEntry ==
    /\ dwPc = "walk"
    /\ \E name \in listing, what \in {"added", "known", "skipped", "failed"} :
          /\ AddWatch(Append(here, name), what)
          /\ listing' = listing \ {name}
          /\ pending' = IF what = "added" THEN Append(pending, Append(here, name)) ELSE pending
          /\ IF what = "failed" THEN End ELSE UNCHANGED dwPc
    /\ UNCHANGED <<treeVars, scope, localVars, here>>

WalkDone ==
    /\ dwPc = "walk" /\ listing = {} /\ pending = <<>>
    /\ dwPc' = "arrive" /\ here' = <<>>
    /\ UNCHANGED <<treeVars, kernelVars, scope, folders, localVars, pending, listing>>

ReadChanges ==
    /\ dwPc = "idle"
    /\ dwPc' = "drain"
    /\ UNCHANGED <<treeVars, kernelVars, scope, folders, localVars, walkVars>>

ReadEvent ==
    /\ dwPc = "drain" /\ queue # <<>>
    /\ LET event == Head(queue)
           known == event.wd \in DOMAIN folders
           path == Append(folders[event.wd], event.name)
       IN  \/ /\ event.what = "overflow"
              /\ shouldWalkAgain' = TRUE
              /\ queue' = Tail(queue)
              /\ UNCHANGED <<folders, wdOf, nextWd, newFolders, isRootGone>>
           \/ /\ event.what = "gone"
              /\ isRootGone' = TRUE
              /\ queue' = Tail(queue)
              /\ UNCHANGED <<folders, wdOf, nextWd, newFolders, shouldWalkAgain>>
           \/ /\ event.what = "ignored"
              /\ folders' = Restrict(folders, DOMAIN folders \ {event.wd})
              /\ queue' = Tail(queue)
              /\ UNCHANGED <<wdOf, nextWd, localVars>>
           \/ /\ event.what = "arrived"
              /\ newFolders' = IF known /\ scope = "Tree" THEN Append(newFolders, path)
                                ELSE newFolders
              /\ queue' = Tail(queue)
              /\ UNCHANGED <<folders, wdOf, nextWd, isRootGone, shouldWalkAgain>>
           \/ /\ event.what = "left"
              /\ IF known /\ scope = "Tree" THEN ForgetBelow(path, Tail(queue))
                 ELSE queue' = Tail(queue) /\ UNCHANGED <<folders, wdOf, nextWd>>
              /\ UNCHANGED localVars
    /\ UNCHANGED <<treeVars, scope, dwPc, walkVars>>

\* The last read finds nothing, or fails.
QueueEmpty ==
    /\ dwPc = "drain" /\ queue = <<>>
    /\ End \/ (~isRootGone /\ dwPc' = "arrive")
    /\ UNCHANGED <<treeVars, kernelVars, scope, folders, localVars, walkVars>>

\* A new folder is watched and what it came with is not.
WatchNewFolderAlone ==
    /\ dwPc = "arrive" /\ newFolders # <<>>
    /\ newFolders' = Tail(newFolders)
    /\ \E what \in {"added", "known", "skipped", "failed"} :
          /\ AddWatch(Head(newFolders), what)
          /\ dwPc' = IF what = "failed" THEN "ended" ELSE "arrive"
    /\ UNCHANGED <<treeVars, scope, isRootGone, shouldWalkAgain, walkVars>>

WatchNewFolder ==
    /\ dwPc = "arrive" /\ newFolders # <<>>
    /\ newFolders' = Tail(newFolders)
    /\ \E what \in {"added", "known", "skipped", "failed"} :
          /\ AddWatch(Head(newFolders), what)
          /\ pending' = IF what = "added" THEN << Head(newFolders) >> ELSE <<>>
          /\ dwPc' = CASE what = "added" -> "walk" [] what = "failed" -> "ended"
                       [] OTHER -> "arrive"
    /\ UNCHANGED <<treeVars, scope, isRootGone, shouldWalkAgain, here, listing>>

\* Events were lost: the root is asked for afresh and the tree walked again.
WalkAgain ==
    /\ dwPc = "arrive" /\ newFolders = <<>> /\ shouldWalkAgain
    /\ shouldWalkAgain' = FALSE
    /\ CASE ~rootHere -> End /\ UNCHANGED <<kernelVars, folders, pending>>
         [] rootHere /\ scope = "Tree" -> /\ ForgetBelow(<<>>, queue)
                                          /\ pending' = << <<>> >> /\ dwPc' = "walk"
         [] OTHER -> dwPc' = "idle" /\ UNCHANGED <<kernelVars, folders, pending>>
    /\ UNCHANGED <<treeVars, scope, newFolders, isRootGone, here, listing>>

ChangesRead ==
    /\ dwPc = "arrive" /\ newFolders = <<>> /\ ~shouldWalkAgain
    /\ dwPc' = "idle"
    /\ UNCHANGED <<treeVars, kernelVars, scope, folders, localVars, walkVars>>

\* At the owner's call, or after an error: the descriptor is closed, and with it every watch goes.
Terminate ==
    /\ dwPc \in {"idle", "ended"}
    /\ dwPc' = "terminated"
    /\ wdOf' = [d \in DOMAIN wdOf |-> 0] /\ queue' = <<>> /\ folders' = <<>>
    /\ newFolders' = <<>> /\ isRootGone' = FALSE /\ shouldWalkAgain' = FALSE
    /\ pending' = <<>> /\ here' = <<>> /\ listing' = {}
    /\ UNCHANGED <<treeVars, nextWd, scope>>

WatchNext ==
    \/ \E i \in Folders : FolderLeaves(i) \/ FolderRemoved(i)
    \/ \E i \in Folders, dir \in Folders \cup {Root}, name \in FolderNames :
          FolderArrives(i, dir, name) \/ FolderMoves(i, dir, name)
    \/ RootLeaves
    \/ Initialize \/ ListFolder \/ WatchEntry \/ WalkDone
    \/ ReadChanges \/ ReadEvent \/ QueueEmpty \/ WatchNewFolder \/ WalkAgain \/ ChangesRead
    \/ Terminate

WatchSpec == WatchInit /\ [][WatchNext]_watchVars
FolderSymmetry == Permutations(Folders)
-----------------------------------------------------------------------------
(* Properties *)

\* Between two reads, once every event is read, each folder of the tree is watched under its own
\* path, or the watch has ended with an error: "a tree watched in part would miss changes without a
\* word".
TreeIsWatched ==
    dwPc = "idle" /\ queue = <<>> /\ rootHere =>
       \A i \in Folders : scope = "Tree" /\ InTree[i] =>
          wdOf[i] \in DOMAIN folders /\ folders[wdOf[i]] = PathOf[i]

\* The root's end is never passed over: a read that starts after it ends the watch with an error,
\* even if the event was lost to an overflow.
RootEndIsSeen == dwPc = "idle" /\ queue = <<>> => rootHere
=============================================================================
