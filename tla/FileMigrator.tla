---------------------------- MODULE FileMigrator ----------------------------
(***************************************************************************)
(* One call of MigrateFiles (Samples/migrate-abs-to-spe/FileMigrator.cs).  *)
(*                                                                         *)
(* The main flow walks the list of blob names.  For each it finds or makes *)
(* the chain of folders, remembers them in a cache that only it uses, and  *)
(* queues a work item.  The work items run on the thread pool: check,      *)
(* download, upload, add the name to one of three List<string>, signal the *)
(* countdown that the main flow waits for.                                 *)
(*                                                                         *)
(* List<string>.Add is not synchronised and all threads share the lists.   *)
(* An Add is two steps here, its begin and its end; two Adds to one list   *)
(* that overlap race, and the losing entry is lost or leaves a blank slot. *)
(***************************************************************************)
EXTENDS GraphClientManager, FiniteSets

CONSTANTS
    EmptyLine,      \* the empty string, which an empty line of --blobfile gives
    FileLists,      \* the lists of names that MigrateFiles may be given
    MaxFiles,       \* no list is longer
    Drives,         \* what the drive may hold beforehand
    SlashIsNative   \* GetDirectoryName keeps "/" (true) or makes it "\" (false)

Lists == {"failed", "succeeded", "exist"}
Line == Blobs \cup {EmptyLine}

ASSUME ListsAssumption ==
    /\ EmptyLine \notin Blobs
    /\ MaxFiles \in Nat
    /\ FileLists \subseteq Seq(Line)
    /\ \A l \in FileLists : Len(l) <= MaxFiles
    /\ SlashIsNative \in BOOLEAN

VARIABLES
    fileList,       \* the argument of MigrateFiles
    drive,          \* the SharePoint Embedded container
    mpc,            \* control state of the main flow
    cur,            \* index in fileList of the blob that the main flow is at
    depth,          \* folders of its path that TraverseFileListing has passed
    folderId,       \* TraverseFileListing's newFolderId
    containerId,    \* containerFolder.Id
    cache,          \* directoryListingCache
    jpc,            \* control state of the work for each entry of fileList
    parentId,       \* fs.parentFolderId of each entry
    uploaded,       \* what UploadStreamToSharePointAsync returned for it
    outcome,        \* the list that the entry is to be added to
    racing,         \* entries whose Add overlapped another Add to its list
    listed,         \* entries that each list holds
    blank,          \* entries that left a blank slot instead
    countdown       \* _countdown.CurrentCount

mainVars == <<cur, depth, folderId, containerId, cache>>
jobVars == <<parentId, uploaded, outcome>>
listVars == <<racing, listed, blank>>
vars == <<fileList, drive, mpc, mainVars, jpc, jobVars, listVars, countdown>>

Jobs == 1..MaxFiles
Index == DOMAIN fileList

-----------------------------------------------------------------------------
(* Cache keys are paths as they are written; the id is the folded path.    *)
FolderKey(b, d) == [k \in 1..(d + 1) |-> IF k = 1 THEN Container ELSE DirOf[b][k - 1]]
FoldPath(path) == [k \in DOMAIN path |-> Fold[path[k]]]

(* The folder and the file that belong to blob b. *)
HomeOf(b) == FoldPath(FolderKey(b, Len(DirOf[b])))
PlaceOf(b) == Child(HomeOf(b), NameOf[b])

(* The key of the full-path lookup.  Where GetDirectoryName turns "/" into *)
(* "\", a path of several folders is looked up under a key never stored.   *)
FullPathCached(b) ==
    /\ FolderKey(b, Len(DirOf[b])) \in DOMAIN cache
    /\ SlashIsNative \/ Len(DirOf[b]) = 1

-----------------------------------------------------------------------------
(* The constructor and the call. *)
Init ==
    /\ fileList \in FileLists
    /\ drive \in Drives
    /\ mpc = "container"
    /\ cur = 1 /\ depth = 0
    /\ folderId = NullItem /\ containerId = NullItem
    /\ cache = [k \in {} |-> NullItem]
    /\ jpc = [i \in Index |-> "unseen"]
    /\ parentId = [i \in Index |-> NullItem]
    /\ uploaded = [i \in Index |-> "none"]
    /\ outcome = [i \in Index |-> "none"]
    /\ racing = {}
    /\ listed = [l \in Lists |-> {}]
    /\ blank = [l \in Lists |-> {}]
    /\ countdown = Len(fileList)

-----------------------------------------------------------------------------
(* The top level folder. *)

(* The folder's id is known: cache it and start on the list. *)
EnterContainer(id) ==
    /\ containerId' = id
    /\ cache' = Bind(cache, <<Container>>, id)
    /\ mpc' = "next"

CheckContainer ==
    /\ mpc = "container"
    /\ \E answer \in CheckIfItemExists(drive, Container, Root) :
          IF answer # NullItem
            THEN EnterContainer(answer)
            ELSE mpc' = "mkContainer" /\ UNCHANGED <<containerId, cache>>
    /\ UNCHANGED <<fileList, drive, cur, depth, folderId, jpc, jobVars, listVars, countdown>>

(* A null answer is dereferenced at containerFolder.Id: MigrateFiles throws. *)
CreateContainer ==
    /\ mpc = "mkContainer"
    /\ \E answer \in CreateFolder(drive, Container, Root) :
          /\ drive' = answer.drive
          /\ IF answer.item # NullItem
               THEN EnterContainer(answer.item)
               ELSE mpc' = "threw" /\ UNCHANGED <<containerId, cache>>
    /\ UNCHANGED <<fileList, cur, depth, folderId, jpc, jobVars, listVars, countdown>>

-----------------------------------------------------------------------------
(* The loop over the list. *)

Blob == fileList[cur]
AtBlob == mpc = "next" /\ cur \in Index

(* QueueUserWorkItem, with the parent that TraverseFileListing returned. *)
Queue(id) ==
    /\ parentId' = [parentId EXCEPT ![cur] = id]
    /\ jpc' = [jpc EXCEPT ![cur] = "queued"]
    /\ cur' = cur + 1
    /\ mpc' = "next"

(* Mutant of SkipEmptyLine: no Signal before the loop continues. *)
SkipUnsignalled ==
    /\ AtBlob /\ Blob = EmptyLine
    /\ jpc' = [jpc EXCEPT ![cur] = "done"]
    /\ cur' = cur + 1
    /\ UNCHANGED <<fileList, drive, mpc, depth, folderId, containerId, cache,
                   jobVars, listVars, countdown>>

(* An empty name: no folder is found, the entry is signalled and skipped.  *)
SkipEmptyLine ==
    /\ AtBlob /\ Blob = EmptyLine
    /\ jpc' = [jpc EXCEPT ![cur] = "done"]
    /\ countdown' = countdown - 1
    /\ cur' = cur + 1
    /\ UNCHANGED <<fileList, drive, mpc, depth, folderId, containerId, cache, jobVars, listVars>>

QueueRootBlob ==
    /\ AtBlob /\ Blob # EmptyLine
    /\ DirOf[Blob] = << >>
    /\ Queue(containerId)
    /\ UNCHANGED <<fileList, drive, depth, folderId, containerId, cache,
                   uploaded, outcome, listVars, countdown>>

(* Mutant of QueueFromFullPath: the top folder instead of the cached one. *)
QueueUnderContainer ==
    /\ AtBlob /\ Blob # EmptyLine
    /\ DirOf[Blob] # << >>
    /\ FullPathCached(Blob)
    /\ Queue(containerId)
    /\ UNCHANGED <<fileList, drive, depth, folderId, containerId, cache,
                   uploaded, outcome, listVars, countdown>>

QueueFromFullPath ==
    /\ AtBlob /\ Blob # EmptyLine
    /\ DirOf[Blob] # << >>
    /\ FullPathCached(Blob)
    /\ Queue(cache[FolderKey(Blob, Len(DirOf[Blob]))])
    /\ UNCHANGED <<fileList, drive, depth, folderId, containerId, cache,
                   uploaded, outcome, listVars, countdown>>

StartWalk ==
    /\ AtBlob /\ Blob # EmptyLine
    /\ DirOf[Blob] # << >>
    /\ ~FullPathCached(Blob)
    /\ depth' = 0
    /\ folderId' = containerId
    /\ mpc' = "walk"
    /\ UNCHANGED <<fileList, drive, cur, containerId, cache, jpc, jobVars, listVars, countdown>>

(* The walk stands before a folder whose path is newPath. *)
NextKey == FolderKey(Blob, depth + 1)
NextFolder == DirOf[Blob][depth + 1]
AtFolder == mpc = "walk" /\ depth < Len(DirOf[Blob])

(* The folder's id is known: cache it and go one folder down. *)
EnterFolder(id) ==
    /\ folderId' = id
    /\ cache' = Bind(cache, NextKey, id)
    /\ depth' = depth + 1
    /\ mpc' = "walk"

(* Mutant of WalkCached: a folder from the cache is passed, not entered. *)
WalkCachedBehind ==
    /\ AtFolder /\ NextKey \in DOMAIN cache
    /\ depth' = depth + 1
    /\ UNCHANGED <<fileList, drive, mpc, cur, folderId, containerId, cache,
                   jpc, jobVars, listVars, countdown>>

WalkCached ==
    /\ AtFolder /\ NextKey \in DOMAIN cache
    /\ folderId' = cache[NextKey]
    /\ depth' = depth + 1
    /\ UNCHANGED <<fileList, drive, mpc, cur, containerId, cache, jpc, jobVars, listVars, countdown>>

(* Mutant of WalkLookup: the folder is created without a look for it. *)
WalkNoLookup ==
    /\ AtFolder /\ NextKey \notin DOMAIN cache
    /\ mpc' = "mkFolder"
    /\ UNCHANGED <<fileList, drive, cur, depth, folderId, containerId, cache,
                   jpc, jobVars, listVars, countdown>>

WalkLookup ==
    /\ AtFolder /\ NextKey \notin DOMAIN cache
    /\ \E answer \in CheckIfItemExists(drive, NextFolder, folderId) :
          IF answer # NullItem
            THEN EnterFolder(answer)
            ELSE mpc' = "mkFolder" /\ UNCHANGED <<depth, folderId, cache>>
    /\ UNCHANGED <<fileList, drive, cur, containerId, jpc, jobVars, listVars, countdown>>

(* Mutant of WalkCreate: the failed blob is not added to blobUploadFailed. *)
WalkCreateUnlisted ==
    /\ mpc = "mkFolder"
    /\ \E answer \in CreateFolder(drive, NextFolder, folderId) :
          /\ drive' = answer.drive
          /\ IF answer.item # NullItem
               THEN EnterFolder(answer.item) /\ UNCHANGED <<jpc, outcome>>
               ELSE /\ mpc' = "failing"
                    /\ jpc' = [jpc EXCEPT ![cur] = "signal"]
                    /\ outcome' = [outcome EXCEPT ![cur] = "failed"]
                    /\ UNCHANGED <<depth, folderId, cache>>
    /\ UNCHANGED <<fileList, cur, containerId, parentId, uploaded, listVars, countdown>>

(* Mutant of WalkCreate: the null answer is dereferenced at subFolder.Id. *)
WalkCreateThrows ==
    /\ mpc = "mkFolder"
    /\ \E answer \in CreateFolder(drive, NextFolder, folderId) :
          /\ drive' = answer.drive
          /\ IF answer.item # NullItem
               THEN EnterFolder(answer.item)
               ELSE mpc' = "threw" /\ UNCHANGED <<depth, folderId, cache>>
    /\ UNCHANGED <<fileList, cur, containerId, jpc, jobVars, listVars, countdown>>

(* A null answer fails the blob: the main flow adds it to blobUploadFailed. *)
WalkCreate ==
    /\ mpc = "mkFolder"
    /\ \E answer \in CreateFolder(drive, NextFolder, folderId) :
          /\ drive' = answer.drive
          /\ IF answer.item # NullItem
               THEN EnterFolder(answer.item) /\ UNCHANGED <<jpc, outcome>>
               ELSE /\ mpc' = "failing"
                    /\ jpc' = [jpc EXCEPT ![cur] = "report"]
                    /\ outcome' = [outcome EXCEPT ![cur] = "failed"]
                    /\ UNCHANGED <<depth, folderId, cache>>
    /\ UNCHANGED <<fileList, cur, containerId, parentId, uploaded, listVars, countdown>>

WalkEnds ==
    /\ mpc = "walk" /\ depth = Len(DirOf[Blob])
    /\ Queue(folderId)
    /\ UNCHANGED <<fileList, drive, depth, folderId, containerId, cache,
                   uploaded, outcome, listVars, countdown>>

(* Add and Signal for a failed walk are this flow's; then it continues. *)
ContinueAfterFailure ==
    /\ mpc = "failing" /\ jpc[cur] = "done"
    /\ cur' = cur + 1
    /\ mpc' = "next"
    /\ UNCHANGED <<fileList, drive, depth, folderId, containerId, cache,
                   jpc, jobVars, listVars, countdown>>

ListExhausted ==
    /\ mpc = "next" /\ cur \notin Index
    /\ mpc' = "wait"
    /\ UNCHANGED <<fileList, drive, mainVars, jpc, jobVars, listVars, countdown>>

WaitReturns ==
    /\ mpc = "wait" /\ countdown = 0
    /\ mpc' = "returned"
    /\ UNCHANGED <<fileList, drive, mainVars, jpc, jobVars, listVars, countdown>>

Main ==
    \/ CheckContainer \/ CreateContainer
    \/ SkipEmptyLine \/ QueueRootBlob \/ QueueFromFullPath \/ StartWalk
    \/ WalkCached \/ WalkLookup \/ WalkCreate \/ WalkEnds
    \/ ContinueAfterFailure \/ ListExhausted \/ WaitReturns

-----------------------------------------------------------------------------
(* A work item: MigrateFile and TransferBlobToSharePointAsync. *)

(* The outcome of entry i is known; its Add comes next. *)
Decide(i, l) ==
    /\ jpc' = [jpc EXCEPT ![i] = "report"]
    /\ outcome' = [outcome EXCEPT ![i] = l]

CheckFile(i) ==
    /\ jpc[i] = "queued"
    /\ \E answer \in CheckIfItemExists(drive, NameOf[fileList[i]], parentId[i]) :
          IF answer # NullItem
            THEN Decide(i, "exist")
            ELSE jpc' = [jpc EXCEPT ![i] = "download"] /\ UNCHANGED outcome
    /\ UNCHANGED <<fileList, drive, mpc, mainVars, parentId, uploaded, listVars, countdown>>

DownloadBlob(i) ==
    /\ jpc[i] = "download"
    /\ \/ jpc' = [jpc EXCEPT ![i] = "upload"] /\ UNCHANGED outcome
       \/ Faulty /\ Decide(i, "failed")   \* DownloadBlobStreamAsync rethrows
    /\ UNCHANGED <<fileList, drive, mpc, mainVars, parentId, uploaded, listVars, countdown>>

(* Only an exception makes the transfer fail: the bool is not looked at. *)
UploadBlob(i) ==
    /\ jpc[i] = "upload"
    /\ \E answer \in UploadStream(drive, NameOf[fileList[i]], parentId[i], fileList[i]) :
          /\ drive' = answer.drive
          /\ uploaded' = [uploaded EXCEPT ![i] = answer.item]
          /\ Decide(i, IF answer.item = "throws" THEN "failed" ELSE "succeeded")
    /\ UNCHANGED <<fileList, mpc, mainVars, parentId, listVars, countdown>>

(* Entries other than i that are inside an Add to i's list. *)
Rivals(i) == {j \in Index \ {i} : jpc[j] = "adding" /\ outcome[j] = outcome[i]}

BeginAdd(i) ==
    /\ jpc[i] = "report"
    /\ jpc' = [jpc EXCEPT ![i] = "adding"]
    /\ racing' = racing \cup (IF Rivals(i) = {} THEN {} ELSE Rivals(i) \cup {i})
    /\ UNCHANGED <<fileList, drive, mpc, mainVars, jobVars, listed, blank, countdown>>

(* Of the Adds that race on a list one entry at least survives. *)
MayLose(i) == i \in racing /\ (Rivals(i) # {} \/ listed[outcome[i]] # {})

EndAdd(i) ==
    /\ jpc[i] = "adding"
    /\ jpc' = [jpc EXCEPT ![i] = "signal"]
    /\ \/ /\ listed' = [listed EXCEPT ![outcome[i]] = @ \cup {i}]
          /\ UNCHANGED blank
       \/ /\ MayLose(i)
          /\ blank' \in {blank, [blank EXCEPT ![outcome[i]] = @ \cup {i}]}
          /\ UNCHANGED listed
    /\ UNCHANGED <<fileList, drive, mpc, mainVars, jobVars, racing, countdown>>

(* Mutant of Signal: the return for an existing file skips it. *)
SignalUnlessExist(i) ==
    /\ jpc[i] = "signal"
    /\ jpc' = [jpc EXCEPT ![i] = "done"]
    /\ countdown' = countdown - (IF outcome[i] = "exist" THEN 0 ELSE 1)
    /\ UNCHANGED <<fileList, drive, mpc, mainVars, jobVars, listVars>>

Signal(i) ==
    /\ jpc[i] = "signal"
    /\ jpc' = [jpc EXCEPT ![i] = "done"]
    /\ countdown' = countdown - 1
    /\ UNCHANGED <<fileList, drive, mpc, mainVars, jobVars, listVars>>

Work(i) ==
    /\ i \in Index
    /\ \/ CheckFile(i) \/ DownloadBlob(i) \/ UploadBlob(i)
       \/ BeginAdd(i) \/ EndAdd(i) \/ Signal(i)

-----------------------------------------------------------------------------
(* MigrateFiles has returned or thrown; the process has nothing to do here. *)
Finished == mpc \in {"returned", "threw"} /\ UNCHANGED vars

Next == Main \/ (\E i \in Jobs : Work(i)) \/ Finished

(* Every await completes: HTTP calls time out and the SDK's retries are    *)
(* bounded, and the thread pool runs each continuation that is ready.      *)
Fairness == WF_vars(Main) /\ \A i \in Jobs : WF_vars(Work(i))

Spec == Init /\ [][Next]_vars
FairSpec == Spec /\ Fairness
-----------------------------------------------------------------------------
(* The type of every variable. *)
IdType == Seq(Name)
TypeOK ==
    /\ fileList \in Seq(Line)
    /\ mpc \in {"container", "mkContainer", "next", "walk", "mkFolder", "failing",
               "wait", "returned", "threw"}
    /\ cur \in 1..(Len(fileList) + 1)
    /\ depth \in Nat
    /\ folderId \in IdType /\ containerId \in IdType
    /\ jpc \in [Index -> {"unseen", "queued", "download", "upload", "report",
                         "adding", "signal", "done"}]
    /\ parentId \in [Index -> IdType]
    /\ uploaded \in [Index -> {"none", "true", "false", "throws"}]
    /\ outcome \in [Index -> Lists \cup {"none"}]
    /\ racing \subseteq Index
    /\ listed \in [Lists -> SUBSET Index]
    /\ blank \in [Lists -> SUBSET Index]
    /\ countdown \in Nat

(* Each entry is signalled exactly once, on whatever path it leaves the    *)
(* program: the countdown is the number of entries not done.  So Signal    *)
(* never throws, and the main flow is never released early or left waiting.*)
CountdownExact == countdown = Cardinality({i \in Index : jpc[i] # "done"})

(* When MigrateFiles returns no thread is still at work on an entry, so    *)
(* Program may read the three lists without synchronisation.               *)
ReturnsLast == mpc = "returned" => \A i \in Index : jpc[i] = "done"

(* The directory cache holds, for every path, the id of the item that is   *)
(* at that path in the drive, however the path was reached first.          *)
CacheFaithful ==
    \A k \in DOMAIN cache : cache[k] = FoldPath(k) /\ cache[k] \in DOMAIN drive

(* A migrated file lies in the folder, and under the name, of its blob.    *)
FilesAtHome ==
    \A p \in DOMAIN drive : drive[p] \in Blobs => p = PlaceOf(drive[p])

(* An entry listed as succeeded whose upload returned true is in the drive,*)
(* and holds this blob's content, whichever threads uploaded in between.   *)
SucceededInDrive ==
    \A i \in listed["succeeded"] :
        uploaded[i] = "true" => /\ PlaceOf(fileList[i]) \in DOMAIN drive
                                /\ drive[PlaceOf(fileList[i])] = fileList[i]

(* An entry listed as already existing has an item under its name in its   *)
(* own folder.                                                             *)
ExistTaken ==
    \A i \in listed["exist"] : PlaceOf(fileList[i]) \in DOMAIN drive

(* When MigrateFiles returns, every non-empty name is in exactly one list, *)
(* unless its Add raced with another one.                                  *)
EveryBlobReported ==
    mpc = "returned" =>
        \A i \in Index : fileList[i] # EmptyLine /\ i \notin racing =>
            \E l \in Lists : i \in listed[l] /\ \A m \in Lists \ {l} : i \notin listed[m]

(* Without faults a blob fails only because its place is taken, or because *)
(* a file is where one of its folders should be.                           *)
FailuresExplained ==
    ~Faulty => \A i \in Index : outcome[i] = "failed" =>
        LET place == PlaceOf(fileList[i])
        IN  \E n \in 1..Len(place) :
                LET p == SubSeq(place, 1, n)
                IN  p \in DOMAIN drive /\ (drive[p] # Folder \/ n = Len(place))

(* The migration only adds: nothing in the drive is changed or removed,    *)
(* although files are checked for first and uploaded later.                *)
NeverOverwrites ==
    [][\A p \in DOMAIN drive : p \in DOMAIN drive' /\ drive'[p] = drive[p]]_vars

(* MigrateFiles settles every name exactly once, and returns after the     *)
(* last: it implements the abstract MigrationLedger.                       *)
Settled(i) == IF jpc[i] # "done" THEN "open"
              ELSE IF outcome[i] = "none" THEN "skipped" ELSE outcome[i]
Phase == CASE mpc = "returned" -> "closed"
           [] mpc = "threw" -> "given up"
           [] OTHER -> "running"
Ledger == INSTANCE MigrationLedger WITH
            NameLists <- FileLists, NoName <- EmptyLine, Outcomes <- Lists,
            names <- fileList, entry <- [i \in Index |-> Settled(i)], phase <- Phase
SettlesEachOnce == Ledger!Spec

(* MigrateFiles always comes to its end. *)
Termination == <>(mpc \in {"returned", "threw"})

-----------------------------------------------------------------------------
(* What a comment of the code says, and a run refutes. *)

(* "the list of blob names that failed to upload" (FileMigrator.cs:131): a *)
(* blob that failed is in the list when MigrateFiles returns.              *)
FailedAreListed ==
    mpc = "returned" =>
        \A i \in Index : outcome[i] = "failed" => i \in listed["failed"]
=============================================================================
