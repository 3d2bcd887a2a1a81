------------------------- MODULE FileMigratorProofs -------------------------
(***************************************************************************)
(* Proofs about FileMigrator, for all blobs, lists, drives and names.      *)
(*                                                                         *)
(* First lemmas about paths and about the calls on the drive; then every   *)
(* part of the inductive invariant IInv, action by action; then the        *)
(* theorems that follow from it; last, with an invariant of its own, why   *)
(* blobs fail, and that FileMigrator implements MigrationLedger.           *)
(***************************************************************************)
EXTENDS FileMigratorInv, FiniteSetTheorems, TLAPS

(* A path folds to a path. *)
LEMMA FoldPathType ==
    ASSUME NEW path \in Seq(Name)
    PROVE  FoldPath(path) \in Seq(Name) /\ Len(FoldPath(path)) = Len(path)
BY NamesAssumption DEF FoldPath

(* The key of a blob's folder at any depth is a path. *)
LEMMA FolderKeyType ==
    ASSUME NEW b \in Blobs, NEW d \in 0..Len(DirOf[b])
    PROVE  FolderKey(b, d) \in Seq(Name) /\ FoldPath(FolderKey(b, d)) \in Seq(Name)
<1>1. DirOf[b] \in Seq(Name) /\ Len(DirOf[b]) \in Nat
  BY NamesAssumption
<1>2. \A k \in 1..(d + 1) : (IF k = 1 THEN Container ELSE DirOf[b][k - 1]) \in Name
  BY <1>1, NamesAssumption
<1>3. FolderKey(b, d) \in Seq(Name)
  BY <1>1, <1>2 DEF FolderKey
<1>4. QED
  BY <1>3, FoldPathType

(* The key at depth 0 is the container's. *)
LEMMA FolderKeyRoot ==
    ASSUME NEW b
    PROVE  FolderKey(b, 0) = <<Container>>
BY DEF FolderKey

(* The container's key folds to the container's id. *)
LEMMA FoldRoot == FoldPath(<<Container>>) = <<Fold[Container]>>
BY DEF FoldPath

(* One folder down is one name more, in the key and in the id. *)
LEMMA FolderStep ==
    ASSUME NEW b \in Blobs, NEW d \in Nat, d < Len(DirOf[b])
    PROVE  FoldPath(FolderKey(b, d + 1)) = Child(FoldPath(FolderKey(b, d)), DirOf[b][d + 1])
<1> DEFINE low == FoldPath(FolderKey(b, d))
           high == FoldPath(FolderKey(b, d + 1))
           name == Fold[DirOf[b][d + 1]]
<1>1. DirOf[b] \in Seq(Name) /\ Len(DirOf[b]) \in Nat
  BY NamesAssumption
<1>2. low \in Seq(Name) /\ high \in Seq(Name) /\ name \in Name
  BY <1>1, FolderKeyType, NamesAssumption
<1>3. Len(low) = d + 1 /\ Len(high) = d + 2
  BY <1>2 DEF FoldPath, FolderKey
<1>4. \A k \in 1..(d + 1) : high[k] = low[k]
  BY <1>3 DEF FoldPath, FolderKey
<1>5. high[d + 2] = name
  BY <1>3 DEF FoldPath, FolderKey
<1>6. high = Append(low, name)
  BY <1>2, <1>3, <1>4, <1>5
<1>7. QED
  BY <1>6 DEF Child
-----------------------------------------------------------------------------
(* A blob's home is a path; without folders it is the container itself. *)
LEMMA HomeType ==
    ASSUME NEW b \in Blobs
    PROVE  /\ HomeOf(b) \in Seq(Name)
           /\ PlaceOf(b) \in Seq(Name)
           /\ PlaceOf(b) = Child(HomeOf(b), NameOf[b])
           /\ PlaceOf(b) # NullItem
           /\ DirOf[b] = << >> => HomeOf(b) = <<Fold[Container]>>
           /\ HomeOf(b) = FoldPath(FolderKey(b, Len(DirOf[b])))
<1>1. Len(DirOf[b]) \in 0..Len(DirOf[b])
  BY NamesAssumption
<1>2. HomeOf(b) \in Seq(Name)
  BY <1>1, FolderKeyType DEF HomeOf
<1>3. Fold[NameOf[b]] \in Name
  BY NamesAssumption
<1>4. DirOf[b] = << >> => HomeOf(b) = <<Fold[Container]>>
  BY FolderKeyRoot, FoldRoot DEF HomeOf
<1>5. QED
  BY <1>2, <1>3, <1>4 DEF HomeOf, PlaceOf, Child, NullItem

(* The drive after a step: it has all the items it had before. *)
Grows(d, e) ==
    /\ DOMAIN d \subseteq DOMAIN e
    /\ \A p \in DOMAIN d : e[p] = d[p]

(* A child's id is a path and never null. *)
LEMMA ChildType ==
    ASSUME NEW p \in Seq(Name), NEW n \in Name
    PROVE  Child(p, n) \in Seq(Name) /\ Child(p, n) # NullItem
BY NamesAssumption DEF Child, NullItem

(* Binding an id that is free makes the drive grow. *)
LEMMA BindGrows ==
    ASSUME NEW d, NEW k, NEW v
    PROVE  /\ DOMAIN Bind(d, k, v) = DOMAIN d \cup {k}
           /\ Bind(d, k, v)[k] = v
           /\ \A x \in DOMAIN d \ {k} : Bind(d, k, v)[x] = d[x]
           /\ k \notin DOMAIN d => Grows(d, Bind(d, k, v))
BY DEF Bind, Grows

(* CheckIfItemExists finds the child asked for, in the drive. *)
LEMMA CheckFinds ==
    ASSUME NEW d, NEW n, NEW p, NEW answer \in CheckIfItemExists(d, n, p), answer # NullItem
    PROVE  answer = Child(p, n) /\ answer \in DOMAIN d
BY DEF CheckIfItemExists

(* A call that adds an item adds that one or nothing, whatever it answers; *)
(* the answer ok says that the item is there.                              *)
LEMMA AddItemGrows ==
    ASSUME NEW d, NEW n, NEW p, NEW c, NEW ok, NEW err, ok # err,
           NEW answer \in AddItem(d, n, p, c, ok, err)
    PROVE  /\ Grows(d, answer.drive)
           /\ answer.drive \in {d, Bind(d, Child(p, n), c)}
           /\ answer.item = ok => /\ Child(p, n) \in DOMAIN answer.drive
                                  /\ answer.drive[Child(p, n)] = c
           /\ answer.item \in {ok, err}
<1> DEFINE made == Bind(d, Child(p, n), c)
<1>1. Grows(d, d)
  BY DEF Grows
<1>2. CASE Accepts(d, n, p)
  <2>1. Child(p, n) \notin DOMAIN d
    BY <1>2 DEF Accepts
  <2>2. Grows(d, made) /\ Child(p, n) \in DOMAIN made /\ made[Child(p, n)] = c
    BY <2>1 DEF Bind, Grows
  <2>3. answer = [drive |-> made, item |-> ok] \/ answer \in {[drive |-> x, item |-> err] : x \in {d, made}}
    BY <1>2 DEF AddItem
  <2>4. answer.drive \in {d, made} /\ answer.item \in {ok, err} /\ (answer.item = ok => answer.drive = made)
    BY <2>3
  <2>5. QED
    BY <1>1, <2>2, <2>4
<1>3. CASE ~Accepts(d, n, p)
  <2>1. answer = [drive |-> d, item |-> err]
    BY <1>3 DEF AddItem
  <2>2. QED
    BY <1>1, <2>1
<1>4. QED
  BY <1>2, <1>3

(* The drive stays well formed when an item is added to it whose content   *)
(* is not a blob, or is the blob whose place that is.                      *)
LEMMA BindDriveOK ==
    ASSUME NEW d, DriveOK(d), NEW k \in Seq(Name), NEW c, c \in Blobs => k = PlaceOf(c)
    PROVE  DriveOK(Bind(d, k, c))
BY DEF DriveOK, Bind
(* CreateFolder below any id: the drive grows and stays well formed, and a *)
(* non-null answer is the child asked for.                                 *)
LEMMA CreateAnswer ==
    ASSUME NEW d, DriveOK(d), NEW n \in Name, NEW p \in Seq(Name),
           NEW answer \in CreateFolder(d, n, p)
    PROVE  /\ Grows(d, answer.drive) /\ DriveOK(answer.drive)
           /\ answer.item \in {NullItem, Child(p, n)}
           /\ answer.item # NullItem => Child(p, n) \in DOMAIN answer.drive
<1>1. answer \in AddItem(d, n, p, Folder, Child(p, n), NullItem)
  BY DEF CreateFolder
<1>2. Child(p, n) \in Seq(Name) /\ Child(p, n) # NullItem
  BY ChildType
<1>3. /\ Grows(d, answer.drive)
      /\ answer.drive \in {d, Bind(d, Child(p, n), Folder)}
      /\ answer.item = Child(p, n) => Child(p, n) \in DOMAIN answer.drive
      /\ answer.item \in {Child(p, n), NullItem}
  BY <1>1, <1>2, AddItemGrows
<1>4. DriveOK(Bind(d, Child(p, n), Folder))
  BY <1>2, BindDriveOK, NamesAssumption
<1>5. QED
  BY <1>3, <1>4

(* UploadStreamToSharePointAsync into a blob's home: the drive grows and   *)
(* stays well formed, and the answer true says that the blob is in place.  *)
LEMMA UploadAnswer ==
    ASSUME NEW d, DriveOK(d), NEW b \in Blobs,
           NEW answer \in UploadStream(d, NameOf[b], HomeOf(b), b)
    PROVE  /\ Grows(d, answer.drive) /\ DriveOK(answer.drive)
           /\ answer.item \in {"true", "false", "throws"}
           /\ answer.item = "true" => /\ PlaceOf(b) \in DOMAIN answer.drive
                                      /\ answer.drive[PlaceOf(b)] = b
<1>1. PlaceOf(b) = Child(HomeOf(b), NameOf[b]) /\ PlaceOf(b) \in Seq(Name)
  BY HomeType
<1>2. CASE answer \in AddItem(d, NameOf[b], HomeOf(b), b, "true", "throws")
  <2>1. /\ Grows(d, answer.drive)
        /\ answer.drive \in {d, Bind(d, PlaceOf(b), b)}
        /\ answer.item = "true" => /\ PlaceOf(b) \in DOMAIN answer.drive
                                   /\ answer.drive[PlaceOf(b)] = b
        /\ answer.item \in {"true", "throws"}
    BY <1>1, <1>2, AddItemGrows
  <2>2. DriveOK(Bind(d, PlaceOf(b), b))
    BY <1>1, BindDriveOK
  <2>3. QED
    BY <2>1, <2>2
<1>3. CASE answer = [drive |-> d, item |-> "false"]
  BY <1>3 DEF Grows
<1>4. QED
  BY <1>2, <1>3 DEF UploadStream

-----------------------------------------------------------------------------
(* The list is an argument: no step changes it. *)
LEMMA ListFixed == [Next]_vars => fileList' = fileList /\ Index' = Index
BY DEF Next, vars, Main, Work, Finished, CheckContainer, CreateContainer, SkipEmptyLine,
       QueueRootBlob, QueueFromFullPath, StartWalk, WalkCached, WalkLookup, WalkCreate,
       WalkEnds, ContinueAfterFailure, ListExhausted, WaitReturns, CheckFile,
       DownloadBlob, UploadBlob, BeginAdd, EndAdd, Signal, Index

(* Lists are sequences of lines. *)
LEMMA ListType ==
    ASSUME TypeOK
    PROVE  /\ fileList \in Seq(Line) /\ Len(fileList) \in Nat
           /\ Index = 1..Len(fileList)
           /\ \A i \in Index : fileList[i] \in Line
BY DEF TypeOK, Index

-----------------------------------------------------------------------------
(* What the main flow knows when it calls the drive at a folder of a walk. *)
LEMMA AtFolderFacts ==
    ASSUME IInv, mpc \in {"walk", "mkFolder"}, depth < Len(DirOf[Blob])
    PROVE  /\ Blob \in Blobs /\ cur \in Index
           /\ folderId \in Seq(Name) /\ folderId = FoldPath(FolderKey(Blob, depth))
           /\ NextFolder \in Name
           /\ Child(folderId, NextFolder) = FoldPath(NextKey)
           /\ Child(folderId, NextFolder) \in Seq(Name)
           /\ Child(folderId, NextFolder) # NullItem
<1>1. Blob \in Blobs /\ cur \in Index /\ depth \in Nat /\ folderId \in Seq(Name)
  BY DEF IInv, CursorInv, TypeOK, IdType, Blob
<1>2. folderId = FoldPath(FolderKey(Blob, depth))
  BY DEF IInv, WalkInv, Blob
<1>3. DirOf[Blob] \in Seq(Name) /\ Len(DirOf[Blob]) \in Nat
  BY <1>1, NamesAssumption
<1>4. NextFolder \in Name
  BY <1>1, <1>3 DEF NextFolder
<1>5. Child(folderId, NextFolder) = FoldPath(NextKey)
  BY <1>1, <1>2, FolderStep DEF NextFolder, NextKey
<1>6. QED
  BY <1>1, <1>2, <1>4, <1>5, ChildType

(* What a work item knows when it calls the drive. *)
LEMMA AtFileFacts ==
    ASSUME IInv, NEW i \in Index, jpc[i] \in {"queued", "download", "upload"}
    PROVE  /\ fileList[i] \in Blobs
           /\ parentId[i] = HomeOf(fileList[i])
           /\ Child(parentId[i], NameOf[fileList[i]]) = PlaceOf(fileList[i])
<1>1. fileList[i] \in Blobs /\ parentId[i] = HomeOf(fileList[i])
  BY DEF IInv, ParentInv
<1>2. QED
  BY <1>1, HomeType

(* The drive only grows, and stays well formed. *)
LEMMA DriveStep ==
    ASSUME IInv, [Next]_vars
    PROVE  Grows(drive, drive') /\ DriveOK(drive')
<1>1. DriveOK(drive) /\ Grows(drive, drive)
  BY DEF IInv, Grows
<1>2. CASE CreateContainer
  <2>1. PICK answer \in CreateFolder(drive, Container, Root) : drive' = answer.drive
    BY <1>2 DEF CreateContainer
  <2>2. Root \in Seq(Name) /\ Container \in Name
    BY NamesAssumption DEF Root
  <2>3. QED
    BY <1>1, <2>1, <2>2, CreateAnswer
<1>3. CASE WalkCreate
  <2>1. PICK answer \in CreateFolder(drive, NextFolder, folderId) : drive' = answer.drive
    BY <1>3 DEF WalkCreate
  <2>2. folderId \in Seq(Name) /\ NextFolder \in Name
    BY <1>3, AtFolderFacts DEF WalkCreate, IInv, WalkInv, Blob
  <2>3. QED
    BY <1>1, <2>1, <2>2, CreateAnswer
<1>4. CASE \E i \in Jobs : i \in Index /\ UploadBlob(i)
  <2>1. PICK i \in Index : UploadBlob(i)
    BY <1>4
  <2>2. PICK answer \in UploadStream(drive, NameOf[fileList[i]], parentId[i], fileList[i]) :
            drive' = answer.drive
    BY <2>1 DEF UploadBlob
  <2>3. fileList[i] \in Blobs /\ parentId[i] = HomeOf(fileList[i])
    BY <2>1, AtFileFacts DEF UploadBlob
  <2>4. QED
    BY <1>1, <2>2, <2>3, UploadAnswer
<1>5. CASE drive' = drive
  BY <1>1, <1>5
<1>6. QED
  BY <1>2, <1>3, <1>4, <1>5
     DEF Next, vars, Main, Work, Finished, CheckContainer, SkipEmptyLine,
         QueueRootBlob, QueueFromFullPath, StartWalk, WalkCached, WalkLookup,
         WalkEnds, ContinueAfterFailure, ListExhausted, WaitReturns, CheckFile,
         DownloadBlob, BeginAdd, EndAdd, Signal
-----------------------------------------------------------------------------
(* The calls at the top level folder answer with its id, or null. *)
LEMMA ContainerAnswers ==
    ASSUME IInv
    PROVE  /\ \A answer \in CheckIfItemExists(drive, Container, Root) :
                 answer # NullItem => answer = <<Fold[Container]>> /\ answer \in DOMAIN drive
           /\ \A answer \in CreateFolder(drive, Container, Root) :
                 answer.item # NullItem => /\ answer.item = <<Fold[Container]>>
                                           /\ answer.item \in DOMAIN answer.drive
           /\ <<Fold[Container]>> \in Seq(Name)
<1>1. Child(Root, Container) = <<Fold[Container]>> /\ Container \in Name /\ Root \in Seq(Name)
  BY NamesAssumption DEF Child, Root
<1>2. <<Fold[Container]>> \in Seq(Name)
  BY NamesAssumption
<1>3. DriveOK(drive)
  BY DEF IInv
<1>4. QED
  BY <1>1, <1>2, <1>3, CheckFinds, CreateAnswer

(* The calls at a folder of a walk answer with that folder's id, or null.  *)
LEMMA FolderAnswers ==
    ASSUME IInv, mpc \in {"walk", "mkFolder"}, depth < Len(DirOf[Blob])
    PROVE  /\ \A answer \in CheckIfItemExists(drive, NextFolder, folderId) :
                 answer # NullItem => answer = FoldPath(NextKey) /\ answer \in DOMAIN drive
           /\ \A answer \in CreateFolder(drive, NextFolder, folderId) :
                 answer.item # NullItem => /\ answer.item = FoldPath(NextKey)
                                           /\ answer.item \in DOMAIN answer.drive
           /\ FoldPath(NextKey) \in Seq(Name)
<1>1. DriveOK(drive)
  BY DEF IInv
<1>2. QED
  BY <1>1, AtFolderFacts, CheckFinds, CreateAnswer

(* The cache's answers are item ids. *)
LEMMA CacheType ==
    ASSUME IInv, NEW k \in DOMAIN cache
    PROVE  cache[k] = FoldPath(k) /\ cache[k] \in Seq(Name)
BY DEF IInv, CacheFaithful, DriveOK

(* The cursor is at a blob that no thread has seen. *)
LEMMA AtBlobFacts ==
    ASSUME IInv, AtBlob
    PROVE  /\ cur \in Index /\ jpc[cur] = "unseen"
           /\ cur + 1 \in 1..(Len(fileList) + 1)
           /\ Blob # EmptyLine => Blob \in Blobs
BY ListType DEF IInv, CursorInv, TypeOK, AtBlob, Blob, Line

(* Entries that are not done. *)
Open == {i \in Index : jpc[i] # "done"}

(* When an entry becomes done, one less is open, and one was. *)
LEMMA CountDone ==
    ASSUME IInv, NEW i \in Index, jpc[i] # "done", Index' = Index,
           jpc' = [jpc EXCEPT ![i] = "done"], countdown' = countdown - 1
    PROVE  countdown' \in Nat /\ CountdownExact'
<1>1. IsFiniteSet(Open) /\ countdown = Cardinality(Open) /\ countdown \in Nat
  <2>1. Index = 1..Len(fileList) /\ Len(fileList) \in Nat
    BY ListType DEF IInv
  <2>2. IsFiniteSet(Index)
    BY <2>1, FS_Interval
  <2>3. IsFiniteSet(Open)
    BY <2>2, FS_Subset DEF Open
  <2>4. QED
    BY <2>3 DEF IInv, CountdownExact, TypeOK, Open
<1>2. i \in Open /\ Open' = Open \ {i}
  BY DEF Open, IInv, TypeOK
<1>3. Cardinality(Open \ {i}) = Cardinality(Open) - 1 /\ Cardinality(Open \ {i}) \in Nat
  BY <1>1, <1>2, FS_RemoveElement, FS_CardinalityType
<1>4. QED
  BY <1>1, <1>2, <1>3 DEF CountdownExact, Open

(* Any other change of an open entry leaves the count as it is. *)
LEMMA CountSame ==
    ASSUME IInv, NEW i \in Index, jpc[i] # "done", Index' = Index,
           NEW s, s # "done", jpc' = [jpc EXCEPT ![i] = s], countdown' = countdown
    PROVE  CountdownExact'
<1>1. Open' = Open
  BY DEF Open, IInv, TypeOK
<1>2. QED
  BY <1>1 DEF CountdownExact, Open, IInv

(* Adding an entry to a list leaves lists of entries. *)
LEMMA AddToList ==
    ASSUME NEW S, NEW T, NEW f \in [S -> SUBSET T], NEW l \in S, NEW i \in T
    PROVE  [f EXCEPT ![l] = @ \cup {i}] \in [S -> SUBSET T]
<1>1. f[l] \cup {i} \in SUBSET T
  OBVIOUS
<1>2. QED
  BY <1>1

(* All steps keep the types. *)
LEMMA TypeStep ==
    ASSUME IInv, Next
    PROVE  TypeOK'
<1> USE ListFixed DEF IdType
<1>1. TypeOK /\ DriveOK(drive) /\ Index = 1..Len(fileList) /\ Len(fileList) \in Nat
  BY ListType DEF IInv
<1>2. CASE CheckContainer
  BY <1>1, <1>2, ContainerAnswers DEF TypeOK, CheckContainer, EnterContainer, jobVars, listVars
<1>3. CASE CreateContainer
  BY <1>1, <1>3, ContainerAnswers DEF TypeOK, CreateContainer, EnterContainer, jobVars, listVars
<1>4. CASE SkipEmptyLine
  <2>1. cur \in Index /\ jpc[cur] = "unseen" /\ cur + 1 \in 1..(Len(fileList) + 1)
    BY <1>4, AtBlobFacts DEF SkipEmptyLine
  <2>2. countdown' \in Nat
    BY <1>4, <2>1, CountDone, ListFixed DEF SkipEmptyLine
  <2>3. QED
    BY <1>1, <1>4, <2>1, <2>2 DEF TypeOK, SkipEmptyLine, jobVars, listVars
<1>5. CASE QueueRootBlob
  BY <1>1, <1>5, AtBlobFacts DEF TypeOK, QueueRootBlob, Queue, jobVars, listVars
<1>6. CASE QueueFromFullPath
  BY <1>1, <1>6, AtBlobFacts, CacheType
     DEF TypeOK, QueueFromFullPath, FullPathCached, Queue, jobVars, listVars
<1>7. CASE StartWalk
  BY <1>1, <1>7 DEF TypeOK, StartWalk, jobVars, listVars
<1>8. CASE WalkCached
  BY <1>1, <1>8, CacheType DEF TypeOK, WalkCached, jobVars, listVars
<1>9. CASE WalkLookup
  BY <1>1, <1>9, FolderAnswers DEF TypeOK, WalkLookup, AtFolder, EnterFolder, jobVars, listVars
<1>10. CASE WalkCreate
  <2>1. depth < Len(DirOf[Blob]) /\ cur \in Index /\ mpc = "mkFolder"
    BY <1>10 DEF WalkCreate, IInv, WalkInv, CursorInv, Blob
  <2>2. PICK answer \in CreateFolder(drive, NextFolder, folderId) :
            IF answer.item # NullItem
               THEN EnterFolder(answer.item) /\ UNCHANGED <<jpc, outcome>>
               ELSE /\ mpc' = "failing"
                    /\ jpc' = [jpc EXCEPT ![cur] = "report"]
                    /\ outcome' = [outcome EXCEPT ![cur] = "failed"]
                    /\ UNCHANGED <<depth, folderId, cache>>
    BY <1>10 DEF WalkCreate
  <2>3. CASE answer.item # NullItem
    BY <1>1, <1>10, <2>1, <2>2, <2>3, FolderAnswers DEF TypeOK, WalkCreate, EnterFolder, listVars
  <2>4. CASE answer.item = NullItem
    <3>1. /\ mpc' = "failing"
          /\ jpc' = [jpc EXCEPT ![cur] = "report"]
          /\ outcome' = [outcome EXCEPT ![cur] = "failed"]
          /\ UNCHANGED <<depth, folderId, cache>>
      BY <2>2, <2>4
    <3>2. UNCHANGED <<fileList, cur, containerId, parentId, uploaded, racing, listed, blank, countdown>>
      BY <1>10 DEF WalkCreate, listVars
    <3>3. "failed" \in Lists
      BY DEF Lists
    <3>4. QED
      BY <1>1, <3>1, <3>2, <3>3 DEF TypeOK
  <2>5. QED
    BY <2>3, <2>4
<1>11. CASE WalkEnds
  BY <1>1, <1>11 DEF TypeOK, WalkEnds, Queue, listVars, IInv, CursorInv
<1>12. CASE ContinueAfterFailure
  BY <1>1, <1>12 DEF TypeOK, ContinueAfterFailure, IInv, CursorInv, jobVars, listVars
<1>13. CASE ListExhausted \/ WaitReturns \/ Finished
  BY <1>1, <1>13 DEF TypeOK, ListExhausted, WaitReturns, Finished, vars, mainVars, jobVars, listVars
<1>14. ASSUME NEW i \in Index, CheckFile(i) PROVE TypeOK'
  BY <1>1, <1>14 DEF TypeOK, CheckFile, Decide, mainVars, listVars, Lists
<1>15. ASSUME NEW i \in Index, DownloadBlob(i) PROVE TypeOK'
  <2>1. CASE jpc' = [jpc EXCEPT ![i] = "upload"] /\ UNCHANGED outcome
    BY <1>1, <1>15, <2>1 DEF TypeOK, DownloadBlob, mainVars, listVars
  <2>2. CASE Decide(i, "failed")
    BY <1>1, <1>15, <2>2 DEF TypeOK, DownloadBlob, Decide, mainVars, listVars, Lists
  <2>3. QED
    BY <1>15, <2>1, <2>2 DEF DownloadBlob
<1>16. ASSUME NEW i \in Index, UploadBlob(i) PROVE TypeOK'
  <2>1. PICK answer \in UploadStream(drive, NameOf[fileList[i]], HomeOf(fileList[i]), fileList[i]) :
          /\ uploaded' = [uploaded EXCEPT ![i] = answer.item]
          /\ Decide(i, IF answer.item = "throws" THEN "failed" ELSE "succeeded")
    BY <1>16, AtFileFacts DEF UploadBlob
  <2>2. answer.item \in {"true", "false", "throws"}
    BY <1>1, <1>16, <2>1, AtFileFacts, UploadAnswer DEF UploadBlob
  <2>3. QED
    BY <1>1, <1>16, <2>1, <2>2 DEF TypeOK, UploadBlob, Decide, mainVars, listVars, Lists
<1>17. ASSUME NEW i \in Index, BeginAdd(i) PROVE TypeOK'
  BY <1>1, <1>17 DEF TypeOK, BeginAdd, Rivals, mainVars, jobVars
<1>18. ASSUME NEW i \in Index, EndAdd(i) PROVE TypeOK'
  <2>1. outcome[i] \in Lists
    BY <1>18 DEF EndAdd, IInv, OutcomeInv, TypeOK
  <2>2. listed' \in [Lists -> SUBSET Index]
    <3>1. listed' \in {listed, [listed EXCEPT ![outcome[i]] = @ \cup {i}]}
      BY <1>18 DEF EndAdd
    <3>2. listed \in [Lists -> SUBSET Index]
      BY <1>1 DEF TypeOK
    <3>3. [listed EXCEPT ![outcome[i]] = @ \cup {i}] \in [Lists -> SUBSET Index]
      BY <2>1, <3>2, AddToList
    <3>4. QED
      BY <3>1, <3>2, <3>3
  <2>3. blank' \in [Lists -> SUBSET Index]
    <3>1. blank' \in {blank, [blank EXCEPT ![outcome[i]] = @ \cup {i}]}
      BY <1>18 DEF EndAdd
    <3>2. blank \in [Lists -> SUBSET Index]
      BY <1>1 DEF TypeOK
    <3>3. [blank EXCEPT ![outcome[i]] = @ \cup {i}] \in [Lists -> SUBSET Index]
      BY <2>1, <3>2, AddToList
    <3>4. QED
      BY <3>1, <3>2, <3>3
  <2>4. QED
    BY <1>1, <1>18, <2>2, <2>3 DEF TypeOK, EndAdd, mainVars, jobVars
<1>19. ASSUME NEW i \in Index, Signal(i) PROVE TypeOK'
  <2>1. countdown' \in Nat
    BY <1>19, CountDone, ListFixed DEF Signal
  <2>2. QED
    BY <1>1, <1>19, <2>1 DEF TypeOK, Signal, mainVars, jobVars, listVars
<1>20. QED
  BY <1>2, <1>3, <1>4, <1>5, <1>6, <1>7, <1>8, <1>9, <1>10, <1>11, <1>12, <1>13,
     <1>14, <1>15, <1>16, <1>17, <1>18, <1>19 DEF Next, Main, Work
-----------------------------------------------------------------------------
(* A step of a work item moves its own control state only, along the order *)
(* of MigrateFile's statements, and leaves the main flow alone.            *)
Order == {<<"queued", "report">>, <<"queued", "download">>, <<"download", "report">>,
          <<"download", "upload">>, <<"upload", "report">>, <<"report", "adding">>,
          <<"adding", "signal">>, <<"signal", "done">>}

(* A step of a work item moves its own control state on, and nothing of    *)
(* the main flow.                                                          *)
LEMMA WorkShape ==
    ASSUME NEW i, Work(i)
    PROVE  /\ i \in Index
           /\ UNCHANGED <<fileList, mpc, cur, depth, folderId, containerId, cache, parentId>>
           /\ \E s : jpc' = [jpc EXCEPT ![i] = s] /\ <<jpc[i], s>> \in Order
BY DEF Work, CheckFile, DownloadBlob, UploadBlob, BeginAdd, EndAdd, Signal, Decide,
       mainVars, jobVars, Order

(* The cursor is advanced with the entry it leaves. *)
LEMMA CursorStep ==
    ASSUME IInv, Next
    PROVE  CursorInv'
<1> USE ListFixed
<1>1. TypeOK /\ CursorInv /\ Index = 1..Len(fileList) /\ Len(fileList) \in Nat
  BY ListType DEF IInv
<1>2. CASE CheckContainer \/ CreateContainer
  BY <1>1, <1>2 DEF TypeOK, CursorInv, CheckContainer, CreateContainer, EnterContainer
<1>3. CASE SkipEmptyLine
  BY <1>1, <1>3 DEF TypeOK, CursorInv, SkipEmptyLine, AtBlob
<1>4. CASE QueueRootBlob \/ QueueFromFullPath \/ WalkEnds
  BY <1>1, <1>4 DEF TypeOK, CursorInv, QueueRootBlob, QueueFromFullPath, WalkEnds, Queue, AtBlob
<1>5. CASE StartWalk
  BY <1>1, <1>5, AtBlobFacts DEF TypeOK, CursorInv, StartWalk, AtBlob, Blob
<1>6. CASE WalkCached \/ WalkLookup
  BY <1>1, <1>6 DEF TypeOK, CursorInv, WalkCached, WalkLookup, AtFolder, EnterFolder
<1>7. CASE WalkCreate
  BY <1>1, <1>7 DEF TypeOK, CursorInv, WalkCreate, EnterFolder
<1>8. CASE ContinueAfterFailure
  BY <1>1, <1>8 DEF TypeOK, CursorInv, ContinueAfterFailure
<1>9. CASE ListExhausted \/ WaitReturns \/ Finished
  BY <1>1, <1>9 DEF TypeOK, CursorInv, ListExhausted, WaitReturns, Finished, vars, mainVars
<1>10. ASSUME NEW i \in Jobs, Work(i) PROVE CursorInv'
  <2>1. /\ i \in Index /\ Index' = Index /\ UNCHANGED <<fileList, mpc, cur>>
        /\ \E s : jpc' = [jpc EXCEPT ![i] = s] /\ <<jpc[i], s>> \in Order
    BY <1>10, WorkShape DEF Index
  <2>2. jpc[i] # "unseen" /\ jpc'[i] # "unseen" /\ \A j \in Index \ {i} : jpc'[j] = jpc[j]
    BY <1>1, <2>1 DEF TypeOK, Order
  <2>3. jpc[i] \in {"report", "adding", "signal", "done"}
            => jpc'[i] \in {"report", "adding", "signal", "done"}
    BY <1>1, <2>1 DEF TypeOK, Order
  <2>4. QED
    BY <1>1, <2>1, <2>2, <2>3 DEF CursorInv
<1>11. QED
  BY <1>2, <1>3, <1>4, <1>5, <1>6, <1>7, <1>8, <1>9, <1>10 DEF Next, Main

(* The walk goes down the path of its blob. *)
LEMMA WalkStep ==
    ASSUME IInv, Next
    PROVE  WalkInv'
<1> USE ListFixed
<1>1. TypeOK /\ CursorInv /\ WalkInv
  BY DEF IInv
<1>2. CASE CheckContainer \/ CreateContainer
  BY <1>1, <1>2, ContainerAnswers
     DEF WalkInv, CheckContainer, CreateContainer, EnterContainer
<1>3. CASE SkipEmptyLine \/ QueueRootBlob \/ QueueFromFullPath \/ WalkEnds
  BY <1>1, <1>3
     DEF WalkInv, SkipEmptyLine, QueueRootBlob, QueueFromFullPath, WalkEnds, Queue, AtBlob
<1>4. CASE StartWalk
  <2>1. Blob \in Blobs /\ Len(DirOf[Blob]) \in Nat
    BY <1>4, AtBlobFacts, NamesAssumption DEF StartWalk
  <2>2. FoldPath(FolderKey(Blob, 0)) = <<Fold[Container]>>
    BY FolderKeyRoot, FoldRoot
  <2>3. QED
    BY <1>1, <1>4, <2>1, <2>2 DEF WalkInv, StartWalk, AtBlob, Blob
<1>5. CASE WalkCached
  <2>1. cache[NextKey] = FoldPath(NextKey)
    BY <1>5, CacheType DEF WalkCached
  <2>2. depth \in Nat /\ Len(DirOf[Blob]) \in Nat
    BY <1>1, <1>5, NamesAssumption DEF TypeOK, WalkCached, AtFolder, CursorInv, Blob
  <2>3. QED
    BY <1>1, <1>5, <2>1, <2>2 DEF WalkInv, WalkCached, AtFolder, NextKey, Blob
<1>6. CASE WalkLookup
  <2>1. depth \in Nat /\ Len(DirOf[Blob]) \in Nat
    BY <1>1, <1>6, NamesAssumption DEF TypeOK, WalkLookup, AtFolder, CursorInv, Blob
  <2>2. QED
    BY <1>1, <1>6, <2>1, FolderAnswers
       DEF WalkInv, WalkLookup, AtFolder, EnterFolder, NextKey, Blob
<1>7. CASE WalkCreate
  <2>1. depth \in Nat /\ Len(DirOf[Blob]) \in Nat /\ depth < Len(DirOf[Blob])
    BY <1>1, <1>7, NamesAssumption DEF TypeOK, WalkCreate, CursorInv, WalkInv, Blob
  <2>2. QED
    BY <1>1, <1>7, <2>1, FolderAnswers DEF WalkInv, WalkCreate, EnterFolder, NextKey, Blob
<1>8. CASE ContinueAfterFailure \/ ListExhausted \/ WaitReturns \/ Finished
  BY <1>1, <1>8
     DEF WalkInv, ContinueAfterFailure, ListExhausted, WaitReturns, Finished, vars, mainVars
<1>9. ASSUME NEW i \in Jobs, Work(i) PROVE WalkInv'
  BY <1>1, <1>9, WorkShape DEF WalkInv
<1>10. QED
  BY <1>2, <1>3, <1>4, <1>5, <1>6, <1>7, <1>8, <1>9 DEF Next, Main
(* Binding a path to its own item keeps the cache faithful. *)
LEMMA CacheBind ==
    ASSUME IInv, [Next]_vars, NEW k, FoldPath(k) \in DOMAIN drive',
           cache' = Bind(cache, k, FoldPath(k))
    PROVE  CacheFaithful'
BY DriveStep DEF IInv, CacheFaithful, Bind, Grows

(* The cache stays faithful. *)
LEMMA CacheStep ==
    ASSUME IInv, Next
    PROVE  CacheFaithful'
<1>1. CacheFaithful /\ Grows(drive, drive')
  BY DriveStep DEF IInv
<1>2. CASE UNCHANGED cache
  BY <1>1, <1>2 DEF CacheFaithful, Grows
<1>3. CASE CheckContainer
  <2>1. PICK answer \in CheckIfItemExists(drive, Container, Root) :
            IF answer # NullItem THEN EnterContainer(answer) ELSE UNCHANGED cache
    BY <1>3 DEF CheckContainer
  <2>2. CASE answer # NullItem
    BY <1>3, <2>1, <2>2, ContainerAnswers, FoldRoot, CacheBind DEF CheckContainer, EnterContainer
  <2>3. QED
    BY <1>2, <2>1, <2>2
<1>4. CASE CreateContainer
  <2>1. PICK answer \in CreateFolder(drive, Container, Root) :
            /\ drive' = answer.drive
            /\ IF answer.item # NullItem THEN EnterContainer(answer.item) ELSE UNCHANGED cache
    BY <1>4 DEF CreateContainer
  <2>2. CASE answer.item # NullItem
    BY <2>1, <2>2, ContainerAnswers, FoldRoot, CacheBind DEF EnterContainer
  <2>3. QED
    BY <1>2, <2>1, <2>2
<1>5. CASE WalkLookup
  <2>1. PICK answer \in CheckIfItemExists(drive, NextFolder, folderId) :
            IF answer # NullItem THEN EnterFolder(answer) ELSE UNCHANGED cache
    BY <1>5 DEF WalkLookup
  <2>2. CASE answer # NullItem
    <3>1. answer = FoldPath(NextKey) /\ answer \in DOMAIN drive /\ drive' = drive
      BY <1>5, <2>2, FolderAnswers DEF WalkLookup, AtFolder
    <3>2. QED
      BY <2>1, <2>2, <3>1, CacheBind DEF EnterFolder
  <2>3. QED
    BY <1>2, <2>1, <2>2
<1>6. CASE WalkCreate
  <2>1. PICK answer \in CreateFolder(drive, NextFolder, folderId) :
            /\ drive' = answer.drive
            /\ IF answer.item # NullItem THEN EnterFolder(answer.item) ELSE UNCHANGED cache
    BY <1>6 DEF WalkCreate
  <2>2. CASE answer.item # NullItem
    <3>1. answer.item = FoldPath(NextKey) /\ answer.item \in DOMAIN drive'
      BY <1>6, <2>1, <2>2, FolderAnswers DEF WalkCreate, IInv, WalkInv, Blob
    <3>2. QED
      BY <2>1, <2>2, <3>1, CacheBind DEF EnterFolder
  <2>3. QED
    BY <1>2, <2>1, <2>2
<1>7. CASE \E i \in Jobs : Work(i)
  BY <1>2, <1>7, WorkShape
<1>8. QED
  BY <1>2, <1>3, <1>4, <1>5, <1>6, <1>7
     DEF Next, Main, SkipEmptyLine, QueueRootBlob, QueueFromFullPath, StartWalk, WalkCached,
         WalkEnds, ContinueAfterFailure, ListExhausted, WaitReturns, Finished, vars, mainVars

(* A blob is queued with the id of its home. *)
LEMMA QueueKeepsParents ==
    ASSUME IInv, cur \in Index, Blob \in Blobs, Queue(HomeOf(Blob)), fileList' = fileList
    PROVE  ParentInv'
BY DEF IInv, TypeOK, ParentInv, Queue, Blob, Index

(* Only queueing changes a parent, and no other step queues. *)
LEMMA ParentStep ==
    ASSUME IInv, Next
    PROVE  ParentInv'
<1> USE ListFixed
<1>1. TypeOK /\ CursorInv /\ WalkInv /\ ParentInv
  BY DEF IInv
<1>2. CASE QueueRootBlob
  <2>1. Blob \in Blobs /\ cur \in Index /\ containerId = HomeOf(Blob)
    BY <1>1, <1>2, AtBlobFacts, HomeType DEF QueueRootBlob, WalkInv, AtBlob
  <2>2. QED
    BY <1>2, <2>1, QueueKeepsParents DEF QueueRootBlob
<1>3. CASE QueueFromFullPath
  <2>1. Blob \in Blobs /\ cur \in Index
    BY <1>3, AtBlobFacts DEF QueueFromFullPath
  <2>2. cache[FolderKey(Blob, Len(DirOf[Blob]))] = HomeOf(Blob)
    BY <1>3, CacheType DEF QueueFromFullPath, FullPathCached, HomeOf
  <2>3. QED
    BY <1>3, <2>1, <2>2, QueueKeepsParents DEF QueueFromFullPath
<1>4. CASE WalkEnds
  <2>1. Blob \in Blobs /\ cur \in Index
    BY <1>1, <1>4 DEF WalkEnds, CursorInv, Blob
  <2>2. folderId = HomeOf(Blob)
    BY <1>1, <1>4 DEF WalkEnds, WalkInv, HomeOf, Blob
  <2>3. QED
    BY <1>4, <2>1, <2>2, QueueKeepsParents DEF WalkEnds
<1>5. CASE SkipEmptyLine
  BY <1>1, <1>5, AtBlobFacts DEF ParentInv, TypeOK, SkipEmptyLine, jobVars
<1>6. CASE WalkCreate
  BY <1>1, <1>6 DEF ParentInv, TypeOK, WalkCreate, EnterFolder
<1>7. CASE UNCHANGED <<jpc, parentId>>
  BY <1>1, <1>7 DEF ParentInv
<1>8. ASSUME NEW i \in Jobs, Work(i) PROVE ParentInv'
  BY <1>1, <1>8, WorkShape DEF ParentInv, TypeOK, Order
<1>9. QED
  BY <1>2, <1>3, <1>4, <1>5, <1>6, <1>7, <1>8
     DEF Next, Main, CheckContainer, CreateContainer, StartWalk, WalkCached, WalkLookup,
         ContinueAfterFailure, ListExhausted, WaitReturns, Finished, vars, jobVars

(* Outcomes are decided before they are reported. *)
LEMMA OutcomeStep ==
    ASSUME IInv, Next
    PROVE  OutcomeInv'
<1> USE ListFixed
<1>1. TypeOK /\ CursorInv /\ WalkInv /\ OutcomeInv /\ EmptyLine \notin Blobs
  BY ListsAssumption DEF IInv
<1>2. CASE SkipEmptyLine
  BY <1>1, <1>2, AtBlobFacts DEF OutcomeInv, TypeOK, SkipEmptyLine, Blob, jobVars
<1>3. CASE QueueRootBlob \/ QueueFromFullPath \/ WalkEnds
  <2>1. cur \in Index /\ jpc[cur] = "unseen"
    BY <1>1, <1>3, AtBlobFacts DEF QueueRootBlob, QueueFromFullPath, WalkEnds, CursorInv
  <2>2. QED
    BY <1>1, <1>3, <2>1
       DEF OutcomeInv, TypeOK, QueueRootBlob, QueueFromFullPath, WalkEnds, Queue
<1>4. CASE WalkCreate
  <2>1. cur \in Index /\ jpc[cur] = "unseen" /\ fileList[cur] \in Blobs
    BY <1>1, <1>4 DEF WalkCreate, CursorInv
  <2>2. QED
    BY <1>1, <1>4, <2>1 DEF OutcomeInv, TypeOK, WalkCreate, EnterFolder
<1>5. CASE UNCHANGED <<jpc, outcome, uploaded>>
  BY <1>1, <1>5 DEF OutcomeInv
<1>6. ASSUME NEW i \in Index, CheckFile(i) PROVE OutcomeInv'
  BY <1>1, <1>6, AtFileFacts DEF OutcomeInv, TypeOK, CheckFile, Decide
<1>7. ASSUME NEW i \in Index, DownloadBlob(i) PROVE OutcomeInv'
  <2>1. jpc[i] = "download" /\ fileList[i] \in Blobs /\ uploaded' = uploaded
    BY <1>7, AtFileFacts DEF DownloadBlob
  <2>2. CASE jpc' = [jpc EXCEPT ![i] = "upload"] /\ UNCHANGED outcome
    BY <1>1, <2>1, <2>2 DEF OutcomeInv, TypeOK
  <2>3. CASE Decide(i, "failed")
    BY <1>1, <2>1, <2>3 DEF OutcomeInv, TypeOK, Decide
  <2>4. QED
    BY <1>7, <2>2, <2>3 DEF DownloadBlob
<1>8. ASSUME NEW i \in Index, UploadBlob(i) PROVE OutcomeInv'
  <2>1. jpc[i] = "upload" /\ fileList[i] \in Blobs
    BY <1>8, AtFileFacts DEF UploadBlob
  <2>2. DriveOK(drive) /\ parentId[i] = HomeOf(fileList[i])
    BY <2>1, AtFileFacts DEF IInv
  <2>3. PICK answer \in UploadStream(drive, NameOf[fileList[i]], HomeOf(fileList[i]), fileList[i]) :
            /\ uploaded' = [uploaded EXCEPT ![i] = answer.item]
            /\ Decide(i, IF answer.item = "throws" THEN "failed" ELSE "succeeded")
    BY <1>8, <2>2 DEF UploadBlob
  <2>4. answer.item \in {"true", "false", "throws"}
    BY <2>1, <2>2, UploadAnswer
  <2>5. QED
    BY <1>1, <2>1, <2>3, <2>4 DEF OutcomeInv, TypeOK, Decide
<1>9. ASSUME NEW i \in Index, BeginAdd(i) \/ EndAdd(i) \/ Signal(i) PROVE OutcomeInv'
  BY <1>1, <1>9 DEF OutcomeInv, TypeOK, BeginAdd, EndAdd, Signal, jobVars
<1>10. QED
  BY <1>2, <1>3, <1>4, <1>5, <1>6, <1>7, <1>8, <1>9
     DEF Next, Main, Work, CheckContainer, CreateContainer, StartWalk, WalkCached, WalkLookup,
         ContinueAfterFailure, ListExhausted, WaitReturns, Finished, vars, jobVars

(* What an outcome says of the drive stays true while the drive grows. *)
LEMMA EvidenceStep ==
    ASSUME IInv, Next
    PROVE  EvidenceInv'
<1> USE ListFixed
<1>1. TypeOK /\ CursorInv /\ OutcomeInv /\ EvidenceInv /\ Grows(drive, drive')
  BY DriveStep DEF IInv
<1>2. CASE UNCHANGED <<outcome, uploaded>>
  BY <1>1, <1>2 DEF EvidenceInv, Grows
<1>3. CASE WalkCreate
  <2>1. outcome' \in {outcome, [outcome EXCEPT ![cur] = "failed"]} /\ uploaded' = uploaded
    BY <1>3 DEF WalkCreate
  <2>2. QED
    BY <1>1, <2>1 DEF EvidenceInv, Grows, TypeOK
<1>4. ASSUME NEW i \in Index, CheckFile(i) PROVE EvidenceInv'
  <2>1. fileList[i] \in Blobs /\ Child(parentId[i], NameOf[fileList[i]]) = PlaceOf(fileList[i])
    BY <1>4, AtFileFacts DEF CheckFile
  <2>2. PICK answer \in CheckIfItemExists(drive, NameOf[fileList[i]], parentId[i]) :
            IF answer # NullItem THEN Decide(i, "exist") ELSE UNCHANGED outcome
    BY <1>4 DEF CheckFile
  <2>3. CASE answer # NullItem
    <3>1. PlaceOf(fileList[i]) \in DOMAIN drive
      BY <2>1, <2>2, <2>3, CheckFinds
    <3>2. uploaded' = uploaded /\ outcome' = [outcome EXCEPT ![i] = "exist"]
      BY <1>4, <2>2, <2>3 DEF CheckFile, Decide
    <3>3. QED
      BY <1>1, <3>1, <3>2 DEF EvidenceInv, Grows, TypeOK
  <2>4. QED
    BY <1>2, <1>4, <2>2, <2>3 DEF CheckFile
<1>5. ASSUME NEW i \in Index, DownloadBlob(i) PROVE EvidenceInv'
  <2>1. outcome' \in {outcome, [outcome EXCEPT ![i] = "failed"]} /\ uploaded' = uploaded
    BY <1>5 DEF DownloadBlob, Decide
  <2>2. QED
    BY <1>1, <2>1 DEF EvidenceInv, Grows, TypeOK
<1>6. ASSUME NEW i \in Index, UploadBlob(i) PROVE EvidenceInv'
  <2>1. fileList[i] \in Blobs /\ parentId[i] = HomeOf(fileList[i]) /\ DriveOK(drive)
    BY <1>6, AtFileFacts DEF UploadBlob, IInv
  <2>2. PICK answer \in UploadStream(drive, NameOf[fileList[i]], HomeOf(fileList[i]), fileList[i]) :
            /\ drive' = answer.drive
            /\ uploaded' = [uploaded EXCEPT ![i] = answer.item]
            /\ Decide(i, IF answer.item = "throws" THEN "failed" ELSE "succeeded")
    BY <1>6, <2>1 DEF UploadBlob
  <2>3. answer.item = "true" => /\ PlaceOf(fileList[i]) \in DOMAIN drive'
                                /\ drive'[PlaceOf(fileList[i])] = fileList[i]
    BY <2>1, <2>2, UploadAnswer
  <2>4. \/ outcome' = [outcome EXCEPT ![i] = "failed"]
        \/ outcome' = [outcome EXCEPT ![i] = "succeeded"]
    BY <2>2 DEF Decide
  <2>5. QED
    BY <1>1, <2>2, <2>3, <2>4 DEF EvidenceInv, Grows, TypeOK
<1>7. ASSUME NEW i \in Index, BeginAdd(i) \/ EndAdd(i) \/ Signal(i) PROVE EvidenceInv'
  BY <1>2, <1>7 DEF BeginAdd, EndAdd, Signal, jobVars
<1>8. QED
  BY <1>2, <1>3, <1>4, <1>5, <1>6, <1>7
     DEF Next, Main, Work, CheckContainer, CreateContainer, SkipEmptyLine, QueueRootBlob,
         QueueFromFullPath, StartWalk, WalkCached, WalkLookup, WalkEnds, ContinueAfterFailure,
         ListExhausted, WaitReturns, Finished, vars, jobVars
(* The lists hold what was decided. *)
LEMMA ListStep ==
    ASSUME IInv, Next
    PROVE  ListInv'
<1> USE ListFixed
<1>1. TypeOK /\ CursorInv /\ WalkInv /\ OutcomeInv /\ ListInv
  BY DEF IInv
<1>2. \A i \in Index : jpc[i] \in {"unseen", "queued", "download", "upload"} =>
          \A l \in Lists : i \notin listed[l]
  BY <1>1 DEF OutcomeInv, ListInv, Lists
<1>3. CASE SkipEmptyLine
  BY <1>1, <1>2, <1>3, AtBlobFacts DEF ListInv, OutcomeInv, TypeOK, SkipEmptyLine, Lists, jobVars, listVars
<1>4. CASE QueueRootBlob \/ QueueFromFullPath \/ WalkEnds
  BY <1>1, <1>4
     DEF ListInv, TypeOK, QueueRootBlob, QueueFromFullPath, WalkEnds, Queue, listVars
<1>5. CASE WalkCreate
  <2>1. cur \in Index /\ jpc[cur] = "unseen"
    BY <1>1, <1>5 DEF WalkCreate, CursorInv
  <2>2. QED
    <3>1. UNCHANGED listVars
      BY <1>5 DEF WalkCreate
    <3>2. \/ UNCHANGED <<jpc, outcome>>
          \/ /\ jpc' = [jpc EXCEPT ![cur] = "report"]
             /\ outcome' = [outcome EXCEPT ![cur] = "failed"]
      BY <1>5 DEF WalkCreate
    <3>3. QED
      BY <1>1, <1>2, <2>1, <3>1, <3>2 DEF ListInv, TypeOK, listVars
<1>6. CASE UNCHANGED <<jpc, outcome, listVars>>
  BY <1>1, <1>6 DEF ListInv, listVars
<1>7. ASSUME NEW i \in Index, CheckFile(i) \/ DownloadBlob(i) \/ UploadBlob(i) PROVE ListInv'
  <2>1. jpc[i] \in {"queued", "download", "upload"} /\ UNCHANGED listVars
    BY <1>7 DEF CheckFile, DownloadBlob, UploadBlob
  <2>2. \/ jpc' = [jpc EXCEPT ![i] = "download"] /\ outcome' = outcome
        \/ jpc' = [jpc EXCEPT ![i] = "upload"] /\ outcome' = outcome
        \/ \E o : jpc' = [jpc EXCEPT ![i] = "report"] /\ outcome' = [outcome EXCEPT ![i] = o]
    BY <1>7 DEF CheckFile, DownloadBlob, UploadBlob, Decide
  <2>3. QED
    BY <1>1, <1>2, <2>1, <2>2 DEF ListInv, TypeOK, listVars
<1>8. ASSUME NEW i \in Index, BeginAdd(i) PROVE ListInv'
  BY <1>1, <1>8 DEF ListInv, TypeOK, BeginAdd, jobVars
<1>9. ASSUME NEW i \in Index, EndAdd(i) PROVE ListInv'
  <2>1. jpc[i] = "adding" /\ jpc' = [jpc EXCEPT ![i] = "signal"] /\ UNCHANGED <<outcome, racing>>
    BY <1>9 DEF EndAdd, jobVars
  <2>2. outcome[i] \in Lists
    BY <1>1, <2>1 DEF OutcomeInv, TypeOK
  <2>3. CASE listed' = [listed EXCEPT ![outcome[i]] = @ \cup {i}]
    BY <1>1, <2>1, <2>2, <2>3 DEF ListInv, TypeOK
  <2>4. CASE i \in racing /\ listed' = listed
    BY <1>1, <2>1, <2>2, <2>4 DEF ListInv, TypeOK
  <2>5. QED
    BY <1>9, <2>3, <2>4 DEF EndAdd, MayLose
<1>10. ASSUME NEW i \in Index, Signal(i) PROVE ListInv'
  BY <1>1, <1>10 DEF ListInv, TypeOK, Signal, jobVars, listVars
<1>11. QED
  BY <1>3, <1>4, <1>5, <1>6, <1>7, <1>8, <1>9, <1>10
     DEF Next, Main, Work, CheckContainer, CreateContainer, StartWalk, WalkCached, WalkLookup,
         ContinueAfterFailure, ListExhausted, WaitReturns, Finished, vars, jobVars

(* Every way out of the program signals once. *)
LEMMA CountStep ==
    ASSUME IInv, Next
    PROVE  CountdownExact'
<1> USE ListFixed
<1>1. TypeOK /\ CursorInv /\ CountdownExact
  BY DEF IInv
<1>2. CASE SkipEmptyLine
  BY <1>2, AtBlobFacts, CountDone DEF SkipEmptyLine
<1>3. CASE QueueRootBlob \/ QueueFromFullPath \/ WalkEnds
  <2>1. cur \in Index /\ jpc[cur] = "unseen"
    BY <1>1, <1>3, AtBlobFacts DEF QueueRootBlob, QueueFromFullPath, WalkEnds, CursorInv
  <2>2. jpc' = [jpc EXCEPT ![cur] = "queued"] /\ countdown' = countdown
    BY <1>3 DEF QueueRootBlob, QueueFromFullPath, WalkEnds, Queue
  <2>3. QED
    BY <2>1, <2>2, CountSame
<1>4. CASE UNCHANGED <<jpc, countdown>>
  BY <1>1, <1>4 DEF CountdownExact
<1>5. CASE WalkCreate
  <2>1. cur \in Index /\ jpc[cur] = "unseen" /\ countdown' = countdown
    BY <1>1, <1>5 DEF WalkCreate, CursorInv
  <2>2. jpc' = [jpc EXCEPT ![cur] = "report"] \/ jpc' = jpc
    BY <1>5 DEF WalkCreate
  <2>3. QED
    BY <1>4, <2>1, <2>2, CountSame
<1>6. ASSUME NEW i \in Index, Signal(i) PROVE CountdownExact'
  BY <1>6, CountDone DEF Signal
<1>7. ASSUME NEW i \in Index, Work(i), ~Signal(i) PROVE CountdownExact'
  <2>1. countdown' = countdown
    BY <1>7 DEF Work, CheckFile, DownloadBlob, UploadBlob, BeginAdd, EndAdd
  <2>2. \E s : jpc' = [jpc EXCEPT ![i] = s] /\ s # "done" /\ jpc[i] # "done"
    BY <1>7 DEF Work, CheckFile, DownloadBlob, UploadBlob, BeginAdd, EndAdd, Decide
  <2>3. QED
    BY <2>1, <2>2, CountSame
<1>8. QED
  BY <1>2, <1>3, <1>4, <1>5, <1>6, <1>7
     DEF Next, Main, Work, CheckContainer, CreateContainer, StartWalk, WalkCached, WalkLookup,
         ContinueAfterFailure, ListExhausted, WaitReturns, Finished, vars

(* A count of 0 means that all entries are done. *)
LEMMA CountZero ==
    ASSUME IInv, countdown = 0
    PROVE  \A i \in Index : jpc[i] = "done"
<1>1. Index = 1..Len(fileList) /\ Len(fileList) \in Nat
  BY ListType DEF IInv
<1>2. IsFiniteSet(Index)
  BY <1>1, FS_Interval
<1>3. IsFiniteSet(Open) /\ Cardinality(Open) = 0
  BY <1>2, FS_Subset DEF Open, IInv, CountdownExact
<1>4. Open = {}
  BY <1>3, FS_EmptySet
<1>5. QED
  BY <1>4 DEF Open

(* The wait ends at a count of 0, and what is done stays done. *)
LEMMA ReturnStep ==
    ASSUME IInv, Next
    PROVE  ReturnsLast'
<1> USE ListFixed
<1>1. ReturnsLast
  BY DEF IInv
<1>2. CASE WaitReturns
  BY <1>2, CountZero DEF ReturnsLast, WaitReturns
<1>3. CASE Finished
  BY <1>1, <1>3 DEF ReturnsLast, Finished, vars
<1>4. CASE Main /\ ~WaitReturns
  BY <1>4
     DEF ReturnsLast, Main, CheckContainer, CreateContainer, EnterContainer, SkipEmptyLine,
         QueueRootBlob, QueueFromFullPath, Queue, StartWalk, AtBlob, WalkCached, WalkLookup,
         AtFolder, EnterFolder, WalkCreate, WalkEnds, ContinueAfterFailure, ListExhausted
<1>5. ASSUME NEW i \in Jobs, Work(i) PROVE ReturnsLast'
  <2>1. i \in Index /\ jpc[i] # "done" /\ mpc' = mpc
    BY <1>5, WorkShape DEF Order
  <2>2. QED
    BY <1>1, <2>1 DEF ReturnsLast
<1>6. QED
  BY <1>2, <1>3, <1>4, <1>5 DEF Next
-----------------------------------------------------------------------------
(* A new migrator, with a list of lines and a drive that is well formed.   *)
Fresh ==
    /\ fileList \in Seq(Line) /\ DriveOK(drive)
    /\ mpc = "container" /\ cur = 1 /\ depth = 0
    /\ folderId = NullItem /\ containerId = NullItem
    /\ cache = [k \in {} |-> NullItem]
    /\ jpc = [i \in Index |-> "unseen"]
    /\ parentId = [i \in Index |-> NullItem]
    /\ uploaded = [i \in Index |-> "none"]
    /\ outcome = [i \in Index |-> "none"]
    /\ racing = {}
    /\ listed = [l \in Lists |-> {}] /\ blank = [l \in Lists |-> {}]
    /\ countdown = Len(fileList)

(* A new migrator satisfies the invariant. *)
LEMMA FreshInv == Fresh => IInv
<1> SUFFICES ASSUME Fresh PROVE IInv
  OBVIOUS
<1>1. fileList \in Seq(Line) /\ Index = 1..Len(fileList) /\ Len(fileList) \in Nat
  BY DEF Fresh, Index
<1>2. TypeOK
  BY <1>1 DEF Fresh, TypeOK, IdType, NullItem
<1>3. DriveOK(drive)
  BY DEF Fresh
<1>4. CursorInv /\ ReturnsLast
  BY <1>1 DEF Fresh, CursorInv, ReturnsLast
<1>5. WalkInv /\ ParentInv /\ OutcomeInv /\ EvidenceInv /\ ListInv
  BY <1>1 DEF Fresh, WalkInv, ParentInv, OutcomeInv, EvidenceInv, ListInv, Lists
<1>6. CacheFaithful
  BY DEF Fresh, CacheFaithful
<1>7. CountdownExact
  <2>1. {i \in Index : jpc[i] # "done"} = 1..Len(fileList)
    BY <1>1 DEF Fresh
  <2>2. Cardinality(1..Len(fileList)) = Len(fileList)
    BY <1>1, FS_Interval
  <2>3. QED
    BY <2>1, <2>2 DEF CountdownExact, Fresh
<1>8. QED
  BY <1>2, <1>3, <1>4, <1>5, <1>6, <1>7 DEF IInv

(* The initial states satisfy the invariant. *)
LEMMA InitInv == Init => IInv
BY ListsAssumption, DrivesAssumption, FreshInv DEF Init, Fresh

(* The invariant reads the variables only, so stuttering keeps it. *)
LEMMA StutterInv == IInv /\ UNCHANGED vars => IInv'
BY DEF IInv, vars, mainVars, jobVars, listVars, TypeOK, DriveOK, CursorInv, WalkInv,
       CacheFaithful, ParentInv, OutcomeInv, EvidenceInv, ListInv, CountdownExact,
       ReturnsLast, Index

(* Every step keeps the invariant. *)
LEMMA NextInv == IInv /\ [Next]_vars => IInv'
<1>1. ASSUME IInv, Next PROVE IInv'
  <2>1. TypeOK' /\ DriveOK(drive')
    BY <1>1, TypeStep, DriveStep
  <2>2. CursorInv' /\ WalkInv' /\ CacheFaithful' /\ ParentInv'
    BY <1>1, CursorStep, WalkStep, CacheStep, ParentStep
  <2>3. OutcomeInv' /\ EvidenceInv' /\ ListInv'
    BY <1>1, OutcomeStep, EvidenceStep, ListStep
  <2>4. CountdownExact' /\ ReturnsLast'
    BY <1>1, CountStep, ReturnStep
  <2>5. QED
    BY <2>1, <2>2, <2>3, <2>4 DEF IInv, DriveOK
<1>2. QED
  BY <1>1, StutterInv

(* IInv is inductive: it holds of every reachable state of FileMigrator.   *)
THEOREM Invariance == Spec => []IInv
BY InitInv, NextInv, PTL DEF Spec

(* All variables of FileMigrator keep their types. *)
THEOREM TypeCorrect == Spec => []TypeOK
<1>1. IInv => TypeOK
  BY DEF IInv
<1>2. QED
  BY <1>1, Invariance, PTL

(* The countdown is the number of entries that are not done: Signal never  *)
(* throws, whatever the threads do.                                        *)
THEOREM CountdownCorrect == Spec => []CountdownExact
<1>1. IInv => CountdownExact
  BY DEF IInv
<1>2. QED
  BY <1>1, Invariance, PTL

(* MigrateFiles returns after the last thread is done with its entry.      *)
THEOREM ReturnsLastHolds == Spec => []ReturnsLast
<1>1. IInv => ReturnsLast
  BY DEF IInv
<1>2. QED
  BY <1>1, Invariance, PTL

(* The directory cache never has a wrong or a missing item's id.           *)
THEOREM CacheCorrect == Spec => []CacheFaithful
<1>1. IInv => CacheFaithful
  BY DEF IInv
<1>2. QED
  BY <1>1, Invariance, PTL

(* Every migrated file is in its blob's folder, under its blob's name.     *)
THEOREM FilesAtHomeHolds == Spec => []FilesAtHome
<1>1. IInv => FilesAtHome
  BY DEF IInv, DriveOK, FilesAtHome
<1>2. QED
  BY <1>1, Invariance, PTL

(* A success that the upload confirmed is in the drive, with its content.  *)
THEOREM SucceededHolds == Spec => []SucceededInDrive
<1>1. IInv => SucceededInDrive
  BY DEF IInv, TypeOK, ListInv, EvidenceInv, SucceededInDrive, Lists
<1>2. QED
  BY <1>1, Invariance, PTL

(* A blob that is listed as existing has an item in its place.             *)
THEOREM ExistHolds == Spec => []ExistTaken
<1>1. IInv => ExistTaken
  BY DEF IInv, TypeOK, ListInv, EvidenceInv, ExistTaken, Lists
<1>2. QED
  BY <1>1, Invariance, PTL

(* At the end each name is in exactly one list, but for races.             *)
THEOREM ReportedHolds == Spec => []EveryBlobReported
<1>1. IInv => EveryBlobReported
  <2> SUFFICES ASSUME IInv, mpc = "returned", NEW i \in Index,
                      fileList[i] # EmptyLine, i \notin racing
               PROVE  \E l \in Lists : i \in listed[l] /\ \A m \in Lists \ {l} : i \notin listed[m]
    BY DEF EveryBlobReported
  <2>1. jpc[i] = "done" /\ outcome[i] # "none" /\ outcome[i] \in Lists
    BY DEF IInv, ReturnsLast, OutcomeInv, TypeOK
  <2>2. i \in listed[outcome[i]]
    BY <2>1 DEF IInv, ListInv
  <2>3. \A m \in Lists \ {outcome[i]} : i \notin listed[m]
    BY <2>1 DEF IInv, ListInv
  <2>4. QED
    BY <2>1, <2>2, <2>3
<1>2. QED
  BY <1>1, Invariance, PTL

(* No step changes or removes an item of the drive.                        *)
THEOREM NeverOverwritesHolds == Spec => NeverOverwrites
<1>1. IInv /\ [Next]_vars =>
        [\A p \in DOMAIN drive : p \in DOMAIN drive' /\ drive'[p] = drive[p]]_vars
  BY DriveStep DEF Grows
<1>2. QED
  BY <1>1, Invariance, PTL DEF Spec, NeverOverwrites
-----------------------------------------------------------------------------
(* Why blobs fail. *)

(* Something that is not a folder is at p. *)
Blocked(p) == p \in DOMAIN drive /\ drive[p] # Folder

(* What FailuresExplained says of a blob. *)
Explained(b) ==
    LET place == PlaceOf(b)
    IN  \E n \in 1..Len(place) :
            LET p == SubSeq(place, 1, n)
            IN  p \in DOMAIN drive /\ (drive[p] # Folder \/ n = Len(place))

(* The folders that the main flow and the work items hold are in the drive.*)
FolderInv ==
    /\ mpc \notin {"container", "mkContainer", "threw"} => containerId \in DOMAIN drive
    /\ mpc \in {"walk", "mkFolder"} => folderId \in DOMAIN drive
    /\ \A i \in Index :
           jpc[i] \in {"queued", "download", "upload"} => parentId[i] \in DOMAIN drive

(* Without faults a folder is created only where none is. *)
MissingInv ==
    ~Faulty /\ mpc = "mkFolder" =>
        \/ Blocked(folderId)
        \/ Child(folderId, NextFolder) \in DOMAIN drive => Blocked(Child(folderId, NextFolder))

WhyInv == FolderInv /\ MissingInv /\ FailuresExplained

(* The fronts of a blob's place are its folders. *)
LEMMA PlaceFront ==
    ASSUME NEW b \in Blobs, NEW d \in 0..Len(DirOf[b])
    PROVE  /\ d + 1 \in 1..Len(PlaceOf(b))
           /\ SubSeq(PlaceOf(b), 1, d + 1) = FoldPath(FolderKey(b, d))
           /\ Len(PlaceOf(b)) \in 1..Len(PlaceOf(b))
           /\ SubSeq(PlaceOf(b), 1, Len(PlaceOf(b))) = PlaceOf(b)
<1> DEFINE n == Len(DirOf[b])
           home == FoldPath(FolderKey(b, n))
           front == FoldPath(FolderKey(b, d))
           place == PlaceOf(b)
<1>1. DirOf[b] \in Seq(Name) /\ n \in Nat /\ d \in Nat /\ d <= n /\ n \in 0..n
  BY NamesAssumption
<1>2. home \in Seq(Name) /\ front \in Seq(Name)
  BY <1>1, FolderKeyType
<1>3. Len(home) = n + 1 /\ Len(front) = d + 1
  BY <1>1, <1>2 DEF FoldPath, FolderKey
<1>4. \A k \in 1..(d + 1) : front[k] = home[k]
  BY <1>1, <1>3 DEF FoldPath, FolderKey
<1>5. place = Append(home, Fold[NameOf[b]]) /\ place \in Seq(Name)
  BY HomeType DEF Child
<1> HIDE DEF n, home, front, place
<1>6. Len(place) = n + 2 /\ \A k \in 1..(n + 1) : place[k] = home[k]
  BY <1>1, <1>2, <1>3, <1>5
<1>7. SubSeq(place, 1, d + 1) = front
  <2>1. /\ SubSeq(place, 1, d + 1) \in Seq(Name) /\ Len(SubSeq(place, 1, d + 1)) = d + 1
        /\ \A k \in 1..(d + 1) : SubSeq(place, 1, d + 1)[k] = place[k]
    BY <1>1, <1>5, <1>6
  <2>2. \A k \in 1..(d + 1) : SubSeq(place, 1, d + 1)[k] = front[k]
    BY <1>1, <1>4, <1>6, <2>1
  <2>3. QED
    BY <1>2, <1>3, <2>1, <2>2
<1>8. SubSeq(place, 1, Len(place)) = place
  BY <1>5
<1>9. QED
  BY <1>1, <1>6, <1>7, <1>8 DEF front, place

(* A folder of the path that is none, or a place that is taken, explains a *)
(* failure.                                                                *)
LEMMA BlockedExplains ==
    ASSUME NEW b \in Blobs, NEW d \in 0..Len(DirOf[b]), Blocked(FoldPath(FolderKey(b, d)))
    PROVE  Explained(b)
BY PlaceFront DEF Explained, Blocked

LEMMA TakenExplains ==
    ASSUME NEW b \in Blobs, PlaceOf(b) \in DOMAIN drive
    PROVE  Explained(b)
<1>1. 0 \in 0..Len(DirOf[b])
  BY NamesAssumption
<1>2. QED
  BY <1>1, PlaceFront DEF Explained

(* An explanation stays. *)
LEMMA ExplainedStays ==
    ASSUME NEW b, Explained(b), Grows(drive, drive')
    PROVE  Explained(b)'
BY DEF Explained, Grows

(* A call that may not fail is refused because the parent is no folder, or *)
(* the name is taken.                                                      *)
LEMMA RefusedBecause ==
    ASSUME ~Faulty, NEW n, NEW p \in DOMAIN drive, NEW c, NEW ok, NEW err, ok # err,
           NEW answer \in AddItem(drive, n, p, c, ok, err), answer.item = err
    PROVE  Blocked(p) \/ Child(p, n) \in DOMAIN drive
<1>1. CASE Accepts(drive, n, p)
  <2>1. answer = [drive |-> Bind(drive, Child(p, n), c), item |-> ok]
    BY <1>1 DEF AddItem
  <2>2. QED
    BY <2>1
<1>2. CASE ~Accepts(drive, n, p)
  BY <1>2 DEF Accepts, IsFolder, Blocked
<1>3. QED
  BY <1>1, <1>2

LEMMA FolderInvStep ==
    ASSUME IInv, FolderInv, Next
    PROVE  FolderInv'
<1> USE ListFixed
<1>1. TypeOK /\ CursorInv /\ WalkInv /\ CacheFaithful /\ Grows(drive, drive')
  BY DriveStep DEF IInv
<1>2. CASE CheckContainer
  <2>1. PICK answer \in CheckIfItemExists(drive, Container, Root) :
            IF answer # NullItem THEN EnterContainer(answer) ELSE mpc' = "mkContainer"
    BY <1>2 DEF CheckContainer
  <2>2. answer # NullItem => answer \in DOMAIN drive
    BY ContainerAnswers
  <2>3. QED
    BY <1>2, <2>1, <2>2 DEF FolderInv, CheckContainer, EnterContainer, jobVars
<1>3. CASE CreateContainer
  <2>1. PICK answer \in CreateFolder(drive, Container, Root) :
            /\ drive' = answer.drive
            /\ IF answer.item # NullItem THEN EnterContainer(answer.item) ELSE mpc' = "threw"
    BY <1>3 DEF CreateContainer
  <2>2. answer.item # NullItem => answer.item \in DOMAIN drive'
    BY <2>1, ContainerAnswers
  <2>3. UNCHANGED <<jpc, parentId>>
    BY <1>3 DEF CreateContainer, jobVars
  <2>4. QED
    BY <1>1, <2>1, <2>2, <2>3 DEF FolderInv, EnterContainer, Grows
<1>4. CASE SkipEmptyLine
  BY <1>1, <1>4, AtBlobFacts DEF FolderInv, TypeOK, SkipEmptyLine, AtBlob, jobVars
<1>5. ASSUME NEW id \in DOMAIN drive, cur \in Index, Queue(id),
             UNCHANGED <<drive, containerId>>, mpc \in {"next", "walk"}
      PROVE  FolderInv'
  BY <1>1, <1>5 DEF FolderInv, TypeOK, Queue
<1>6. CASE QueueRootBlob
  BY <1>5, <1>6 DEF QueueRootBlob, AtBlob, FolderInv
<1>7. CASE QueueFromFullPath
  BY <1>1, <1>5, <1>7 DEF QueueFromFullPath, FullPathCached, AtBlob, CacheFaithful
<1>8. CASE WalkEnds
  BY <1>1, <1>5, <1>8 DEF WalkEnds, FolderInv, CursorInv
<1>9. CASE StartWalk
  BY <1>9 DEF FolderInv, StartWalk, AtBlob, jobVars
<1>10. CASE WalkCached
  BY <1>1, <1>10 DEF FolderInv, WalkCached, AtFolder, CacheFaithful, jobVars
<1>11. CASE WalkLookup
  <2>1. PICK answer \in CheckIfItemExists(drive, NextFolder, folderId) :
            IF answer # NullItem THEN EnterFolder(answer)
                                 ELSE mpc' = "mkFolder" /\ folderId' = folderId
    BY <1>11 DEF WalkLookup
  <2>2. mpc = "walk" /\ (answer # NullItem => answer \in DOMAIN drive)
    BY <1>11, FolderAnswers DEF WalkLookup, AtFolder
  <2>3. UNCHANGED <<drive, containerId, jpc, parentId>>
    BY <1>11 DEF WalkLookup, jobVars
  <2>4. QED
    BY <2>1, <2>2, <2>3 DEF FolderInv, EnterFolder
<1>12. CASE WalkCreate
  <2>1. PICK answer \in CreateFolder(drive, NextFolder, folderId) :
            /\ drive' = answer.drive
            /\ IF answer.item # NullItem THEN EnterFolder(answer.item) /\ UNCHANGED jpc
                                         ELSE /\ mpc' = "failing"
                                              /\ jpc' = [jpc EXCEPT ![cur] = "report"]
    BY <1>12 DEF WalkCreate
  <2>2. mpc = "mkFolder" /\ UNCHANGED <<containerId, parentId>>
    BY <1>12 DEF WalkCreate
  <2>3. answer.item # NullItem => answer.item \in DOMAIN drive'
    BY <1>1, <2>1, <2>2, FolderAnswers DEF WalkInv, Blob
  <2>4. \A i \in Index : jpc'[i] \in {"queued", "download", "upload"}
                            => jpc[i] \in {"queued", "download", "upload"}
    BY <1>1, <2>1 DEF TypeOK
  <2>5. QED
    BY <1>1, <2>1, <2>2, <2>3, <2>4 DEF FolderInv, EnterFolder, Grows
<1>13. CASE ContinueAfterFailure \/ ListExhausted \/ WaitReturns \/ Finished
  BY <1>13 DEF FolderInv, ContinueAfterFailure, ListExhausted, WaitReturns, Finished, vars,
               mainVars, jobVars
<1>14. ASSUME NEW i \in Jobs, Work(i) PROVE FolderInv'
  <2>1. UNCHANGED <<mpc, folderId, containerId, parentId>>
    BY <1>14, WorkShape
  <2>2. \A j \in Index : jpc'[j] \in {"queued", "download", "upload"}
                            => jpc[j] \in {"queued", "download", "upload"}
    BY <1>1, <1>14, WorkShape DEF TypeOK, Order
  <2>3. QED
    BY <1>1, <2>1, <2>2 DEF FolderInv, Grows
<1>15. QED
  BY <1>2, <1>3, <1>4, <1>6, <1>7, <1>8, <1>9, <1>10, <1>11, <1>12, <1>13, <1>14 DEF Next, Main

LEMMA MissingInvStep ==
    ASSUME IInv, FolderInv, MissingInv, Next
    PROVE  MissingInv'
<1> USE ListFixed
<1> SUFFICES ASSUME ~Faulty, mpc' = "mkFolder"
             PROVE  \/ Blocked(folderId)'
                    \/ (Child(folderId, NextFolder) \in DOMAIN drive
                            => Blocked(Child(folderId, NextFolder)))'
  BY DEF MissingInv
<1>1. CASE WalkLookup
  <2>1. PICK answer \in CheckIfItemExists(drive, NextFolder, folderId) :
            IF answer # NullItem THEN EnterFolder(answer)
                                 ELSE mpc' = "mkFolder" /\ UNCHANGED <<depth, folderId, cache>>
    BY <1>1 DEF WalkLookup
  <2>2. answer = NullItem /\ UNCHANGED <<depth, folderId, drive, cur, fileList>>
    BY <1>1, <2>1 DEF WalkLookup, EnterFolder
  <2>3. folderId \in DOMAIN drive /\ Child(folderId, NextFolder) # NullItem
    BY <1>1, AtFolderFacts DEF WalkLookup, AtFolder, FolderInv
  <2>4. Blocked(folderId) \/ Child(folderId, NextFolder) \notin DOMAIN drive
    BY <2>2, <2>3 DEF CheckIfItemExists, IsFolder, Blocked
  <2>5. QED
    BY <2>2, <2>4 DEF Blocked, NextFolder, Blob
<1>2. ASSUME NEW i \in Jobs, Work(i)
      PROVE  \/ Blocked(folderId)'
             \/ (Child(folderId, NextFolder) \in DOMAIN drive
                     => Blocked(Child(folderId, NextFolder)))'
  <2>1. i \in Index /\ UNCHANGED <<fileList, mpc, cur, depth, folderId>>
    BY <1>2, WorkShape
  <2>2. Grows(drive, drive')
    BY DriveStep
  <2>3. \A p \in DOMAIN drive' \ DOMAIN drive : drive'[p] # Folder
    <3>1. CASE UploadBlob(i)
      <4>1. fileList[i] \in Blobs
        BY <2>1, <3>1, AtFileFacts DEF UploadBlob
      <4>2. PICK answer \in UploadStream(drive, NameOf[fileList[i]], parentId[i], fileList[i]) :
                drive' = answer.drive
        BY <3>1 DEF UploadBlob
      <4>3. answer \in AddItem(drive, NameOf[fileList[i]], parentId[i], fileList[i], "true", "throws")
        BY DEF UploadStream
      <4>4. drive' \in {drive, Bind(drive, Child(parentId[i], NameOf[fileList[i]]), fileList[i])}
        BY <4>2, <4>3, AddItemGrows
      <4>5. QED
        BY <4>1, <4>4, NamesAssumption DEF Bind
    <3>2. CASE drive' = drive
      BY <3>2
    <3>3. QED
      BY <1>2, <3>1, <3>2 DEF Work, CheckFile, DownloadBlob, BeginAdd, EndAdd, Signal
  <2>4. NextFolder' = NextFolder
    BY <2>1 DEF NextFolder, Blob
  <2>5. \A p : Blocked(p) => Blocked(p)'
    BY <2>2 DEF Blocked, Grows
  <2>6. QED
    BY <2>1, <2>3, <2>4, <2>5 DEF MissingInv, Blocked
<1>3. QED
  BY <1>1, <1>2
     DEF Next, Main, CheckContainer, CreateContainer, EnterContainer, SkipEmptyLine, QueueRootBlob,
         QueueFromFullPath, Queue, AtBlob, StartWalk, WalkCached, AtFolder, WalkCreate, EnterFolder,
         WalkEnds, ContinueAfterFailure, ListExhausted, WaitReturns, Finished, vars

LEMMA ExplainedStep ==
    ASSUME IInv, FolderInv, MissingInv, FailuresExplained, Next
    PROVE  FailuresExplained'
<1> USE ListFixed
<1> SUFFICES ASSUME ~Faulty, NEW i \in Index, outcome'[i] = "failed"
             PROVE  Explained(fileList[i])'
  BY DEF FailuresExplained, Explained
<1>1. TypeOK /\ CursorInv /\ WalkInv /\ Grows(drive, drive')
  BY DriveStep DEF IInv
<1>2. CASE Explained(fileList[i])
  BY <1>1, <1>2, ExplainedStays
<1>3. CASE outcome[i] = "failed"
  <2>1. Explained(fileList[i])
    BY <1>3 DEF FailuresExplained, Explained
  <2>2. QED
    BY <1>2, <2>1
<1>4. CASE WalkCreate /\ outcome[i] # "failed"
  <2>1. PICK answer \in CreateFolder(drive, NextFolder, folderId) :
            IF answer.item # NullItem THEN UNCHANGED outcome
                                      ELSE outcome' = [outcome EXCEPT ![cur] = "failed"]
    BY <1>4 DEF WalkCreate
  <2>2. answer.item = NullItem /\ i = cur
    BY <1>1, <1>4, <2>1 DEF TypeOK
  <2>3. mpc = "mkFolder" /\ depth < Len(DirOf[Blob]) /\ folderId \in DOMAIN drive
    BY <1>1, <1>4 DEF WalkCreate, WalkInv, FolderInv, Blob
  <2>4. /\ Blob \in Blobs /\ folderId = FoldPath(FolderKey(Blob, depth))
        /\ Child(folderId, NextFolder) = FoldPath(FolderKey(Blob, depth + 1))
        /\ Child(folderId, NextFolder) # NullItem
    BY <2>3, AtFolderFacts DEF NextKey
  <2>5. Blocked(folderId) \/ Child(folderId, NextFolder) \in DOMAIN drive
    BY <2>2, <2>3, <2>4, RefusedBecause DEF CreateFolder
  <2>6. Blocked(folderId) \/ Blocked(Child(folderId, NextFolder))
    BY <2>3, <2>5 DEF MissingInv
  <2>7. depth \in 0..Len(DirOf[Blob]) /\ depth + 1 \in 0..Len(DirOf[Blob])
    BY <1>1, <2>3, <2>4, NamesAssumption DEF TypeOK
  <2>8. Explained(Blob)
    BY <2>4, <2>6, <2>7, BlockedExplains
  <2>9. QED
    BY <1>2, <2>2, <2>8 DEF Blob
<1>5. ASSUME NEW j \in Jobs, Work(j), outcome[i] # "failed"
      PROVE  Explained(fileList[i])'
  <2>1. UploadBlob(i)
    BY <1>1, <1>5
       DEF Work, CheckFile, DownloadBlob, UploadBlob, Decide, BeginAdd, EndAdd, Signal, jobVars, TypeOK
  <2>2. /\ fileList[i] \in Blobs /\ parentId[i] = HomeOf(fileList[i])
        /\ Child(parentId[i], NameOf[fileList[i]]) = PlaceOf(fileList[i])
    BY <2>1, AtFileFacts DEF UploadBlob
  <2>3. parentId[i] \in DOMAIN drive
    BY <2>1 DEF UploadBlob, FolderInv
  <2>4. PICK answer \in UploadStream(drive, NameOf[fileList[i]], parentId[i], fileList[i]) :
            outcome' = [outcome EXCEPT ![i] = IF answer.item = "throws" THEN "failed" ELSE "succeeded"]
    BY <2>1 DEF UploadBlob, Decide
  <2>5. answer.item = "throws"
    BY <1>1, <2>4 DEF TypeOK
  <2>6. answer \in AddItem(drive, NameOf[fileList[i]], parentId[i], fileList[i], "true", "throws")
    BY DEF UploadStream
  <2>7. Blocked(parentId[i]) \/ PlaceOf(fileList[i]) \in DOMAIN drive
    BY <2>2, <2>3, <2>5, <2>6, RefusedBecause
  <2>8. Len(DirOf[fileList[i]]) \in 0..Len(DirOf[fileList[i]])
    BY <2>2, NamesAssumption
  <2>9. Explained(fileList[i])
    BY <2>2, <2>7, <2>8, BlockedExplains, TakenExplains DEF HomeOf
  <2>10. QED
    BY <1>2, <2>9
<1>6. CASE outcome' = outcome
  BY <1>3, <1>6
<1>7. QED
  BY <1>3, <1>4, <1>5, <1>6
     DEF Next, Main, CheckContainer, CreateContainer, SkipEmptyLine, QueueRootBlob,
         QueueFromFullPath, StartWalk, WalkCached, WalkLookup, WalkEnds, ContinueAfterFailure,
         ListExhausted, WaitReturns, Finished, vars, jobVars

(* Without faults a blob fails only because its place is taken, or because *)
(* something that is no folder is where one of its folders should be       *)
(* (FileMigrator.cs:70-128, 226-263): the cache and the other threads are  *)
(* never the cause.                                                        *)
THEOREM FailuresHaveReasons == Spec => []FailuresExplained
<1>1. Init => WhyInv
  BY ListsAssumption
     DEF Init, WhyInv, FolderInv, MissingInv, FailuresExplained, Index
<1>2. IInv /\ WhyInv /\ [Next]_vars => WhyInv'
  <2>1. ASSUME IInv, WhyInv, Next PROVE WhyInv'
    BY <2>1, FolderInvStep, MissingInvStep, ExplainedStep DEF WhyInv
  <2>2. ASSUME WhyInv, UNCHANGED vars PROVE WhyInv'
    BY <2>2 DEF WhyInv, FolderInv, MissingInv, FailuresExplained, Blocked, NextFolder, Blob, Index,
                vars, mainVars, jobVars
  <2>3. QED
    BY <2>1, <2>2
<1>3. WhyInv => FailuresExplained
  BY DEF WhyInv
<1>4. QED
  BY <1>1, <1>2, <1>3, Invariance, PTL DEF Spec
-----------------------------------------------------------------------------
(* FileMigrator implements MigrationLedger: an entry is settled by the     *)
(* step that signals it, the ledger is closed when the wait returns, and   *)
(* given up when the top folder can be neither found nor made.             *)

(* The ledger's entries. *)
Entries == [i \in Index |-> Settled(i)]

(* The step that makes entry i done settles it, with its outcome. *)
LEMMA DoneSettles ==
    ASSUME IInv, NEW i \in Index, jpc[i] # "done", fileList' = fileList,
           mpc \notin {"returned", "threw"}, mpc' = mpc, outcome' = outcome,
           jpc' = [jpc EXCEPT ![i] = "done"],
           outcome[i] = "none" <=> fileList[i] = EmptyLine
    PROVE  Ledger!Settle(i)
<1> DEFINE o == IF outcome[i] = "none" THEN "skipped" ELSE outcome[i]
<1>1. TypeOK /\ Index' = Index
  BY DEF IInv, Index
<1>2. Phase = "running" /\ Phase' = "running"
  BY DEF Phase
<1>3. Entries[i] = "open"
  BY DEF Entries, Settled
<1>4. Entries' = [Entries EXCEPT ![i] = o]
  <2>1. jpc'[i] = "done" /\ \A j \in Index \ {i} : jpc'[j] = jpc[j]
    BY <1>1 DEF TypeOK
  <2>2. \A j \in Index : Settled(j)' = IF j = i THEN o ELSE Settled(j)
    BY <1>1, <2>1 DEF Settled, TypeOK
  <2>3. QED
    BY <1>1, <2>2 DEF Entries
<1>5. o \in IF fileList[i] = EmptyLine THEN {"skipped"} ELSE Lists
  BY <1>1 DEF TypeOK
<1>6. QED
  BY <1>2, <1>3, <1>4, <1>5 DEF Ledger!Settle, Entries

(* A step that makes no entry done, and does not end the call, stutters.   *)
LEMMA NotDoneStutters ==
    ASSUME IInv, fileList' = fileList, Phase' = Phase,
           \A j \in Index : \/ jpc[j] # "done" /\ jpc'[j] # "done"
                            \/ jpc[j] = jpc'[j] /\ outcome[j] = outcome'[j]
    PROVE  UNCHANGED Ledger!ledger
<1>1. Index' = Index
  BY DEF Index
<1>2. \A j \in Index : Settled(j)' = Settled(j)
  BY <1>1 DEF Settled
<1>3. Entries' = Entries
  BY <1>1, <1>2 DEF Entries
<1>4. QED
  BY <1>3 DEF Ledger!ledger, Entries

(* Every step of the migrator is a step of the ledger, or a stutter. *)
LEMMA StepSettles ==
    ASSUME IInv, Next
    PROVE  [Ledger!Next]_(Ledger!ledger)
<1> USE ListFixed
<1>1. TypeOK /\ CursorInv /\ OutcomeInv /\ ReturnsLast
  BY DEF IInv
<1>2. CASE SkipEmptyLine
  <2>1. cur \in Index /\ jpc[cur] = "unseen" /\ fileList[cur] = EmptyLine
    BY <1>2, AtBlobFacts DEF SkipEmptyLine, Blob
  <2>2. outcome[cur] = "none" /\ outcome' = outcome
    BY <1>1, <1>2, <2>1 DEF OutcomeInv, SkipEmptyLine, jobVars
  <2>3. Ledger!Settle(cur)
    BY <1>2, <2>1, <2>2, DoneSettles DEF SkipEmptyLine, AtBlob
  <2>4. QED
    BY <2>1, <2>3 DEF Ledger!Next, Index
<1>3. CASE WaitReturns
  <2>1. \A i \in Index : jpc[i] = "done"
    BY <1>3, CountZero DEF WaitReturns
  <2>2. \A i \in Index : Entries[i] # "open"
    BY <1>1, <2>1 DEF Entries, Settled, TypeOK, Lists
  <2>3. Phase = "running" /\ Phase' = "closed"
    BY <1>3 DEF WaitReturns, Phase
  <2>4. Entries' = Entries
    BY <1>3 DEF WaitReturns, Entries, Settled, jobVars
  <2>5. Ledger!Close
    BY <2>2, <2>3, <2>4 DEF Ledger!Close, Entries, Index
  <2>6. QED
    BY <2>5 DEF Ledger!Next
<1>4. CASE CheckContainer \/ CreateContainer
  <2>1. \A i \in Index : jpc[i] = "unseen"
    BY <1>1, <1>4, ListType DEF CursorInv, CheckContainer, CreateContainer, Index
  <2>2. jpc' = jpc /\ outcome' = outcome
    BY <1>4 DEF CheckContainer, CreateContainer, jobVars
  <2>3. CASE mpc' = "threw"
    <3>1. Phase = "running" /\ Phase' = "given up"
      BY <1>4, <2>3 DEF CheckContainer, CreateContainer, Phase
    <3>2. \A i \in Index : Entries[i] = "open"
      BY <2>1 DEF Entries, Settled
    <3>3. Entries' = Entries
      BY <2>2 DEF Entries, Settled
    <3>4. Ledger!GiveUp
      BY <3>1, <3>2, <3>3 DEF Ledger!GiveUp, Entries, Index
    <3>5. QED
      BY <3>4 DEF Ledger!Next
  <2>4. CASE mpc' # "threw"
    <3>1. Phase' = Phase
      BY <1>4, <2>4 DEF CheckContainer, CreateContainer, EnterContainer, Phase
    <3>2. QED
      BY <2>1, <2>2, <3>1, NotDoneStutters
  <2>5. QED
    BY <2>3, <2>4
<1>5. CASE QueueRootBlob \/ QueueFromFullPath \/ WalkEnds
  <2>1. cur \in Index /\ jpc[cur] = "unseen"
    BY <1>1, <1>5, AtBlobFacts DEF QueueRootBlob, QueueFromFullPath, WalkEnds, CursorInv
  <2>2. outcome' = outcome /\ jpc' = [jpc EXCEPT ![cur] = "queued"] /\ Phase' = Phase
    BY <1>5 DEF QueueRootBlob, QueueFromFullPath, WalkEnds, Queue, AtBlob, Phase
  <2>3. \A j \in Index : \/ jpc[j] # "done" /\ jpc'[j] # "done"
                         \/ jpc[j] = jpc'[j] /\ outcome[j] = outcome'[j]
    BY <1>1, <2>1, <2>2 DEF TypeOK
  <2>4. QED
    BY <2>2, <2>3, NotDoneStutters
<1>6. CASE WalkCreate
  <2>1. cur \in Index /\ jpc[cur] = "unseen" /\ Phase' = Phase
    BY <1>1, <1>6 DEF WalkCreate, EnterFolder, CursorInv, Phase
  <2>2. \/ UNCHANGED <<jpc, outcome>>
        \/ /\ jpc' = [jpc EXCEPT ![cur] = "report"]
           /\ outcome' = [outcome EXCEPT ![cur] = "failed"]
    BY <1>6 DEF WalkCreate
  <2>3. \A j \in Index : \/ jpc[j] # "done" /\ jpc'[j] # "done"
                         \/ jpc[j] = jpc'[j] /\ outcome[j] = outcome'[j]
    BY <1>1, <2>1, <2>2 DEF TypeOK
  <2>4. QED
    BY <2>1, <2>3, NotDoneStutters
<1>7. CASE StartWalk \/ WalkCached \/ WalkLookup \/ ContinueAfterFailure \/ ListExhausted
  <2>1. UNCHANGED <<jpc, outcome, Phase>>
    BY <1>7 DEF StartWalk, WalkCached, WalkLookup, ContinueAfterFailure, ListExhausted,
                AtBlob, AtFolder, EnterFolder, Phase, jobVars
  <2>2. QED
    BY <2>1, NotDoneStutters
<1>8. CASE Finished
  BY <1>8, NotDoneStutters DEF Finished, vars, jobVars, Phase
<1>9. ASSUME NEW i \in Index, Signal(i) PROVE [Ledger!Next]_(Ledger!ledger)
  <2>1. jpc[i] = "signal" /\ outcome' = outcome /\ mpc' = mpc
    BY <1>9 DEF Signal, jobVars
  <2>2. mpc \notin {"returned", "threw"}
    <3>1. mpc # "returned"
      BY <1>1, <2>1 DEF ReturnsLast
    <3>2. mpc # "threw"
      BY <1>1, <2>1, ListType DEF CursorInv, Index
    <3>3. QED
      BY <3>1, <3>2
  <2>3. outcome[i] # "none" /\ fileList[i] # EmptyLine
    BY <1>1, <2>1, ListsAssumption DEF OutcomeInv
  <2>4. Ledger!Settle(i)
    BY <1>9, <2>1, <2>2, <2>3, DoneSettles DEF Signal
  <2>5. QED
    BY <2>4 DEF Ledger!Next, Index
<1>10. ASSUME NEW i \in Jobs, Work(i), ~Signal(i) PROVE [Ledger!Next]_(Ledger!ledger)
  <2>1. i \in Index /\ mpc' = mpc /\ Phase' = Phase
    BY <1>10, WorkShape DEF Phase
  <2>2. \E s : jpc' = [jpc EXCEPT ![i] = s] /\ jpc[i] # "done" /\ s # "done"
    BY <1>10 DEF Work, CheckFile, DownloadBlob, UploadBlob, BeginAdd, EndAdd, Decide
  <2>3. \A j \in Index \ {i} : outcome'[j] = outcome[j]
    BY <1>1, <1>10 DEF Work, CheckFile, DownloadBlob, UploadBlob, BeginAdd, EndAdd, Decide,
                       jobVars, TypeOK
  <2>4. \A j \in Index : \/ jpc[j] # "done" /\ jpc'[j] # "done"
                         \/ jpc[j] = jpc'[j] /\ outcome[j] = outcome'[j]
    BY <1>1, <2>1, <2>2, <2>3 DEF TypeOK
  <2>5. QED
    BY <2>1, <2>4, NotDoneStutters
<1>11. QED
  BY <1>2, <1>3, <1>4, <1>5, <1>6, <1>7, <1>8, <1>9, <1>10, WorkShape DEF Next, Main, Work

(* MigrateFiles implements the ledger: each name is settled once and for   *)
(* all, and the call returns after the last, for every list of names,      *)
(* every drive and every interleaving of the threads.                      *)
THEOREM LedgerImplemented == Spec => SettlesEachOnce
<1>1. Init => Ledger!Init
  BY DEF Init, Ledger!Init, Settled, Phase, Index
<1>2. IInv /\ [Next]_vars => [Ledger!Next]_(Ledger!ledger)
  <2>1. ASSUME IInv, UNCHANGED vars PROVE UNCHANGED Ledger!ledger
    BY <2>1, NotDoneStutters DEF vars, jobVars, Phase
  <2>2. QED
    BY <2>1, StepSettles
<1>3. QED
  BY <1>1, <1>2, Invariance, PTL DEF Spec, SettlesEachOnce, Ledger!Spec
=============================================================================
