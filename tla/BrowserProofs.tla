---------------------------- MODULE BrowserProofs ---------------------------
(***************************************************************************)
(* Proofs about the container page of the React client with its toolbar    *)
(* (ContainerBrowser and ContainerActionBar), for any drive, any number of *)
(* uploads and listings, and all parts of the page used at once.           *)
(***************************************************************************)
EXTENDS ContainerActionBar, PathLemmas

LoadRecord == [folder : Places, seen : SUBSET Items, late : BOOLEAN]

ListTypeOK ==
    /\ driveItems \subseteq Items
    /\ loads \in Seq(LoadRecord)
    /\ sockets \subseteq Places /\ causes \subseteq Causes

(* A request is about an item, and belongs to a dialog. *)
DialogInv == request # "no" => dialog \in Dialogs /\ target \in Items

BarTypeOK == TypeOK /\ DialogInv

-----------------------------------------------------------------------------
(* Lemmas about the helpers. *)

LEMMA EventType ==
    ASSUME BrowserTypeOK, Event
    PROVE  events' \in 0..MaxEvents
BY BrowserAssumption DEF BrowserTypeOK, Event

LEMMA FailsType ==
    ASSUME BrowserTypeOK, NEW must, Fails(must)
    PROVE  events' \in 0..MaxEvents
BY EventType DEF BrowserTypeOK, Fails

LEMMA ListParts == BrowserTypeOK => ListTypeOK
BY DEF BrowserTypeOK, ListTypeOK, LoadRecord

LEMMA ListItemsType ==
    ASSUME BrowserTypeOK, NEW f \in Places, ListItems(f)
    PROVE  /\ loads' \in Seq(LoadRecord) /\ loads' # <<>>
           /\ Len(loads') = Len(loads) + 1
           /\ loads'[Len(loads')] = [folder |-> f, seen |-> Contents(f), late |-> FALSE]
           /\ \A i \in 1..Len(loads) : loads'[i] = loads[i]
<1> DEFINE l == [folder |-> f, seen |-> Contents(f), late |-> FALSE]
<1>1. loads \in Seq(LoadRecord) /\ l \in LoadRecord
  BY DEF BrowserTypeOK, LoadRecord, Contents
<1>2. loads' = Append(loads, l)
  BY DEF ListItems
<1> HIDE DEF l
<1>3. /\ loads' \in Seq(LoadRecord) /\ loads' # <<>> /\ Len(loads') = Len(loads) + 1
      /\ loads'[Len(loads')] = l /\ \A i \in 1..Len(loads) : loads'[i] = loads[i]
  BY <1>1, <1>2
<1>4. QED
  BY <1>3 DEF l

LEMMA EffectType ==
    ASSUME BrowserTypeOK, NEW p \in Places, RunEffect(p)
    PROVE  ListTypeOK'
<1>1. ListItems(p) /\ sockets' = sockets \cup {p} /\ causes' = {} /\ driveItems' = driveItems
  BY DEF RunEffect
<1>2. loads' \in Seq(LoadRecord)
  BY <1>1, ListItemsType
<1>3. QED
  BY <1>1, <1>2 DEF BrowserTypeOK, ListTypeOK

(* Where a path ends. *)
End(path) == IF path = <<>> THEN Root ELSE Last(path)

LEMMA LocationType ==
    ASSUME BrowserTypeOK, PathEndsAtFolder, NEW path \in Seq(Folders), SetLocation(path)
    PROVE  /\ parentId' \in Places /\ folderPath' \in Seq(Folders)
           /\ selectedItem' \in Items \cup {None}
           /\ ListTypeOK' /\ PathEndsAtFolder'
           /\ \/ parentId' # parentId /\ RunEffect(parentId')
              \/ UNCHANGED <<parentId, listVars>>
<1>1. End(path) \in Places
  BY DEF End, Places, Last
<1>2. CASE /\ End(path) # parentId /\ folderPath' = path /\ parentId' = End(path)
           /\ selectedItem' = None /\ RunEffect(End(path))
  <2>1. ListTypeOK'
    BY <1>1, <1>2, EffectType
  <2>2. QED
    BY <1>1, <1>2, <2>1 DEF End, PathEndsAtFolder
<1>3. CASE End(path) = parentId /\ UNCHANGED <<placeVars, listVars>>
  <2>1. ListTypeOK'
    BY <1>3, ListParts DEF listVars, ListTypeOK
  <2>2. QED
    BY <1>3, <2>1 DEF placeVars, BrowserTypeOK, PathEndsAtFolder
<1>4. QED
  BY <1>2, <1>3 DEF SetLocation, End

(* The path that a click on a crumb leaves. *)
LEMMA CutPath ==
    ASSUME NEW path \in Seq(Folders), NEW f \in ToSet(path)
    PROVE  CutTo(path, f) \in Seq(Folders)
<1> DEFINE k == SelectLastInSeq(path, LAMBDA g : g = f)
<1>1. k = LastOf(path, f)
  BY DEF SelectLastInSeq, LastOf
<1> HIDE DEF k
<1>2. k \in 0..Len(path)
  BY <1>1, LastPlace
<1>3. SubSeq(path, 1, k) \in Seq(Folders)
  BY <1>2
<1>4. QED
  BY <1>3 DEF CutTo, k

(* The listings that an answer leaves, and those that a failure leaves.    *)
Marked(k) == [j \in DOMAIN loads |->
                 IF j < k THEN [loads[j] EXCEPT !.late = TRUE] ELSE loads[j]]

LEMMA MarkedType ==
    ASSUME BrowserTypeOK, NEW k \in DOMAIN loads
    PROVE  /\ Marked(k) \in Seq(LoadRecord) /\ Len(Marked(k)) = Len(loads)
           /\ k \in 1..Len(loads) /\ loads \in Seq(LoadRecord)
           /\ \A j \in 1..Len(loads) :
                  Marked(k)[j] = IF j < k THEN [loads[j] EXCEPT !.late = TRUE] ELSE loads[j]
<1>1. loads \in Seq(LoadRecord)
  BY DEF BrowserTypeOK, LoadRecord
<1>2. \A j \in DOMAIN loads : loads[j] \in LoadRecord
  BY <1>1
<1>3. \A l \in LoadRecord : [l EXCEPT !.late = TRUE] \in LoadRecord
  BY DEF LoadRecord
<1>4. /\ DOMAIN loads = 1..Len(loads) /\ DOMAIN Marked(k) = 1..Len(loads)
      /\ \A j \in 1..Len(loads) :
             Marked(k)[j] = IF j < k THEN [loads[j] EXCEPT !.late = TRUE] ELSE loads[j]
  <2>1. DOMAIN loads = 1..Len(loads)
    BY <1>1
  <2>2. QED
    BY <2>1, Zenon DEF Marked
<1>5. \A j \in 1..Len(loads) : Marked(k)[j] \in LoadRecord
  BY <1>1, <1>2, <1>3, <1>4
<1>6. Marked(k) \in Seq(LoadRecord) /\ Len(Marked(k)) = Len(loads)
  <2>1. Marked(k) = [j \in 1..Len(loads) |-> Marked(k)[j]]
    BY <1>1, <1>4 DEF Marked
  <2>2. Marked(k) \in [1..Len(loads) -> LoadRecord] /\ Len(loads) \in Nat
    BY <1>1, <1>5, <2>1
  <2>3. QED
    BY <2>2
<1>7. QED
  BY <1>1, <1>4, <1>6

LEMMA EndListType ==
    ASSUME BrowserTypeOK, NEW k \in DOMAIN loads, AnswerList(k) \/ ListFails(k)
    PROVE  ListTypeOK' /\ events' \in 0..MaxEvents
<1>1. /\ Marked(k) \in Seq(LoadRecord) /\ k \in 1..Len(Marked(k))
      /\ loads \in Seq(LoadRecord) /\ k \in 1..Len(loads)
  BY MarkedType
<1>2. RemoveAt(Marked(k), k) \in Seq(LoadRecord) /\ RemoveAt(loads, k) \in Seq(LoadRecord)
  BY <1>1, RemovedPlace
<1>3. CASE AnswerList(k)
  <2>1. loads[k] \in LoadRecord
    BY <1>1
  <2>2. driveItems' \subseteq Items
    BY <1>3, <2>1 DEF AnswerList, LoadRecord, Contents
  <2>3. loads' = RemoveAt(Marked(k), k)
    BY <1>3 DEF AnswerList, Marked
  <2>4. causes' \subseteq Causes /\ sockets' = sockets /\ events' = events
    BY <1>3 DEF AnswerList, BrowserTypeOK, Causes
  <2>5. QED
    BY <1>2, <2>2, <2>3, <2>4 DEF ListTypeOK, BrowserTypeOK
<1>4. CASE ListFails(k)
  <2>1. loads' = RemoveAt(loads, k) /\ UNCHANGED <<sockets, driveItems>>
    BY <1>4 DEF ListFails
  <2>2. causes' \subseteq Causes
    BY <1>4 DEF ListFails, BrowserTypeOK, Causes
  <2>3. events' \in 0..MaxEvents
    BY <1>4, FailsType DEF ListFails
  <2>4. QED
    BY <1>2, <2>1, <2>2, <2>3 DEF ListTypeOK, BrowserTypeOK
<1>5. QED
  BY <1>3, <1>4

-----------------------------------------------------------------------------
(* Types, one lemma for each group of actions. *)

ToolbarVars == <<uploadVars, dialogVars, switchVars>>

LEMMA MovePath ==
    ASSUME BarTypeOK,
           ContainerCrumb \/ \E f \in Folders : OnFolderClicked(f) \/ OnBreadcrumbClick(f)
    PROVE  \E path \in Seq(Folders) :
               Event /\ SetLocation(path) /\ UNCHANGED <<where, previewVars, alive>>
<1>1. CASE ContainerCrumb
  <2>1. <<>> \in Seq(Folders)
    OBVIOUS
  <2>2. QED
    BY <1>1, <2>1 DEF ContainerCrumb, PageClick, Click
<1>2. ASSUME NEW f \in Folders, OnFolderClicked(f)
      PROVE  \E path \in Seq(Folders) :
                 Event /\ SetLocation(path) /\ UNCHANGED <<where, previewVars, alive>>
  <2>1. Append(folderPath, f) \in Seq(Folders)
    BY DEF BarTypeOK, TypeOK, BrowserTypeOK
  <2>2. QED
    BY <1>2, <2>1 DEF OnFolderClicked, PageClick, Click
<1>3. ASSUME NEW f \in Folders, OnBreadcrumbClick(f)
      PROVE  \E path \in Seq(Folders) :
                 Event /\ SetLocation(path) /\ UNCHANGED <<where, previewVars, alive>>
  <2>1. f \in ToSet(folderPath) /\ folderPath \in Seq(Folders)
    BY <1>3 DEF OnBreadcrumbClick, BarTypeOK, TypeOK, BrowserTypeOK
  <2>2. CutTo(folderPath, f) \in Seq(Folders)
    BY <2>1, CutPath
  <2>3. QED
    BY <1>3, <2>2 DEF OnBreadcrumbClick, PageClick, Click
<1>4. QED
  BY <1>1, <1>2, <1>3

LEMMA MoveTypes ==
    ASSUME BarTypeOK, PathEndsAtFolder, UNCHANGED ToolbarVars,
           ContainerCrumb \/ \E f \in Folders : OnFolderClicked(f) \/ OnBreadcrumbClick(f)
    PROVE  BarTypeOK' /\ PathEndsAtFolder'
<1>1. PICK path \in Seq(Folders) :
          Event /\ SetLocation(path) /\ UNCHANGED <<where, previewVars, alive>>
  BY MovePath
<1>2. BrowserTypeOK
  BY DEF BarTypeOK, TypeOK
<1>3. /\ parentId' \in Places /\ folderPath' \in Seq(Folders)
      /\ selectedItem' \in Items \cup {None} /\ ListTypeOK' /\ PathEndsAtFolder'
      /\ events' \in 0..MaxEvents
  BY <1>1, <1>2, LocationType, EventType
<1>4. BrowserTypeOK'
  BY <1>1, <1>2, <1>3 DEF BrowserTypeOK, ListTypeOK, LoadRecord, previewVars
<1>5. QED
  BY <1>3, <1>4
  DEF BarTypeOK, TypeOK, DialogInv, ToolbarVars, uploadVars, dialogVars, switchVars

LEMMA PageTypes ==
    ASSUME BarTypeOK, UNCHANGED ToolbarVars,
           \/ \E i \in Items : OnSelectionChange(i) \/ OtherUser(i)
           \/ \E f \in Files : OnFilePreviewSelected(f) \/ AnswerPreview(f) \/ PreviewFails(f)
           \/ ClosePreview
           \/ \E f \in Places : Notified(f)
           \/ AnswerLists
    PROVE  BarTypeOK' /\ UNCHANGED <<parentId, folderPath>>
<1> USE DEF listVars, placeVars, previewVars
<1>1. BrowserTypeOK
  BY DEF BarTypeOK, TypeOK
<1>2. ASSUME NEW i \in Items, OnSelectionChange(i)
      PROVE  BrowserTypeOK' /\ UNCHANGED <<parentId, folderPath>>
  BY <1>1, <1>2, EventType DEF OnSelectionChange, PageClick, Click, BrowserTypeOK
<1>3. ASSUME NEW i \in Items, OtherUser(i)
      PROVE  BrowserTypeOK' /\ UNCHANGED <<parentId, folderPath>>
  <2>1. PICK p \in {Gone} \cup Places : Place(i, p)
    BY <1>3 DEF OtherUser
  <2>2. where' \in [Items -> Places \cup {Unborn, Gone}]
    BY <1>1, <2>1 DEF Place, BrowserTypeOK
  <2>3. events' \in 0..MaxEvents
    BY <1>1, <1>3, EventType DEF OtherUser, Click
  <2>4. QED
    BY <1>1, <1>3, <2>2, <2>3 DEF OtherUser, BrowserTypeOK, Causes
<1>4. ASSUME NEW f \in Files, OnFilePreviewSelected(f)
      PROVE  BrowserTypeOK' /\ UNCHANGED <<parentId, folderPath>>
  BY <1>1, <1>4, EventType DEF OnFilePreviewSelected, PageClick, Click, BrowserTypeOK
<1>5. ASSUME NEW f \in Files, AnswerPreview(f)
      PROVE  BrowserTypeOK' /\ UNCHANGED <<parentId, folderPath>>
  BY <1>1, <1>5 DEF AnswerPreview, BrowserTypeOK
<1>6. ASSUME NEW f \in Files, PreviewFails(f)
      PROVE  BrowserTypeOK' /\ UNCHANGED <<parentId, folderPath>>
  BY <1>1, <1>6, FailsType DEF PreviewFails, BrowserTypeOK
<1>7. CASE ClosePreview
  <2>1. BrowserTypeOK' /\ UNCHANGED <<parentId, folderPath>>
    BY <1>1, <1>7 DEF ClosePreview, BrowserTypeOK
  <2>2. QED
    BY <2>1 DEF BarTypeOK, TypeOK, DialogInv, ToolbarVars, uploadVars, dialogVars, switchVars
<1>8. ASSUME NEW f \in Places, Notified(f)
      PROVE  BrowserTypeOK' /\ UNCHANGED <<parentId, folderPath>>
  <2>1. loads' \in Seq(LoadRecord)
    BY <1>1, <1>8, ListItemsType DEF Notified
  <2>2. QED
    BY <1>1, <1>8, <2>1 DEF Notified, BrowserTypeOK, LoadRecord, Causes
<1>9. ASSUME NEW k \in DOMAIN loads, AnswerList(k) \/ ListFails(k)
      PROVE  BrowserTypeOK' /\ UNCHANGED <<parentId, folderPath>>
  <2>1. ListTypeOK' /\ events' \in 0..MaxEvents
    BY <1>1, <1>9, EndListType
  <2>2. UNCHANGED <<where, placeVars, previewVars, alive>>
    BY <1>9 DEF AnswerList, ListFails
  <2>3. QED
    BY <1>1, <2>1, <2>2 DEF BrowserTypeOK, ListTypeOK, LoadRecord
<1>10. BrowserTypeOK' /\ UNCHANGED <<parentId, folderPath>>
       => BarTypeOK' /\ UNCHANGED <<parentId, folderPath>>
  BY DEF BarTypeOK, TypeOK, DialogInv, ToolbarVars, uploadVars, dialogVars, switchVars
<1>11. QED
  BY <1>2, <1>3, <1>4, <1>5, <1>6, <1>7, <1>8, <1>9, <1>10 DEF AnswerLists

(* The variables of the page that a step of the toolbar may change. *)
LEMMA BarFrame ==
    ASSUME BrowserTypeOK, UNCHANGED <<placeVars, previewVars>>,
           where' \in [Items -> Places \cup {Unborn, Gone}], ListTypeOK',
           alive' \in BOOLEAN, events' \in 0..MaxEvents
    PROVE  BrowserTypeOK' /\ UNCHANGED <<parentId, folderPath>>
BY DEF BrowserTypeOK, ListTypeOK, LoadRecord, placeVars, previewVars

LEMMA RefreshType ==
    ASSUME BrowserTypeOK, Refresh \/ UNCHANGED listVars
    PROVE  ListTypeOK'
<1>1. CASE Refresh
  BY <1>1, EffectType DEF Refresh, BrowserTypeOK
<1>2. CASE UNCHANGED listVars
  BY <1>2, ListParts DEF listVars, ListTypeOK
<1>3. QED
  BY <1>1, <1>2

LEMMA SelectionTypes ==
    ASSUME BarTypeOK,
           \/ \E b \in Batches, fs \in SUBSET (New \cup Again) : OnUploadFileSelected(b, fs)
           \/ \E f \in New : OnNewDocument(f)
    PROVE  BarTypeOK' /\ UNCHANGED <<parentId, folderPath>>
<1>1. BrowserTypeOK /\ ListTypeOK
  BY ListParts DEF BarTypeOK, TypeOK
<1>2. ASSUME Event, UNCHANGED <<where, listVars, placeVars, previewVars, alive>>
      PROVE  BrowserTypeOK' /\ UNCHANGED <<parentId, folderPath>>
  <2>1. events' \in 0..MaxEvents /\ ListTypeOK'
    BY <1>1, <1>2, EventType, RefreshType
  <2>2. QED
    BY <1>1, <1>2, <2>1, BarFrame DEF BrowserTypeOK
<1>3. ASSUME NEW fs \in SUBSET Files, NEW b \in Batches \cup {0}, Send(fs, b)
      PROVE  /\ state' \in [Files -> {"none", "sent", "stored", "done", "failed"}]
             /\ batch' \in [Files -> Batches \cup {0}] /\ dest' \in [Files -> Places]
  BY <1>1, <1>3 DEF Send, BarTypeOK, TypeOK, BrowserTypeOK
<1>4. ASSUME NEW b \in Batches, NEW fs \in SUBSET (New \cup Again), OnUploadFileSelected(b, fs)
      PROVE  BarTypeOK' /\ UNCHANGED <<parentId, folderPath>>
  <2>1. fs \in SUBSET Files
    BY DEF New, Again
  <2>2. /\ BrowserTypeOK' /\ UNCHANGED <<parentId, folderPath>>
        /\ state' \in [Files -> {"none", "sent", "stored", "done", "failed"}]
        /\ batch' \in [Files -> Batches \cup {0}] /\ dest' \in [Files -> Places]
    BY <1>2, <1>3, <1>4, <2>1 DEF OnUploadFileSelected, BarClick, PageClick, Click
  <2>3. /\ captured' \in [Batches -> SUBSET Files] /\ uploads' \subseteq Files
        /\ mixed' \in BOOLEAN /\ UNCHANGED <<dialogVars, switchVars>>
    BY <1>4, <2>1 DEF OnUploadFileSelected, BarTypeOK, TypeOK
  <2>4. QED
    BY <2>2, <2>3 DEF BarTypeOK, TypeOK, DialogInv, dialogVars, switchVars
<1>5. ASSUME NEW f \in New, OnNewDocument(f)
      PROVE  BarTypeOK' /\ UNCHANGED <<parentId, folderPath>>
  <2>1. {f} \in SUBSET Files
    BY DEF New
  <2>2. /\ BrowserTypeOK' /\ UNCHANGED <<parentId, folderPath>>
        /\ state' \in [Files -> {"none", "sent", "stored", "done", "failed"}]
        /\ batch' \in [Files -> Batches \cup {0}] /\ dest' \in [Files -> Places]
    BY <1>2, <1>3, <1>5, <2>1 DEF OnNewDocument, BarClick, PageClick, Click
  <2>3. UNCHANGED <<captured, uploads, mixed, dialogVars, switchVars>>
    BY <1>5 DEF OnNewDocument
  <2>4. QED
    BY <2>2, <2>3 DEF BarTypeOK, TypeOK, DialogInv, dialogVars, switchVars
<1>6. QED
  BY <1>4, <1>5

LEMMA UploadTypes ==
    ASSUME BarTypeOK, NEW f \in Files, UploadStep(f)
    PROVE  BarTypeOK' /\ UNCHANGED <<parentId, folderPath>>
<1>1. BrowserTypeOK /\ ListTypeOK
  BY ListParts DEF BarTypeOK, TypeOK
<1>2. ASSUME Place(f, dest[f])
      PROVE  where' \in [Items -> Places \cup {Unborn, Gone}]
  BY <1>1, <1>2 DEF Place, BarTypeOK, TypeOK, BrowserTypeOK
<1>3. CASE StoreFile(f)
  <2>1. /\ where' \in [Items -> Places \cup {Unborn, Gone}] /\ ListTypeOK'
        /\ UNCHANGED <<placeVars, previewVars, alive, events, batch, dest, captured,
                       uploads, mixed, dialogVars, switchVars>>
    BY <1>1, <1>2, <1>3, RefreshType DEF StoreFile
  <2>2. BrowserTypeOK' /\ UNCHANGED <<parentId, folderPath>>
    BY <1>1, <2>1, BarFrame DEF BrowserTypeOK
  <2>3. state' \in [Files -> {"none", "sent", "stored", "done", "failed"}]
    BY <1>3 DEF StoreFile, BarTypeOK, TypeOK
  <2>4. QED
    BY <2>1, <2>2, <2>3 DEF BarTypeOK, TypeOK, DialogInv, dialogVars, switchVars
<1>4. CASE UploadDone(f) \/ DocumentDone(f)
  <2>1. /\ Refresh \/ UNCHANGED listVars
        /\ UNCHANGED <<where, placeVars, previewVars, alive, events, batch, dest, mixed,
                       dialogVars, switchVars>>
    BY <1>4 DEF UploadDone, DocumentDone
  <2>2. ListTypeOK'
    BY <1>1, <2>1, RefreshType
  <2>3. BrowserTypeOK' /\ UNCHANGED <<parentId, folderPath>>
    BY <1>1, <2>1, <2>2, BarFrame DEF BrowserTypeOK
  <2>4. /\ state' \in [Files -> {"none", "sent", "stored", "done", "failed"}]
        /\ captured' \in [Batches -> SUBSET Files] /\ uploads' \subseteq Files
    <3>1. /\ state \in [Files -> {"none", "sent", "stored", "done", "failed"}]
          /\ batch \in [Files -> Batches \cup {0}]
          /\ captured \in [Batches -> SUBSET Files] /\ uploads \subseteq Files
      BY DEF BarTypeOK, TypeOK
    <3>2. CASE DocumentDone(f)
      BY <3>1, <3>2 DEF DocumentDone
    <3>3. CASE UploadDone(f)
      BY <3>1, <3>3 DEF UploadDone
    <3>4. QED
      BY <1>4, <3>2, <3>3
  <2>5. QED
    BY <2>1, <2>3, <2>4 DEF BarTypeOK, TypeOK, DialogInv, dialogVars, switchVars
<1>5. CASE UploadFails(f)
  <2>1. /\ where' \in [Items -> Places \cup {Unborn, Gone}]
        /\ UNCHANGED <<driveItems, loads, sockets, placeVars, previewVars, alive, batch,
                       dest, captured, uploads, mixed, dialogVars, switchVars>>
    BY <1>1, <1>2, <1>5 DEF UploadFails, BrowserTypeOK
  <2>2. ListTypeOK'
    BY <1>1, <1>5, <2>1 DEF UploadFails, ListTypeOK, Causes
  <2>3. events' \in 0..MaxEvents
    BY <1>1, <1>5, FailsType DEF UploadFails
  <2>4. BrowserTypeOK' /\ UNCHANGED <<parentId, folderPath>>
    BY <1>1, <2>1, <2>2, <2>3, BarFrame DEF BrowserTypeOK
  <2>5. state' \in [Files -> {"none", "sent", "stored", "done", "failed"}]
    BY <1>5 DEF UploadFails, BarTypeOK, TypeOK
  <2>6. QED
    BY <2>1, <2>4, <2>5 DEF BarTypeOK, TypeOK, DialogInv, dialogVars, switchVars
<1>6. QED
  BY <1>3, <1>4, <1>5 DEF UploadStep

LEMMA DialogTypes ==
    ASSUME BarTypeOK,
           \/ \E d \in Dialogs : OpenDialog(d)
           \/ \E i \in Items : Submit(i)
           \/ CancelDialog \/ DialogStep
    PROVE  BarTypeOK' /\ UNCHANGED <<parentId, folderPath>>
<1>1. BrowserTypeOK /\ ListTypeOK
  BY ListParts DEF BarTypeOK, TypeOK
<1>2. ASSUME UNCHANGED browserVars
      PROVE  BrowserTypeOK' /\ UNCHANGED <<parentId, folderPath>>
  BY <1>1, <1>2 DEF browserVars, listVars, placeVars, previewVars, BrowserTypeOK
<1>3. ASSUME NEW d \in Dialogs, OpenDialog(d)
      PROVE  BarTypeOK' /\ UNCHANGED <<parentId, folderPath>>
  <2>1. events' \in 0..MaxEvents /\ ListTypeOK'
    BY <1>1, <1>3, EventType, RefreshType DEF OpenDialog, BarClick, PageClick, Click
  <2>2. BrowserTypeOK' /\ UNCHANGED <<parentId, folderPath>>
    BY <1>1, <1>3, <2>1, BarFrame DEF OpenDialog, BrowserTypeOK
  <2>3. /\ dialog' = d /\ UNCHANGED <<uploadVars, request, target, switchVars>>
    BY <1>3 DEF OpenDialog
  <2>4. QED
    BY <2>2, <2>3 DEF BarTypeOK, TypeOK, DialogInv, uploadVars, switchVars
<1>4. ASSUME NEW i \in Items, Submit(i)
      PROVE  BarTypeOK' /\ UNCHANGED <<parentId, folderPath>>
  BY <1>2, <1>4
  DEF Submit, BarTypeOK, TypeOK, DialogInv, uploadVars, switchVars
<1>5. CASE CancelDialog
  BY <1>2, <1>5
  DEF CancelDialog, BarTypeOK, TypeOK, DialogInv, uploadVars, switchVars
<1>6. CASE Serve
  <2>1. dialog \in Dialogs /\ target \in Items
    BY <1>6 DEF Serve, BarTypeOK, DialogInv, Items
  <2>2. Place(target, parentId) \/ UNCHANGED where \/ Place(target, Gone)
    BY <1>6, <2>1 DEF Serve, Dialogs
  <2>3. where' \in [Items -> Places \cup {Unborn, Gone}]
    BY <1>1, <2>1, <2>2 DEF Place, BrowserTypeOK
  <2>4. ListTypeOK'
    BY <1>1, <1>6, RefreshType DEF Serve
  <2>5. BrowserTypeOK' /\ UNCHANGED <<parentId, folderPath>>
    BY <1>1, <1>6, <2>3, <2>4, BarFrame DEF Serve, BrowserTypeOK
  <2>6. QED
    BY <1>6, <2>5 DEF Serve, BarTypeOK, TypeOK, DialogInv, uploadVars, switchVars
<1>7. CASE RequestDone
  <2>1. ListTypeOK'
    BY <1>1, <1>7, RefreshType DEF RequestDone
  <2>2. BrowserTypeOK' /\ UNCHANGED <<parentId, folderPath>>
    BY <1>1, <1>7, <2>1, BarFrame DEF RequestDone, BrowserTypeOK
  <2>3. QED
    BY <1>7, <2>2 DEF RequestDone, BarTypeOK, TypeOK, DialogInv, uploadVars, switchVars
<1>8. CASE RequestFails
  <2>1. UNCHANGED <<where, placeVars, driveItems, loads, sockets, previewVars, alive,
                   uploadVars, dialog, target, switchVars>>
    BY <1>8 DEF RequestFails
  <2>2. events' \in 0..MaxEvents /\ causes' \subseteq Causes
    BY <1>1, <1>8, EventType, FailsType DEF RequestFails, BrowserTypeOK, Causes
  <2>3. BrowserTypeOK' /\ UNCHANGED <<parentId, folderPath>>
    BY <1>1, <2>1, <2>2, BarFrame DEF ListTypeOK, BrowserTypeOK
  <2>4. request' = "failed" /\ request # "no"
    BY <1>8 DEF RequestFails
  <2>5. QED
    BY <2>1, <2>3, <2>4 DEF BarTypeOK, TypeOK, DialogInv, uploadVars, switchVars
<1>9. QED
  BY <1>3, <1>4, <1>5, <1>6, <1>7, <1>8 DEF DialogStep

CallRecord == [on : BOOLEAN, done : BOOLEAN]

LEMMA SwitchTypes ==
    ASSUME BarTypeOK, Toggle \/ SwitchStep
    PROVE  BarTypeOK' /\ UNCHANGED <<parentId, folderPath>>
<1>1. BrowserTypeOK /\ ListTypeOK /\ calls \in Seq(CallRecord)
  BY ListParts DEF BarTypeOK, TypeOK, CallRecord
<1>2. ASSUME UNCHANGED <<where, placeVars, previewVars, uploadVars, dialogVars>>,
             alive' \in BOOLEAN, events' \in 0..MaxEvents,
             ListTypeOK', calls' \in Seq(CallRecord), processingEnabled' \in BOOLEAN,
             prop' \in BOOLEAN, subscribed' \in BOOLEAN, revalidating' \in BOOLEAN,
             crossed' \in BOOLEAN, behind' \in BOOLEAN, rejected' \in [BOOLEAN -> Nat]
      PROVE  BarTypeOK' /\ UNCHANGED <<parentId, folderPath>>
  <2>1. BrowserTypeOK' /\ UNCHANGED <<parentId, folderPath>>
    BY <1>1, <1>2, BarFrame DEF BrowserTypeOK
  <2>2. QED
    BY <1>2, <2>1 DEF BarTypeOK, TypeOK, DialogInv, CallRecord, uploadVars, dialogVars
<1>3. ASSUME NEW k \in DOMAIN calls
      PROVE  /\ calls[k] \in CallRecord /\ RemoveAt(calls, k) \in Seq(CallRecord)
             /\ [calls EXCEPT ![k].done = TRUE] \in Seq(CallRecord)
  <2>1. k \in 1..Len(calls) /\ calls[k] \in CallRecord
    BY <1>1
  <2>2. RemoveAt(calls, k) \in Seq(CallRecord)
    BY <1>1, <2>1, RemovedPlace
  <2>3. [calls[k] EXCEPT !.done = TRUE] \in CallRecord
    BY <2>1 DEF CallRecord
  <2>4. [calls EXCEPT ![k] = [calls[k] EXCEPT !.done = TRUE]] \in Seq(CallRecord)
    BY <1>1, <2>3
  <2>5. QED
    BY <2>1, <2>2, <2>4
<1>4. ASSUME UNCHANGED listVars
      PROVE  ListTypeOK'
  BY <1>1, <1>4, RefreshType
<1>5. events \in 0..MaxEvents /\ alive \in BOOLEAN
  BY <1>1 DEF BrowserTypeOK
<1>6. /\ processingEnabled \in BOOLEAN /\ prop \in BOOLEAN /\ subscribed \in BOOLEAN
      /\ revalidating \in BOOLEAN /\ crossed \in BOOLEAN /\ behind \in BOOLEAN
      /\ rejected \in [BOOLEAN -> Nat]
  BY DEF BarTypeOK, TypeOK
<1>7. CASE Toggle
  <2>1. events' \in 0..MaxEvents
    BY <1>1, <1>7, EventType DEF Toggle, BarClick, PageClick, Click
  <2>2. calls' \in Seq(CallRecord)
    <3>1. [on |-> ~processingEnabled, done |-> FALSE] \in CallRecord
      BY <1>6 DEF CallRecord
    <3>2. QED
      BY <1>1, <1>7, <3>1 DEF Toggle
  <2>3. processingEnabled' \in BOOLEAN /\ crossed' \in BOOLEAN
    BY <1>6, <1>7 DEF Toggle, Busy
  <2>4. QED
    BY <1>2, <1>4, <1>5, <1>6, <1>7, <2>1, <2>2, <2>3 DEF Toggle
<1>8. ASSUME NEW k \in DOMAIN calls, ServeCall(k)
      PROVE  BarTypeOK' /\ UNCHANGED <<parentId, folderPath>>
  <2>1. UNCHANGED <<where, listVars, placeVars, previewVars, alive, events>>
    BY <1>8 DEF ServeCall, browserVars
  <2>2. subscribed' \in BOOLEAN
    BY <1>3, <1>8 DEF ServeCall, CallRecord
  <2>3. QED
    BY <1>2, <1>3, <1>4, <1>5, <1>6, <1>8, <2>1, <2>2 DEF ServeCall
<1>9. ASSUME NEW k \in DOMAIN calls, CallAnswered(k)
      PROVE  BarTypeOK' /\ UNCHANGED <<parentId, folderPath>>
  <2>1. UNCHANGED <<where, listVars, placeVars, previewVars, alive, events>>
    BY <1>9 DEF CallAnswered, browserVars
  <2>2. QED
    BY <1>2, <1>3, <1>4, <1>5, <1>6, <1>9, <2>1 DEF CallAnswered
<1>10. ASSUME NEW k \in DOMAIN calls, CallRejected(k)
      PROVE  BarTypeOK' /\ UNCHANGED <<parentId, folderPath>>
  <2>1. events' \in 0..MaxEvents
    BY <1>1, <1>10, EventType DEF CallRejected, Rejected
  <2>2. processingEnabled' \in BOOLEAN
    BY <1>10 DEF CallRejected
  <2>3. rejected' \in [BOOLEAN -> Nat]
    <3>1. PICK on \in BOOLEAN : calls[k].on = on
      BY <1>3 DEF CallRecord
    <3>2. rejected' = rejected \/ rejected' = [rejected EXCEPT ![on] = @ + 1]
      BY <1>10, <3>1 DEF CallRejected, Rejected
    <3>3. QED
      BY <1>6, <3>2
  <2>4. QED
    BY <1>2, <1>3, <1>4, <1>5, <1>6, <1>10, <2>1, <2>2, <2>3 DEF CallRejected, Rejected
<1>11. CASE Revalidated
  <2>1. ListTypeOK'
    BY <1>1, <1>11, EffectType DEF Revalidated, BrowserTypeOK
  <2>2. processingEnabled' \in BOOLEAN
    BY <1>6, <1>11 DEF Revalidated
  <2>3. QED
    BY <1>1, <1>2, <1>5, <1>6, <1>11, <2>1, <2>2 DEF Revalidated
<1>12. CASE RevalidateFails
  <2>1. events' \in 0..MaxEvents
    BY <1>1, <1>12, EventType DEF RevalidateFails
  <2>2. QED
    BY <1>1, <1>2, <1>4, <1>5, <1>6, <1>12, <2>1 DEF RevalidateFails
<1>13. ASSUME NEW on \in BOOLEAN, ServeRejected(on)
       PROVE  BarTypeOK' /\ UNCHANGED <<parentId, folderPath>>
  <2>1. UNCHANGED <<where, listVars, placeVars, previewVars, alive, events>>
    BY <1>13 DEF ServeRejected, browserVars
  <2>2. rejected' \in [BOOLEAN -> Nat] /\ crossed' \in BOOLEAN
    BY <1>6, <1>13 DEF ServeRejected, Busy
  <2>3. QED
    BY <1>1, <1>2, <1>4, <1>5, <1>6, <1>13, <2>1, <2>2 DEF ServeRejected
<1>14. QED
  BY <1>7, <1>8, <1>9, <1>10, <1>11, <1>12, <1>13 DEF SwitchStep

(* The groups of actions. *)
Moves ==
    /\ UNCHANGED ToolbarVars
    /\ ContainerCrumb \/ \E f \in Folders : OnFolderClicked(f) \/ OnBreadcrumbClick(f)

PageSteps ==
    /\ UNCHANGED ToolbarVars
    /\ \/ \E i \in Items : OnSelectionChange(i) \/ OtherUser(i)
       \/ \E f \in Files : OnFilePreviewSelected(f) \/ AnswerPreview(f) \/ PreviewFails(f)
       \/ ClosePreview
       \/ \E f \in Places : Notified(f)
       \/ AnswerLists

Selections ==
    \/ \E b \in Batches, fs \in SUBSET (New \cup Again) : OnUploadFileSelected(b, fs)
    \/ \E f \in New : OnNewDocument(f)

DialogSteps ==
    \/ \E d \in Dialogs : OpenDialog(d)
    \/ \E i \in Items : Submit(i)
    \/ CancelDialog \/ DialogStep

LEMMA NextCases ==
    ASSUME Next
    PROVE  \/ Moves \/ PageSteps \/ Selections \/ DialogSteps \/ Toggle \/ SwitchStep
           \/ \E f \in Files : UploadStep(f)
<1>1. CASE dialog = None /\ BrowserClick /\ UNCHANGED <<uploadVars, dialogVars, switchVars>>
  BY <1>1 DEF BrowserClick, Moves, PageSteps, ToolbarVars
<1>2. CASE BrowserStep /\ UNCHANGED <<uploadVars, dialogVars, switchVars>>
  BY <1>2 DEF BrowserStep, PageSteps, ToolbarVars
<1>3. CASE BarStep
  BY <1>3 DEF BarStep, Selections, DialogSteps
<1>4. QED
  BY <1>1, <1>2, <1>3 DEF Next

(* All variables of the page and the toolbar keep their types, and the     *)
(* folder stays the one that the path ends with.                           *)
Types == BarTypeOK /\ PathEndsAtFolder

LEMMA TypesInvariant == Spec => []Types
<1>1. Init => Types
  <2> SUFFICES ASSUME Init
               PROVE  Types
    OBVIOUS
  <2>1. BrowserTypeOK /\ folderPath = <<>> /\ parentId = Root
    <3>1. /\ where = Start /\ parentId = Root /\ folderPath = <<>>
          /\ driveItems = {} /\ selectedItem = None
          /\ loads = <<[folder |-> Root, seen |-> {i \in Items : Start[i] = Root},
                        late |-> FALSE]>>
          /\ sockets = {Root} /\ causes = {}
          /\ previewFile = None /\ previewUrl = None
          /\ asks = [f \in Files |-> 0] /\ left = FALSE
          /\ alive = TRUE /\ events = 0
      BY DEF Init, BrowserInit
    <3>2. loads \in Seq(LoadRecord)
      BY <3>1 DEF LoadRecord, Places
    <3>3. folderPath \in Seq(Folders)
      BY <3>1
    <3>4. events \in 0..MaxEvents /\ where \in [Items -> Places \cup {Unborn, Gone}]
      BY <3>1, BrowserAssumption
    <3>5. QED
      BY <3>1, <3>2, <3>3, <3>4 DEF BrowserTypeOK, LoadRecord, Places
  <2>2. /\ state \in [Files -> {"none", "sent", "stored", "done", "failed"}]
        /\ batch \in [Files -> Batches \cup {0}] /\ dest \in [Files -> Places]
        /\ captured \in [Batches -> SUBSET Files] /\ uploads \subseteq Files
        /\ mixed \in BOOLEAN
    BY DEF Init, Places
  <2>3. calls \in Seq([on : BOOLEAN, done : BOOLEAN]) /\ rejected \in [BOOLEAN -> Nat]
    <3>1. calls = <<>> /\ rejected = [on \in BOOLEAN |-> 0]
      BY DEF Init
    <3>2. QED
      BY <3>1
  <2>4. QED
    BY <2>1, <2>2, <2>3
    DEF Init, Types, BarTypeOK, TypeOK, DialogInv, PathEndsAtFolder
<1>2. Types /\ [Next]_vars => Types'
  <2> SUFFICES ASSUME Types, [Next]_vars
               PROVE  Types'
    OBVIOUS
  <2>1. ASSUME BarTypeOK', UNCHANGED <<parentId, folderPath>>
        PROVE  Types'
    BY <2>1 DEF Types, PathEndsAtFolder
  <2>2. CASE Moves
    BY <2>2, MoveTypes DEF Moves, Types
  <2>3. CASE PageSteps
    BY <2>1, <2>3, PageTypes DEF PageSteps, Types
  <2>4. CASE Selections
    BY <2>1, <2>4, SelectionTypes DEF Selections, Types
  <2>5. ASSUME NEW f \in Files, UploadStep(f)
        PROVE  Types'
    BY <2>1, <2>5, UploadTypes DEF Types
  <2>6. CASE DialogSteps
    BY <2>1, <2>6, DialogTypes DEF DialogSteps, Types
  <2>7. CASE Toggle \/ SwitchStep
    BY <2>1, <2>7, SwitchTypes DEF Types
  <2>8. CASE UNCHANGED vars
    <3>1. BrowserTypeOK' /\ UNCHANGED <<parentId, folderPath>>
      BY <2>8 DEF vars, browserVars, listVars, placeVars, previewVars, Types, BarTypeOK,
                  TypeOK, BrowserTypeOK
    <3>2. BarTypeOK'
      BY <2>8, <3>1 DEF vars, uploadVars, dialogVars, switchVars, Types, BarTypeOK, TypeOK,
                        DialogInv
    <3>3. QED
      BY <2>1, <3>1, <3>2
  <2>9. QED
    BY <2>2, <2>3, <2>4, <2>5, <2>6, <2>7, <2>8, NextCases
<1>3. QED
  BY <1>1, <1>2, PTL DEF Spec

(* All variables of ContainerBrowser and ContainerActionBar keep their     *)
(* types.                                                                  *)
THEOREM BrowserTypes == Spec => []TypeOK
<1>1. Types => TypeOK
  BY DEF Types, BarTypeOK
<1>2. QED
  BY <1>1, TypesInvariant, PTL

(* The folder of uploads, new folders and listings is the one that the     *)
(* breadcrumb ends with (ContainerBrowser.tsx:95-121).                     *)
THEOREM PathMatchesFolder == Spec => []PathEndsAtFolder
<1>1. Types => PathEndsAtFolder
  BY DEF Types
<1>2. QED
  BY <1>1, TypesInvariant, PTL

-----------------------------------------------------------------------------
(* The preview: what is asked for is the file that is shown. *)
PreviewInv ==
    ~left => /\ previewUrl \in {None, previewFile}
             /\ \A f \in Files : asks[f] > 0 => f = previewFile

(* The url in the preview is of the file it names, unless the preview      *)
(* before it was closed while urls were awaited                            *)
(* (ContainerBrowser.tsx:136-156).                                         *)
THEOREM PreviewIsHonest == Spec => []PreviewHonest
<1>1. Init => PreviewInv
  BY DEF Init, BrowserInit, PreviewInv
<1>2. Types /\ PreviewInv /\ [Next]_vars => PreviewInv'
  <2> SUFFICES ASSUME Types, PreviewInv, [Next]_vars
               PROVE  PreviewInv'
    OBVIOUS
  <2>1. asks \in [Files -> Nat] /\ None \notin Files
    BY BrowserAssumption DEF Types, BarTypeOK, TypeOK, BrowserTypeOK, Items
  <2>2. ASSUME UNCHANGED previewVars
        PROVE  PreviewInv'
    BY <2>2 DEF PreviewInv, previewVars
  <2>3. CASE Moves
    BY <2>2, <2>3
    DEF Moves, ContainerCrumb, OnFolderClicked, OnBreadcrumbClick
  <2>4. ASSUME NEW i \in Items, OnSelectionChange(i) \/ OtherUser(i)
        PROVE  PreviewInv'
    BY <2>2, <2>4 DEF OnSelectionChange, OtherUser
  <2>5. ASSUME NEW f \in Files, OnFilePreviewSelected(f)
        PROVE  PreviewInv'
    BY <2>1, <2>5 DEF OnFilePreviewSelected, PageClick, PreviewInv
  <2>6. ASSUME NEW f \in Files, AnswerPreview(f)
        PROVE  PreviewInv'
    BY <2>1, <2>6 DEF AnswerPreview, PreviewInv
  <2>7. ASSUME NEW f \in Files, PreviewFails(f)
        PROVE  PreviewInv'
    BY <2>1, <2>7 DEF PreviewFails, PreviewInv
  <2>8. CASE ClosePreview
    BY <2>8 DEF ClosePreview, PreviewInv
  <2>9. CASE AnswerLists \/ \E f \in Places : Notified(f)
    BY <2>2, <2>9 DEF AnswerLists, AnswerList, ListFails, Notified
  <2>10. CASE Selections \/ \E f \in Files : UploadStep(f)
    BY <2>2, <2>10 DEF Selections, OnUploadFileSelected, OnNewDocument, UploadStep, StoreFile,
                       UploadDone, DocumentDone, UploadFails
  <2>11. CASE DialogSteps
    BY <2>2, <2>11 DEF DialogSteps, OpenDialog, Submit, CancelDialog, DialogStep, Serve,
                       RequestDone, RequestFails, browserVars
  <2>12. CASE Toggle \/ SwitchStep
    BY <2>2, <2>12 DEF Toggle, SwitchStep, ServeCall, CallAnswered, CallRejected, Rejected,
                       ServeRejected, Revalidated, RevalidateFails, browserVars
  <2>13. CASE UNCHANGED vars
    BY <2>2, <2>13 DEF vars, browserVars
  <2>14. QED
    BY <2>3, <2>4, <2>5, <2>6, <2>7, <2>8, <2>9, <2>10, <2>11, <2>12, <2>13, NextCases
    DEF PageSteps
<1>3. PreviewInv => PreviewHonest
  BY DEF PreviewInv, PreviewHonest
<1>4. QED
  BY <1>1, <1>2, <1>3, TypesInvariant, PTL DEF Spec

-----------------------------------------------------------------------------
(* The switch, as long as it is used one step at a time: at rest, while    *)
(* the container is loaded again, and while a call is awaited.  When the   *)
(* bar's effect is not going to run, the switch is off already.            *)
AtRest == processingEnabled = prop /\ (~behind => subscribed = prop)
OffWithoutEffect == ~prop /\ ~subscribed => ~processingEnabled

SwitchInv ==
    alive /\ ~crossed =>
        IF calls = <<>>
        THEN (~revalidating => AtRest) /\ OffWithoutEffect
        ELSE /\ Len(calls) = 1 /\ ~revalidating
             /\ processingEnabled = calls[1].on /\ prop = ~calls[1].on
             /\ calls[1].done => subscribed = calls[1].on
             /\ ~calls[1].done /\ ~behind => subscribed = prop

(* Used one step at a time, the settled switch shows what the container    *)
(* has, unless the function served a call that had been rejected           *)
(* (ContainerActionBar.tsx:102-104, 137-155).                              *)
THEOREM SwitchIsTold == Spec => []SwitchTold
<1>1. Init => SwitchInv
  BY DEF Init, SwitchInv, AtRest, OffWithoutEffect
<1>2. Types /\ SwitchInv /\ [Next]_vars => SwitchInv'
  <2> SUFFICES ASSUME Types, SwitchInv, [Next]_vars
               PROVE  SwitchInv'
    OBVIOUS
  <2>1. /\ calls \in Seq(CallRecord) /\ processingEnabled \in BOOLEAN /\ prop \in BOOLEAN
        /\ subscribed \in BOOLEAN /\ revalidating \in BOOLEAN /\ crossed \in BOOLEAN
        /\ behind \in BOOLEAN
    BY DEF Types, BarTypeOK, TypeOK, CallRecord
  <2>2. ASSUME UNCHANGED <<alive, switchVars>>
        PROVE  SwitchInv'
    BY <2>2 DEF SwitchInv, AtRest, OffWithoutEffect, switchVars
  <2>3. CASE Moves
    BY <2>2, <2>3
    DEF Moves, ToolbarVars, ContainerCrumb, OnFolderClicked, OnBreadcrumbClick
  <2>4. CASE PageSteps
    BY <2>2, <2>4
    DEF PageSteps, ToolbarVars, OnSelectionChange, OtherUser, OnFilePreviewSelected,
        AnswerPreview, PreviewFails, ClosePreview, Notified, AnswerLists, AnswerList, ListFails
  <2>5. CASE Selections \/ \E f \in Files : UploadStep(f)
    BY <2>2, <2>5 DEF Selections, OnUploadFileSelected, OnNewDocument, UploadStep, StoreFile,
                      UploadDone, DocumentDone, UploadFails
  <2>6. CASE DialogSteps
    BY <2>2, <2>6 DEF DialogSteps, OpenDialog, Submit, CancelDialog, DialogStep, Serve,
                      RequestDone, RequestFails, browserVars
  <2>7. ASSUME Toggle, alive', ~crossed'
        PROVE  SwitchInv'
    <3> DEFINE call == [on |-> ~processingEnabled, done |-> FALSE]
    <3>1. alive /\ ~crossed /\ calls = <<>> /\ ~revalidating
      BY <2>7 DEF Toggle, Busy
    <3>2. /\ calls' = Append(calls, call) /\ processingEnabled' = ~processingEnabled
          /\ UNCHANGED <<prop, subscribed, revalidating, behind>>
      BY <2>7 DEF Toggle
    <3>3. call.on = ~processingEnabled /\ ~call.done
      OBVIOUS
    <3> HIDE DEF call
    <3>4. calls' # <<>> /\ Len(calls') = 1 /\ calls'[1] = call
      BY <3>1, <3>2
    <3>5. AtRest
      BY <3>1, Zenon DEF SwitchInv
    <3>6. QED
      BY <2>1, <3>1, <3>2, <3>3, <3>4, <3>5 DEF AtRest, SwitchInv
  <2>8. ASSUME NEW k \in DOMAIN calls, alive', ~crossed',
               ServeCall(k) \/ CallAnswered(k) \/ CallRejected(k)
        PROVE  SwitchInv'
    <3>1. calls # <<>> /\ k \in 1..Len(calls) /\ alive /\ ~crossed
      <4>1. DOMAIN calls = 1..Len(calls) /\ calls # <<>>
        BY <2>1
      <4>2. alive' = alive /\ crossed' = crossed
        BY <2>8 DEF ServeCall, CallAnswered, CallRejected, Rejected, browserVars
      <4>3. QED
        BY <2>8, <4>1, <4>2
    <3>2. /\ Len(calls) = 1 /\ k = 1 /\ ~revalidating
          /\ processingEnabled = calls[1].on /\ prop = ~calls[1].on
          /\ calls[1].done => subscribed = calls[1].on
          /\ calls[1] \in CallRecord
      BY <2>1, <3>1 DEF SwitchInv
    <3>3. RemoveAt(calls, k) = <<>>
      <4>1. /\ RemoveAt(calls, k) \in Seq(CallRecord)
            /\ Len(RemoveAt(calls, k)) = Len(calls) - 1
        BY <2>1, <3>1, RemovedPlace
      <4>2. QED
        BY <3>2, <4>1
    <3>4. CASE ServeCall(k)
      <4>1. /\ calls' = [calls EXCEPT ![1].done = TRUE] /\ subscribed' = calls[1].on
            /\ UNCHANGED <<processingEnabled, prop, revalidating, behind>>
        BY <3>2, <3>4 DEF ServeCall
      <4>2. /\ calls' # <<>> /\ Len(calls') = 1
            /\ calls'[1].on = calls[1].on /\ calls'[1].done
        <5> DEFINE call == [calls[1] EXCEPT !.done = TRUE]
        <5>1. call \in CallRecord /\ call.on = calls[1].on /\ call.done
          BY <3>2 DEF CallRecord
        <5> HIDE DEF call
        <5>2. calls' = [calls EXCEPT ![1] = call]
          BY <4>1 DEF call
        <5>3. calls' # <<>> /\ Len(calls') = 1 /\ calls'[1] = call
          <6>1. calls \in Seq(CallRecord) /\ Len(calls) = 1
            BY <2>1, <3>2
          <6>2. Len(calls') = 1 /\ calls'[1] = call
            BY <5>2, <6>1
          <6>3. Len(<<>>) # 1
            OBVIOUS
          <6>4. QED
            BY <6>2, <6>3
        <5>4. QED
          BY <5>1, <5>3
      <4>3. QED
        BY <3>2, <4>1, <4>2 DEF SwitchInv
    <3>5. CASE CallAnswered(k)
      BY <2>1, <3>2, <3>3, <3>5 DEF CallAnswered, SwitchInv, OffWithoutEffect, CallRecord
    <3>6. CASE CallRejected(k)
      BY <2>1, <3>2, <3>3, <3>6
      DEF CallRejected, Rejected, SwitchInv, OffWithoutEffect, CallRecord
    <3>7. QED
      BY <2>8, <3>4, <3>5, <3>6
  <2>9. CASE Revalidated
    BY <2>1, <2>9 DEF Revalidated, SwitchInv, AtRest, OffWithoutEffect
  <2>10. CASE RevalidateFails
    BY <2>10 DEF RevalidateFails, SwitchInv
  <2>11. CASE UNCHANGED vars
    BY <2>2, <2>11 DEF vars, browserVars
  <2>12. ASSUME ~(alive' /\ ~crossed')
         PROVE  SwitchInv'
    BY <2>12 DEF SwitchInv
  <2>13. ASSUME NEW on \in BOOLEAN, ServeRejected(on), alive', ~crossed'
         PROVE  SwitchInv'
    <3>1. /\ alive /\ ~crossed /\ calls = <<>> /\ ~revalidating /\ behind'
          /\ UNCHANGED <<calls, revalidating, processingEnabled, prop>>
      BY <2>13 DEF ServeRejected, Busy, browserVars
    <3>2. AtRest
      BY <3>1, Zenon DEF SwitchInv
    <3>3. AtRest' /\ OffWithoutEffect'
      BY <2>1, <3>1, <3>2 DEF AtRest, OffWithoutEffect
    <3>4. QED
      BY <3>1, <3>3, Zenon DEF SwitchInv
  <2>14. QED
    BY <2>3, <2>4, <2>5, <2>6, <2>7, <2>8, <2>9, <2>10, <2>11, <2>12, <2>13, NextCases
    DEF SwitchStep
<1>3. Types /\ SwitchInv => SwitchTold
  <2> SUFFICES ASSUME Types, SwitchInv, alive, ~Busy, ~crossed, ~behind
               PROVE  processingEnabled = subscribed
    BY DEF SwitchTold
  <2>1. calls = <<>> /\ ~revalidating
    BY DEF Busy
  <2>2. AtRest
    BY <2>1, Zenon DEF SwitchInv
  <2>3. QED
    BY <2>2 DEF AtRest
<1>4. QED
  BY <1>1, <1>2, <1>3, TypesInvariant, PTL DEF Spec

-----------------------------------------------------------------------------
(* The uploads of selections, and those among them that the badge is for.  *)
(* While selections do not overlap those under way are of one selection,   *)
(* whose Map is the one that is rendered.                                  *)
Uploading == {f \in Pending : batch[f] # 0}
Badge == {f \in Files : batch[f] # 0 /\ state[f] \in {"sent", "stored", "failed"}}

UploadInv ==
    ~mixed => /\ uploads = Badge
              /\ \A f, g \in Uploading : batch[f] = batch[g]
              /\ \A f \in Uploading : captured[batch[f]] = uploads

LEMMA UploadsInvariant == Spec => []UploadInv
<1>1. Init => UploadInv
  BY DEF Init, UploadInv, Uploading, Badge, Pending
<1>2. Types /\ UploadInv /\ [Next]_vars => UploadInv'
  <2> SUFFICES ASSUME Types, UploadInv, [Next]_vars
               PROVE  UploadInv'
    OBVIOUS
  <2>1. /\ state \in [Files -> {"none", "sent", "stored", "done", "failed"}]
        /\ batch \in [Files -> Batches \cup {0}]
        /\ captured \in [Batches -> SUBSET Files] /\ uploads \subseteq Files
    BY DEF Types, BarTypeOK, TypeOK
  <2>2. ASSUME UNCHANGED uploadVars
        PROVE  UploadInv'
    BY <2>2 DEF UploadInv, Uploading, Badge, Pending, uploadVars
  <2>3. CASE Moves \/ PageSteps
    BY <2>2, <2>3 DEF Moves, PageSteps, ToolbarVars
  <2>4. CASE DialogSteps
    BY <2>2, <2>4 DEF DialogSteps, OpenDialog, Submit, CancelDialog, DialogStep, Serve,
                      RequestDone, RequestFails
  <2>5. CASE Toggle \/ SwitchStep
    BY <2>2, <2>5 DEF Toggle, SwitchStep, ServeCall, CallAnswered, CallRejected, Rejected,
                       ServeRejected, Revalidated, RevalidateFails
  <2>6. ASSUME NEW b \in Batches, NEW fs \in SUBSET (New \cup Again), OnUploadFileSelected(b, fs), ~mixed'
        PROVE  UploadInv'
    <3>1. /\ ~mixed /\ Uploading = {}
          /\ state' = [f \in Files |-> IF f \in fs THEN "sent" ELSE state[f]]
          /\ batch' = [f \in Files |-> IF f \in fs THEN b ELSE batch[f]]
          /\ captured' = [captured EXCEPT ![b] = uploads \cup fs]
          /\ uploads' = uploads \cup fs
      BY <2>6 DEF OnUploadFileSelected, Send, Uploading
    <3>2. b # 0 /\ fs \subseteq Files
      BY BarAssumption DEF New, Again
    <3>3. uploads = Badge
      BY <3>1 DEF UploadInv
    <3>4. Uploading' = fs /\ Badge' = Badge \cup fs
      BY <2>1, <3>1, <3>2 DEF Uploading, Badge, Pending
    <3>5. captured'[b] = uploads \cup fs /\ \A f \in fs : batch'[f] = b
      BY <2>1, <3>1, <3>2
    <3>6. QED
      BY <3>1, <3>3, <3>4, <3>5 DEF UploadInv
  <2>7. ASSUME NEW f \in New, OnNewDocument(f)
        PROVE  UploadInv'
    <3>1. /\ f \in Files /\ state[f] = "none"
          /\ state' = [g \in Files |-> IF g = f THEN "sent" ELSE state[g]]
          /\ batch' = [g \in Files |-> IF g = f THEN 0 ELSE batch[g]]
          /\ UNCHANGED <<captured, uploads, mixed>>
      BY <2>7 DEF OnNewDocument, Send, New
    <3>2. /\ Uploading' = Uploading /\ Badge' = Badge
          /\ \A g \in Uploading : batch'[g] = batch[g]
      BY <2>1, <3>1 DEF Uploading, Badge, Pending
    <3>3. QED
      BY <3>1, <3>2 DEF UploadInv
  <2>8. ASSUME NEW f \in Files, StoreFile(f)
        PROVE  UploadInv'
    <3>1. /\ state[f] = "sent" /\ state' = [state EXCEPT ![f] = "stored"]
          /\ UNCHANGED <<batch, captured, uploads, mixed>>
      BY <2>8 DEF StoreFile
    <3>2. Uploading' = Uploading /\ Badge' = Badge
      BY <2>1, <3>1 DEF Uploading, Badge, Pending
    <3>3. QED
      BY <3>1, <3>2 DEF UploadInv
  <2>9. ASSUME NEW f \in Files, UploadDone(f)
        PROVE  UploadInv'
    <3> DEFINE others == captured[batch[f]] \ {f}
    <3>1. /\ f \in Uploading
          /\ state' = [state EXCEPT ![f] = "done"]
          /\ captured' = [captured EXCEPT ![batch[f]] = others] /\ uploads' = others
          /\ UNCHANGED <<batch, mixed>>
      BY <2>9 DEF UploadDone, Uploading, Badge, Pending
    <3>2. Uploading' = Uploading \ {f} /\ Badge' = Badge \ {f} /\ batch[f] \in Batches
      BY <2>1, <3>1 DEF Uploading, Badge, Pending
    <3>3. captured'[batch[f]] = others
      BY <2>1, <3>1, <3>2
    <3>4. QED
      BY <3>1, <3>2, <3>3 DEF UploadInv
  <2>10. ASSUME NEW f \in Files, DocumentDone(f)
         PROVE  UploadInv'
    <3>1. /\ batch[f] = 0 /\ state' = [state EXCEPT ![f] = "done"]
          /\ UNCHANGED <<batch, captured, uploads, mixed>>
      BY <2>10 DEF DocumentDone
    <3>2. Uploading' = Uploading /\ Badge' = Badge
      BY <2>1, <3>1 DEF Uploading, Badge, Pending
    <3>3. QED
      BY <3>1, <3>2 DEF UploadInv
  <2>11. ASSUME NEW f \in Files, UploadFails(f)
         PROVE  UploadInv'
    <3>1. /\ state[f] = "sent" /\ state' = [state EXCEPT ![f] = "failed"]
          /\ UNCHANGED <<batch, captured, uploads, mixed>>
      BY <2>11 DEF UploadFails
    <3>2. Uploading' \subseteq Uploading /\ Badge' = Badge
      BY <2>1, <3>1 DEF Uploading, Badge, Pending
    <3>3. QED
      BY <3>1, <3>2 DEF UploadInv
  <2>12. CASE UNCHANGED vars
    BY <2>2, <2>12 DEF vars
  <2>13. ASSUME mixed'
         PROVE  UploadInv'
    BY <2>13 DEF UploadInv
  <2>14. QED
    BY <2>3, <2>4, <2>5, <2>6, <2>7, <2>8, <2>9, <2>10, <2>11, <2>12, <2>13, NextCases
    DEF Selections, UploadStep
<1>3. QED
  BY <1>1, <1>2, TypesInvariant, PTL DEF Spec

(* Until selections overlap the badge has the uploads under way and those  *)
(* that failed (ContainerActionBar.tsx:112-135).                           *)
THEOREM UploadsAreTold == Spec => []UploadsTold
<1>1. UploadInv => UploadsTold
  BY DEF UploadInv, UploadsTold, Badge
<1>2. QED
  BY <1>1, UploadsInvariant, PTL

-----------------------------------------------------------------------------
(* What is on the screen. *)

(* Something is done of which the page has not been told yet, or may never *)
(* be told: the uploads of a selection one of which failed.                *)
Untold ==
    \/ \E f \in Files : state[f] = "stored"
    \/ request = "stored"
    \/ uploads # {}

(* An answer marks all earlier listings. *)
LatePrefix ==
    \A i, j \in 1..Len(loads) : i < j /\ loads[j].late => loads[i].late

(* The newest listing is still to be answered, and no answer overtook it.  *)
Waiting == loads # <<>> /\ ~loads[Len(loads)].late

(* What the screen shows in the end, if nothing else happens, is of the    *)
(* folder that the page is at, and new if the page has been told.          *)
Current ==
    IF Waiting
    THEN /\ loads[Len(loads)].folder = parentId
         /\ ~Untold => loads[Len(loads)].seen = Contents(parentId)
    ELSE ~Untold => driveItems = Contents(parentId)

ListInv == LatePrefix /\ (alive /\ causes = {} => Current)

LEMMA NewListing ==
    ASSUME BrowserTypeOK, LatePrefix, NEW p \in Places, ListItems(p)
    PROVE  /\ LatePrefix' /\ Waiting'
           /\ loads'[Len(loads')] = [folder |-> p, seen |-> Contents(p), late |-> FALSE]
<1> DEFINE l == [folder |-> p, seen |-> Contents(p), late |-> FALSE]
<1>1. /\ loads' \in Seq(LoadRecord) /\ loads' # <<>>
      /\ Len(loads') = Len(loads) + 1 /\ loads'[Len(loads')] = l
      /\ \A i \in 1..Len(loads) : loads'[i] = loads[i]
  BY ListItemsType
<1>2. Len(loads) \in Nat /\ ~l.late
  BY DEF BrowserTypeOK
<1> HIDE DEF l
<1>3. LatePrefix'
  <2> SUFFICES ASSUME NEW i \in 1..Len(loads'), NEW j \in 1..Len(loads'),
                      i < j, loads'[j].late
               PROVE  loads'[i].late
    BY DEF LatePrefix
  <2>1. j # Len(loads')
    BY <1>1, <1>2
  <2>2. i \in 1..Len(loads) /\ j \in 1..Len(loads)
    BY <1>1, <1>2, <2>1
  <2>3. QED
    BY <1>1, <2>2 DEF LatePrefix
<1>4. QED
  BY <1>1, <1>2, <1>3 DEF l, Waiting

(* Where the page is listed again, and nothing changes at that moment.     *)
LEMMA Refreshed ==
    ASSUME BrowserTypeOK, ListInv, parentId' \in Places, ListItems(parentId'), where' = where
    PROVE  ListInv'
<1>1. /\ LatePrefix' /\ Waiting'
      /\ loads'[Len(loads')] = [folder |-> parentId', seen |-> Contents(parentId'),
                                late |-> FALSE]
  BY NewListing DEF ListInv
<1>2. Contents(parentId') = Contents(parentId)'
  BY DEF Contents
<1>3. Current'
  BY <1>1, <1>2 DEF Current
<1>4. QED
  BY <1>1, <1>3 DEF ListInv

(* Where no listing is asked for or answered. *)
LEMMA NotListed ==
    ASSUME ListInv, UNCHANGED <<loads, driveItems, parentId>>,
           alive' /\ causes' = {} =>
               /\ alive /\ causes = {}
               /\ ~Untold' => ~Untold /\ where' = where
    PROVE  ListInv'
BY DEF ListInv, LatePrefix, Current, Waiting, Contents

LEMMA Answered ==
    ASSUME BrowserTypeOK, ListInv, NEW k \in DOMAIN loads, AnswerList(k),
           UNCHANGED ToolbarVars
    PROVE  ListInv'
<1> DEFINE n == Len(loads)
<1>1. /\ n \in Nat /\ k \in 1..n /\ Len(Marked(k)) = n
      /\ Marked(k) \in Seq(LoadRecord) /\ loads \in Seq(LoadRecord)
      /\ \A j \in 1..n : loads[j] \in LoadRecord
      /\ \A j \in 1..n :
             Marked(k)[j] = IF j < k THEN [loads[j] EXCEPT !.late = TRUE] ELSE loads[j]
  BY MarkedType
<1>2. \A j \in 1..n : j < k => Marked(k)[j].late
  BY <1>1 DEF LoadRecord
<1>3. loads' = RemoveAt(Marked(k), k)
  BY DEF AnswerList, Marked
<1>4. /\ loads' \in Seq(LoadRecord) /\ Len(loads') = n - 1
      /\ \A i \in 1..(n - 1) :
             loads'[i] = IF i < k THEN Marked(k)[i] ELSE Marked(k)[i + 1]
  BY <1>1, <1>3, RemovedPlace
<1> HIDE DEF n
<1>5. \A i \in 1..(n - 1) : IF i < k THEN loads'[i].late ELSE loads'[i] = loads[i + 1]
  <2> SUFFICES ASSUME NEW i \in 1..(n - 1)
               PROVE  IF i < k THEN loads'[i].late ELSE loads'[i] = loads[i + 1]
    OBVIOUS
  <2>1. i \in 1..n /\ i + 1 \in 1..n
    BY <1>1
  <2>2. CASE i < k
    BY <1>2, <1>4, <2>1, <2>2
  <2>3. CASE ~(i < k)
    <3>1. ~(i + 1 < k)
      BY <1>1, <2>3
    <3>2. QED
      BY <1>1, <1>4, <2>1, <2>3, <3>1
  <2>4. QED
    BY <2>2, <2>3
<1>6. LatePrefix'
  <2> SUFFICES ASSUME NEW i \in 1..(n - 1), NEW j \in 1..(n - 1), i < j, loads'[j].late
               PROVE  loads'[i].late
    BY <1>4 DEF LatePrefix
  <2>1. CASE i < k
    BY <1>5, <2>1
  <2>2. CASE ~(i < k)
    <3>1. ~(j < k) /\ i + 1 \in 1..n /\ j + 1 \in 1..n /\ i + 1 < j + 1
      BY <1>1, <2>2
    <3>2. loads[j + 1].late
      BY <1>5, <3>1
    <3>3. loads[i + 1].late
      BY <3>1, <3>2 DEF ListInv, LatePrefix, n
    <3>4. QED
      BY <1>5, <2>2, <3>3
  <2>3. QED
    BY <2>1, <2>2
<1>7. ASSUME alive', causes' = {}
      PROVE  Current'
  <2>1. /\ alive /\ causes = {} /\ ~loads[k].late
        /\ driveItems' \in {loads[k].seen, Contents(loads[k].folder)}
        /\ parentId' = parentId /\ where' = where
    BY <1>7 DEF AnswerList, ToolbarVars, uploadVars, placeVars
  <2>2. Current /\ (Untold' <=> Untold) /\ Contents(parentId)' = Contents(parentId)
    BY <2>1
    DEF ListInv, ToolbarVars, uploadVars, dialogVars, Untold, Contents
  <2>3. CASE k = n
    <3>1. Waiting
      BY <1>1, <2>1, <2>3 DEF Waiting, n
    <3>2. ~Untold => driveItems' = Contents(parentId)
      BY <2>1, <2>2, <2>3, <3>1 DEF Current, n
    <3>3. ~Waiting'
      <4>1. CASE n - 1 = 0
        BY <1>4, <4>1 DEF Waiting
      <4>2. CASE n - 1 # 0
        <5>1. n - 1 \in 1..(n - 1) /\ n - 1 < k
          BY <1>1, <2>3, <4>2
        <5>2. QED
          BY <1>4, <1>5, <5>1 DEF Waiting
      <4>3. QED
        BY <4>1, <4>2
    <3>4. QED
      BY <2>2, <3>2, <3>3 DEF Current
  <2>4. CASE k # n
    <3>1. n - 1 \in 1..(n - 1) /\ ~(n - 1 < k) /\ (n - 1) + 1 = n /\ k < n /\ n \in 1..n
      BY <1>1, <2>4
    <3>2. loads'[n - 1] = loads[n] /\ ~loads[n].late
      BY <1>1, <1>5, <2>1, <3>1 DEF ListInv, LatePrefix, n
    <3>3. Waiting /\ Waiting'
      BY <1>1, <1>4, <3>1, <3>2 DEF Waiting, n
    <3>4. QED
      BY <1>4, <2>1, <2>2, <3>2, <3>3 DEF Current, n
  <2>5. QED
    BY <2>3, <2>4
<1>8. QED
  BY <1>6, <1>7 DEF ListInv

LEMMA Failed ==
    ASSUME BrowserTypeOK, ListInv, NEW k \in DOMAIN loads, ListFails(k),
           UNCHANGED ToolbarVars
    PROVE  ListInv'
<1> DEFINE n == Len(loads)
<1>1. n \in Nat /\ k \in 1..n /\ loads \in Seq(LoadRecord)
  BY MarkedType
<1>2. /\ loads' \in Seq(LoadRecord) /\ Len(loads') = n - 1
      /\ \A i \in 1..(n - 1) : loads'[i] = IF i < k THEN loads[i] ELSE loads[i + 1]
  BY <1>1, RemovedPlace DEF ListFails
<1> HIDE DEF n
<1>3. LatePrefix'
  <2> SUFFICES ASSUME NEW i \in 1..(n - 1), NEW j \in 1..(n - 1), i < j, loads'[j].late
               PROVE  loads'[i].late
    BY <1>2 DEF LatePrefix
  <2>1. \A l, m \in 1..n : l < m /\ loads[m].late => loads[l].late
    BY DEF ListInv, LatePrefix, n
  <2>2. CASE i < k /\ j < k
    <3>1. i \in 1..n /\ j \in 1..n
      BY <1>1
    <3>2. QED
      BY <1>2, <2>1, <2>2, <3>1
  <2>3. CASE i < k /\ ~(j < k)
    <3>1. i \in 1..n /\ j + 1 \in 1..n /\ i < j + 1
      BY <1>1
    <3>2. QED
      BY <1>2, <2>1, <2>3, <3>1
  <2>4. CASE ~(i < k)
    <3>1. i + 1 \in 1..n /\ j + 1 \in 1..n /\ i + 1 < j + 1 /\ ~(j < k)
      BY <1>1, <2>4
    <3>2. QED
      BY <1>2, <2>1, <2>4, <3>1
  <2>5. QED
    BY <2>2, <2>3, <2>4
<1>4. ASSUME alive', causes' = {}
      PROVE  Current'
  <2>1. /\ alive /\ causes = {} /\ (k = n => loads[k].late)
        /\ driveItems' = driveItems /\ parentId' = parentId /\ where' = where
    BY <1>4 DEF ListFails, ToolbarVars, uploadVars, placeVars, n
  <2>2. Current /\ (Untold' <=> Untold) /\ Contents(parentId)' = Contents(parentId)
    BY <2>1
    DEF ListInv, ToolbarVars, uploadVars, dialogVars, Untold, Contents
  <2>3. CASE k = n
    <3>1. ~Waiting
      BY <2>1, <2>3 DEF Waiting, n
    <3>2. ~Waiting'
      <4>1. CASE n - 1 = 0
        BY <1>2, <4>1 DEF Waiting
      <4>2. CASE n - 1 # 0
        <5>1. n - 1 \in 1..(n - 1) /\ n - 1 < k /\ n - 1 \in 1..n
          BY <1>1, <2>3, <4>2
        <5>2. loads'[n - 1].late
          BY <1>1, <1>2, <2>1, <2>3, <5>1 DEF ListInv, LatePrefix, n
        <5>3. QED
          BY <1>2, <5>2 DEF Waiting
      <4>3. QED
        BY <4>1, <4>2
    <3>3. QED
      BY <2>1, <2>2, <3>1, <3>2 DEF Current
  <2>4. CASE k # n
    <3>1. n - 1 \in 1..(n - 1) /\ ~(n - 1 < k) /\ (n - 1) + 1 = n /\ k < n
      BY <1>1, <2>4
    <3>2. loads'[Len(loads')] = loads[Len(loads)] /\ loads # <<>> /\ loads' # <<>>
      BY <1>1, <1>2, <3>1 DEF n
    <3>3. Waiting' <=> Waiting
      BY <3>2 DEF Waiting
    <3>4. QED
      BY <2>1, <2>2, <3>2, <3>3 DEF Current
  <2>5. QED
    BY <2>3, <2>4
<1>5. QED
  BY <1>3, <1>4 DEF ListInv

(* One lemma for each group of actions. *)

LEMMA ShownMove ==
    ASSUME Types, ListInv, Moves
    PROVE  ListInv'
<1>1. BarTypeOK /\ BrowserTypeOK /\ PathEndsAtFolder
  BY DEF Types, BarTypeOK, TypeOK
<1>2. PICK path \in Seq(Folders) :
          Event /\ SetLocation(path) /\ UNCHANGED <<where, previewVars, alive>>
  BY <1>1, MovePath DEF Moves
<1>3. /\ parentId' \in Places
      /\ \/ parentId' # parentId /\ RunEffect(parentId')
         \/ UNCHANGED <<parentId, listVars>>
  BY <1>1, <1>2, LocationType
<1>4. CASE RunEffect(parentId')
  BY <1>1, <1>2, <1>3, <1>4, Refreshed DEF RunEffect
<1>5. CASE UNCHANGED <<parentId, listVars>>
  BY <1>2, <1>5, NotListed
  DEF Moves, ToolbarVars, uploadVars, dialogVars, listVars, Untold
<1>6. QED
  BY <1>3, <1>4, <1>5

LEMMA ShownPage ==
    ASSUME Types, ListInv, PageSteps
    PROVE  ListInv'
<1>1. BrowserTypeOK /\ parentId \in Places
  BY DEF Types, BarTypeOK, TypeOK, BrowserTypeOK
<1>2. UNCHANGED ToolbarVars
  BY DEF PageSteps
<1>3. ASSUME UNCHANGED <<where, listVars, parentId, alive>>
      PROVE  ListInv'
  BY <1>2, <1>3, NotListed
  DEF ToolbarVars, uploadVars, dialogVars, listVars, Untold
<1>4. ASSUME NEW i \in Items, OnSelectionChange(i)
      PROVE  ListInv'
  BY <1>3, <1>4 DEF OnSelectionChange
<1>5. ASSUME NEW i \in Items, OtherUser(i)
      PROVE  ListInv'
  BY <1>5, NotListed DEF OtherUser, placeVars
<1>6. CASE \/ ClosePreview
           \/ \E f \in Files : \/ OnFilePreviewSelected(f) \/ AnswerPreview(f)
                              \/ PreviewFails(f)
  BY <1>3, <1>6 DEF OnFilePreviewSelected, AnswerPreview, PreviewFails, ClosePreview, placeVars
<1>7. ASSUME NEW f \in Places, Notified(f)
      PROVE  ListInv'
  <2>1. ListItems(f) /\ UNCHANGED <<where, parentId, alive>>
    BY <1>7 DEF Notified, placeVars
  <2>2. CASE f = parentId
    BY <1>1, <2>1, <2>2, Refreshed
  <2>3. CASE f # parentId
    <3>1. causes' # {}
      BY <1>7, <2>3 DEF Notified
    <3>2. LatePrefix'
      BY <1>1, <2>1, NewListing DEF ListInv
    <3>3. QED
      BY <3>1, <3>2 DEF ListInv
  <2>4. QED
    BY <2>2, <2>3
<1>8. CASE AnswerLists
  BY <1>1, <1>2, <1>8, Answered, Failed DEF AnswerLists
<1>9. QED
  BY <1>4, <1>5, <1>6, <1>7, <1>8 DEF PageSteps

LEMMA ShownSelection ==
    ASSUME Types, ListInv, Selections
    PROVE  ListInv'
<1>1. /\ UNCHANGED <<where, listVars, placeVars, alive, request>>
      /\ uploads \subseteq uploads'
      /\ \E fs \in SUBSET (New \cup Again), b \in Batches \cup {0} : Send(fs, b)
  <2>1. ASSUME NEW b \in Batches, NEW fs \in SUBSET (New \cup Again), OnUploadFileSelected(b, fs)
        PROVE  /\ UNCHANGED <<where, listVars, placeVars, alive, request>>
               /\ Send(fs, b) /\ uploads \subseteq uploads'
    BY <2>1 DEF OnUploadFileSelected, dialogVars
  <2>2. ASSUME NEW f \in New, OnNewDocument(f)
        PROVE  /\ UNCHANGED <<where, listVars, placeVars, alive, request>>
               /\ Send({f}, 0) /\ {f} \in SUBSET (New \cup Again) /\ uploads \subseteq uploads'
    BY <2>2 DEF OnNewDocument, dialogVars
  <2>3. QED
    BY <2>1, <2>2 DEF Selections
<1>2. PICK fs \in SUBSET (New \cup Again), b \in Batches \cup {0} : Send(fs, b)
  BY <1>1
<1>3. \A f \in Files : state[f] = "stored" => f \notin fs
  BY DEF New, Again
<1>4. \A f \in Files : state[f] = "stored" => state'[f] = "stored"
  BY <1>2, <1>3 DEF Send
<1>5. Untold => Untold'
  BY <1>1, <1>4 DEF Untold
<1>6. QED
  BY <1>1, <1>5, NotListed DEF listVars, placeVars

LEMMA ShownUpload ==
    ASSUME Types, ListInv, NEW f \in Files, UploadStep(f)
    PROVE  ListInv'
<1>1. BrowserTypeOK /\ parentId \in Places
  BY DEF Types, BarTypeOK, TypeOK, BrowserTypeOK
<1>2. /\ state \in [Files -> {"none", "sent", "stored", "done", "failed"}]
      /\ batch \in [Files -> Batches \cup {0}]
      /\ captured \in [Batches -> SUBSET Files]
  BY DEF Types, BarTypeOK, TypeOK
<1>3. CASE StoreFile(f)
  <2>1. Untold'
    BY <1>2, <1>3 DEF StoreFile, Untold
  <2>2. QED
    BY <1>3, <2>1, NotListed DEF StoreFile, listVars, placeVars
<1>4. ASSUME Refresh, UNCHANGED <<where, parentId>>
      PROVE  ListInv'
  BY <1>1, <1>4, Refreshed DEF Refresh, RunEffect
<1>5. CASE DocumentDone(f)
  BY <1>4, <1>5 DEF DocumentDone, placeVars
<1>6. CASE UploadDone(f)
  <2> DEFINE others == captured[batch[f]] \ {f}
  <2>1. /\ uploads' = others /\ UNCHANGED <<where, parentId, alive>>
        /\ IF others = {} THEN Refresh ELSE UNCHANGED listVars
    BY <1>6 DEF UploadDone, placeVars
  <2>2. CASE others = {}
    BY <1>4, <2>1, <2>2
  <2>3. CASE others # {}
    <3>1. Untold'
      BY <2>1, <2>3 DEF Untold
    <3>2. UNCHANGED listVars
      BY <2>1, <2>3
    <3>3. QED
      BY <2>1, <3>1, <3>2, NotListed DEF listVars
  <2>4. QED
    BY <2>2, <2>3
<1>7. CASE UploadFails(f)
  <2>1. /\ state[f] = "sent" /\ state' = [state EXCEPT ![f] = "failed"]
        /\ UNCHANGED <<driveItems, loads, parentId, alive, uploads, request>>
        /\ UNCHANGED <<where, causes>> \/ causes' # {}
    BY <1>7 DEF UploadFails, placeVars, dialogVars
  <2>2. Untold => Untold'
    BY <1>2, <2>1 DEF Untold
  <2>3. QED
    BY <2>1, <2>2, NotListed
<1>8. QED
  BY <1>3, <1>5, <1>6, <1>7 DEF UploadStep

LEMMA ShownDialog ==
    ASSUME Types, ListInv, DialogSteps
    PROVE  ListInv'
<1>1. BrowserTypeOK /\ parentId \in Places
  BY DEF Types, BarTypeOK, TypeOK, BrowserTypeOK
<1>2. ASSUME UNCHANGED <<where, listVars, placeVars, alive, uploadVars>>,
             request' = request \/ request = "no"
      PROVE  ListInv'
  BY <1>2, NotListed DEF listVars, placeVars, uploadVars, Untold
<1>3. CASE \/ \E d \in Dialogs : OpenDialog(d)
           \/ \E i \in Items : Submit(i)
           \/ CancelDialog
  BY <1>2, <1>3 DEF OpenDialog, Submit, CancelDialog, browserVars
<1>4. CASE Serve
  <2>1. UNCHANGED <<loads, driveItems, causes, parentId, alive>> /\ request' = "stored"
    BY <1>4, Zenon DEF Serve, listVars, placeVars, uploadVars
  <2>2. Untold'
    BY <2>1 DEF Untold
  <2>3. QED
    BY <2>1, <2>2, NotListed
<1>5. CASE RequestDone
  BY <1>1, <1>5, Refreshed DEF RequestDone, Refresh, RunEffect, placeVars
<1>6. CASE RequestFails
  BY <1>6, NotListed
  DEF RequestFails, placeVars, uploadVars, Untold
<1>7. QED
  BY <1>3, <1>4, <1>5, <1>6 DEF DialogSteps, DialogStep

LEMMA ShownSwitch ==
    ASSUME Types, ListInv, Toggle \/ SwitchStep
    PROVE  ListInv'
<1>1. BrowserTypeOK /\ parentId \in Places
  BY DEF Types, BarTypeOK, TypeOK, BrowserTypeOK
<1>2. CASE Revalidated
  BY <1>1, <1>2, Refreshed DEF Revalidated, RunEffect, placeVars
<1>3. ASSUME UNCHANGED <<where, listVars, placeVars, uploadVars, dialogVars>>, alive' => alive
      PROVE  ListInv'
  BY <1>3, NotListed
  DEF listVars, placeVars, uploadVars, dialogVars, Untold
<1>4. CASE Toggle \/ RevalidateFails
  BY <1>3, <1>4 DEF Toggle, RevalidateFails
<1>5. CASE \E k \in DOMAIN calls : ServeCall(k) \/ CallAnswered(k) \/ CallRejected(k)
  BY <1>3, <1>5 DEF ServeCall, CallAnswered, CallRejected, Rejected, browserVars
<1>6. CASE \E on \in BOOLEAN : ServeRejected(on)
  BY <1>3, <1>6 DEF ServeRejected, browserVars
<1>7. QED
  BY <1>2, <1>4, <1>5, <1>6 DEF SwitchStep

LEMMA ListInvariant == Spec => []ListInv
<1>1. Init => ListInv
  <2> SUFFICES ASSUME Init
               PROVE  ListInv
    OBVIOUS
  <2>1. /\ loads = <<[folder |-> Root, seen |-> {i \in Items : Start[i] = Root}, late |-> FALSE]>>
        /\ parentId = Root /\ where = Start
    BY DEF Init, BrowserInit
  <2>2. Waiting /\ LatePrefix
    BY <2>1 DEF Waiting, LatePrefix
  <2>3. /\ loads[Len(loads)].folder = parentId
        /\ loads[Len(loads)].seen = Contents(parentId)
    BY <2>1 DEF Contents
  <2>4. QED
    BY <2>2, <2>3 DEF ListInv, Current
<1>2. Types /\ ListInv /\ [Next]_vars => ListInv'
  <2> SUFFICES ASSUME Types, ListInv, [Next]_vars
               PROVE  ListInv'
    OBVIOUS
  <2>1. CASE UNCHANGED vars
    BY <2>1, NotListed
    DEF vars, browserVars, listVars, placeVars, uploadVars, dialogVars, Untold
  <2>2. QED
    BY <2>1, NextCases, ShownMove, ShownPage, ShownSelection, ShownUpload, ShownDialog,
       ShownSwitch
<1>3. QED
  BY <1>1, <1>2, TypesInvariant, PTL DEF Spec

(* Once nothing is under way and none of the causes stands, the screen     *)
(* shows what is in the folder (ContainerBrowser.tsx:64-93,                *)
(* ContainerActionBar.tsx:112-212).                                        *)
THEOREM ShownIsUpToDate == Spec => []ShownIsCurrent
<1>1. ListInv => ShownIsCurrent
  <2> SUFFICES ASSUME ListInv, alive, Quiet, causes = {}
               PROVE  driveItems = Contents(parentId)
    BY DEF ShownIsCurrent
  <2>1. ~Waiting /\ ~Untold
    BY DEF Quiet, Waiting, Untold, Pending
  <2>2. QED
    BY <2>1 DEF ListInv, Current
<1>2. QED
  BY <1>1, ListInvariant, PTL
=============================================================================
