----------------------------- MODULE PagesProofs ----------------------------
(***************************************************************************)
(* Proofs about the pages of the DevSummit sample and of the SPA sample:   *)
(* SummitContainers, SummitContainer, SummitDialogs, FilesPage and         *)
(* SpaPermissions, for any containers, folders, uploads and requests.      *)
(***************************************************************************)
EXTENDS SummitContainers, SummitContainer, SummitDialogs, FilesPage, SpaPermissions,
        PathLemmas, FiniteSetTheorems

-----------------------------------------------------------------------------
(* SummitContainers. *)

(* All variables of SummitContainers keep their types. *)
THEOREM ContainersTypes == ContainersSpec => []ContainersTypeOK
<1>1. ContainersInit => ContainersTypeOK
  BY DEF ContainersInit, ContainersTypeOK
<1>2. ContainersTypeOK /\ [ContainersNext]_containersVars => ContainersTypeOK'
  <2> SUFFICES ASSUME ContainersTypeOK, [ContainersNext]_containersVars
               PROVE  ContainersTypeOK'
    OBVIOUS
  <2> USE DEF ContainersTypeOK, listingVars, createVars, searchDialogVars
  <2>1. ASSUME NEW d \in Drives, OthersCreate(d) \/ GraphCreates(d) \/ ViewContainer(d)
        PROVE  ContainersTypeOK'
    BY <2>1 DEF OthersCreate, GraphCreates, ViewContainer
  <2>2. CASE GraphLists \/ ListAnswered \/ ListRefused
    BY <2>2 DEF GraphLists, ListAnswered, ListRefused
  <2>3. CASE OpenCreation \/ CancelCreation \/ OnContainerCreateClick
    BY <2>3 DEF OpenCreation, CancelCreation, OnContainerCreateClick
  <2>4. CASE CreateAnswered \/ CreateRefused \/ CreateFails \/ CreateThrows
    BY <2>4, ContainersAssumption DEF CreateAnswered, CreateRefused, CreateFails, CreateThrows
  <2>5. CASE OpenSearch \/ SetSearchMode \/ ExecuteSearch \/ SearchThrows \/ CloseSearchDialog
    BY <2>5 DEF OpenSearch, SetSearchMode, ExecuteSearch, SearchThrows, CloseSearchDialog
  <2>6. ASSUME NEW ds \in SUBSET Drives, ResultsAnswered(ds)
        PROVE  ContainersTypeOK'
    BY <2>6 DEF ResultsAnswered
  <2>7. ASSUME NEW d \in known, SelectDrive(d)
        PROVE  ContainersTypeOK'
    BY <2>7, ContainersAssumption DEF SelectDrive
  <2>8. CASE UNCHANGED containersVars
    BY <2>8 DEF containersVars
  <2>9. QED
    BY <2>1, <2>2, <2>3, <2>4, <2>5, <2>6, <2>7, <2>8 DEF ContainersNext
<1>3. QED
  BY <1>1, <1>2, PTL DEF ContainersSpec

(* Nothing is forgotten before the listing is over. *)
KnownInv == (listing # "over" => forgot = {}) /\ ShownIsKnown

(* The container that is shown is one to choose from, or one that the      *)
(* listing took away after it was created (Containers.tsx:61-91, 128-136). *)
THEOREM ShownContainerIsKnown == ContainersSpec => []ShownIsKnown
<1>1. ContainersInit => KnownInv
  BY DEF ContainersInit, KnownInv, ShownIsKnown
<1>2. KnownInv /\ [ContainersNext]_containersVars => KnownInv'
  <2> SUFFICES ASSUME KnownInv, [ContainersNext]_containersVars
               PROVE  KnownInv'
    OBVIOUS
  <2> USE DEF KnownInv, ShownIsKnown, listingVars, createVars, searchDialogVars
  <2>1. ASSUME NEW d \in Drives, OthersCreate(d) \/ GraphCreates(d) \/ ViewContainer(d)
        PROVE  KnownInv'
    BY <2>1 DEF OthersCreate, GraphCreates, ViewContainer
  <2>2. CASE GraphLists \/ ListAnswered \/ ListRefused
    BY <2>2 DEF GraphLists, ListAnswered, ListRefused
  <2>3. CASE OpenCreation \/ CancelCreation \/ OnContainerCreateClick
    BY <2>3 DEF OpenCreation, CancelCreation, OnContainerCreateClick
  <2>4. CASE CreateAnswered \/ CreateRefused \/ CreateFails \/ CreateThrows
    BY <2>4, ContainersAssumption DEF CreateAnswered, CreateRefused, CreateFails, CreateThrows
  <2>5. CASE OpenSearch \/ SetSearchMode \/ ExecuteSearch \/ SearchThrows \/ CloseSearchDialog
    BY <2>5 DEF OpenSearch, SetSearchMode, ExecuteSearch, SearchThrows, CloseSearchDialog
  <2>6. ASSUME NEW ds \in SUBSET Drives, ResultsAnswered(ds)
        PROVE  KnownInv'
    BY <2>6 DEF ResultsAnswered
  <2>7. ASSUME NEW d \in known, SelectDrive(d)
        PROVE  KnownInv'
    BY <2>7, ContainersAssumption DEF SelectDrive
  <2>8. CASE UNCHANGED containersVars
    BY <2>8 DEF containersVars
  <2>9. QED
    BY <2>1, <2>2, <2>3, <2>4, <2>5, <2>6, <2>7, <2>8 DEF ContainersNext
<1>3. KnownInv => ShownIsKnown
  BY DEF KnownInv
<1>4. QED
  BY <1>1, <1>2, <1>3, PTL DEF ContainersSpec
-----------------------------------------------------------------------------
(* DrivePage: the listings under way. *)
LoadRecord == [place : Places, late : BOOLEAN, closing : {None, "folder", "delete"}]

LEMMA LoadItemsType ==
    ASSUME PageTypeOK, NEW p \in Places, NEW here, NEW cause,
           NEW closing \in {None, "folder", "delete"}, LoadItems(p, here, cause, closing)
    PROVE  loads' \in Seq(LoadRecord)
BY DEF PageTypeOK, LoadItems, LoadRecord

LEMMA AnsweredType ==
    ASSUME PageTypeOK, NEW k \in DOMAIN loads
    PROVE  Answered(k) \in Seq(LoadRecord)
<1> DEFINE marked == [j \in DOMAIN loads |->
                         IF j < k THEN [loads[j] EXCEPT !.late = TRUE] ELSE loads[j]]
<1>1. loads \in Seq(LoadRecord)
  BY DEF PageTypeOK, LoadRecord
<1>2. \A j \in DOMAIN loads : /\ loads[j] \in LoadRecord
                              /\ [loads[j] EXCEPT !.late = TRUE] \in LoadRecord
  <2>1. \A j \in DOMAIN loads : loads[j] \in LoadRecord
    BY <1>1
  <2>2. \A l \in LoadRecord : [l EXCEPT !.late = TRUE] \in LoadRecord
    BY DEF LoadRecord
  <2>3. QED
    BY <2>1, <2>2
<1>3. marked \in Seq(LoadRecord) /\ Len(marked) = Len(loads)
  BY <1>1, <1>2
<1>4. k \in 1..Len(marked)
  BY <1>1, <1>3
<1> HIDE DEF marked
<1>5. RemoveAt(marked, k) \in Seq(LoadRecord)
  BY <1>3, <1>4, RemovedPlace
<1>6. QED
  BY <1>5 DEF Answered, marked

(* Counters within their bounds. *)
LEMMA ClickType ==
    ASSUME PageTypeOK, Click
    PROVE  events' \in 0..MaxEvents
BY PageAssumption DEF PageTypeOK, Click

LEMMA FailsType ==
    ASSUME PageTypeOK, NEW must, Fails(must)
    PROVE  failures' \in 0..MaxFailures
BY PageAssumption DEF PageTypeOK, Fails

(* The path to a place of a path, and one folder further. *)
LEMMA PathTo ==
    ASSUME NEW S, NEW p \in Seq(S), NEW k \in 1..Len(p)
    PROVE  /\ SubSeq(p, 1, k) \in Seq(S) /\ SubSeq(p, 1, k) # <<>>
           /\ Last(SubSeq(p, 1, k)) = p[k]
<1>1. Len(p) \in Nat /\ k \in Nat /\ k > 0 /\ k <= Len(p)
  OBVIOUS
<1>2. /\ SubSeq(p, 1, k) \in Seq(S) /\ Len(SubSeq(p, 1, k)) = k
      /\ \A i \in 1..k : SubSeq(p, 1, k)[i] = p[i]
  BY <1>1
<1>3. k \in 1..k
  BY <1>1
<1>4. QED
  BY <1>1, <1>2, <1>3 DEF Last

LEMMA PathOn ==
    ASSUME NEW S, NEW p \in Seq(S), NEW f \in S
    PROVE  Append(p, f) \in Seq(S) /\ Append(p, f) # <<>> /\ Last(Append(p, f)) = f
BY DEF Last

(* What the screen will show: the page's place, when the last listing is   *)
(* answered, or what it shows now, for all others have been overtaken.     *)
PlaceComing ==
    /\ loads # <<>>
    /\ loads[Len(loads)].place = Here /\ ~loads[Len(loads)].late
Overtaken == \A k \in DOMAIN loads : loads[k].late

(* A listing of the page's place is coming, or there is a cause.           *)
LEMMA AskedPlace ==
    ASSUME PageTypeOK, NEW p, NEW here, NEW cause, NEW closing,
           LoadItems(p, here, cause, closing), here = Here'
    PROVE  PlaceComing' \/ (p # here /\ causes' = causes \cup {cause})
<1> DEFINE asked == [place |-> p, late |-> FALSE, closing |-> closing]
<1>1. loads' = Append(loads, asked) /\ loads \in Seq(LoadRecord)
  BY DEF LoadItems, PageTypeOK, LoadRecord
<1>2. loads' # <<>> /\ loads'[Len(loads')] = asked
  BY <1>1
<1>3. CASE p = here
  BY <1>2, <1>3 DEF PlaceComing
<1>4. CASE p # here
  BY <1>4 DEF LoadItems
<1>5. QED
  BY <1>3, <1>4

(* An answer that was not overtaken is the page's place, and overtakes all *)
(* the others, or that is still coming.                                    *)
LEMMA AnsweredPlace ==
    ASSUME PageTypeOK, NEW k \in DOMAIN loads, ~loads[k].late, PlaceComing \/ Overtaken,
           loads' = Answered(k), UNCHANGED <<container, crumbs>>
    PROVE  PlaceComing' \/ (Overtaken' /\ loads[k].place = Here)
<1> DEFINE n == Len(loads)
           marked == [j \in DOMAIN loads |->
                         IF j < k THEN [loads[j] EXCEPT !.late = TRUE] ELSE loads[j]]
<1>1. loads \in Seq(LoadRecord) /\ n \in Nat /\ DOMAIN loads = 1..n /\ k \in 1..n
  BY DEF PageTypeOK, LoadRecord
<1>2. PlaceComing
  BY DEF Overtaken
<1>3. \A j \in 1..n : loads[j] \in LoadRecord /\ [loads[j] EXCEPT !.late = TRUE] \in LoadRecord
  <2>1. \A j \in 1..n : loads[j] \in LoadRecord
    BY <1>1
  <2>2. \A l \in LoadRecord : [l EXCEPT !.late = TRUE] \in LoadRecord
    BY DEF LoadRecord
  <2>3. QED
    BY <2>1, <2>2
<1>4. marked \in Seq(LoadRecord) /\ Len(marked) = n
  BY <1>1, <1>3
<1>5. \A j \in 1..n : IF j < k THEN marked[j].late ELSE marked[j] = loads[j]
  <2>1. \A l \in LoadRecord : [l EXCEPT !.late = TRUE].late
    BY DEF LoadRecord
  <2>2. \A j \in 1..n : marked[j] = IF j < k THEN [loads[j] EXCEPT !.late = TRUE] ELSE loads[j]
    BY <1>1
  <2>3. QED
    BY <1>3, <2>1, <2>2
<1>6. loads' = RemoveAt(marked, k)
  BY DEF Answered
<1> HIDE DEF marked
<1>7. /\ Len(loads') = n - 1 /\ loads' \in Seq(LoadRecord)
      /\ \A i \in 1..(n - 1) : loads'[i] = IF i < k THEN marked[i] ELSE marked[i + 1]
  <2>1. k \in 1..Len(marked)
    BY <1>1, <1>4
  <2>2. /\ RemoveAt(marked, k) \in Seq(LoadRecord) /\ Len(RemoveAt(marked, k)) = Len(marked) - 1
        /\ \A i \in 1..(Len(marked) - 1) :
               RemoveAt(marked, k)[i] = IF i < k THEN marked[i] ELSE marked[i + 1]
    BY <1>4, <2>1, RemovedPlace
  <2>3. QED
    BY <1>4, <1>6, <2>2
<1> HIDE DEF n
<1>8. CASE k = n
  <2>1. \A i \in 1..(n - 1) : loads'[i].late
    BY <1>1, <1>5, <1>7, <1>8
  <2>2. DOMAIN loads' = 1..(n - 1)
    BY <1>1, <1>7
  <2>3. QED
    BY <1>2, <1>8, <2>1, <2>2 DEF PlaceComing, Overtaken, n
<1>9. CASE k # n
  <2>1. n - 1 \in 1..(n - 1) /\ ~(n - 1 < k) /\ (n - 1) + 1 = n /\ n \in 1..n /\ ~(n < k)
    BY <1>1, <1>9
  <2>2. loads'[n - 1] = loads[n]
    BY <1>5, <1>7, <2>1
  <2>3. loads' # <<>>
    BY <1>7, <2>1
  <2>4. loads[n].place = Here /\ ~loads[n].late
    BY <1>2 DEF PlaceComing, n
  <2>5. Here' = Here
    BY DEF Here
  <2>6. QED
    BY <1>7, <2>2, <2>3, <2>4, <2>5 DEF PlaceComing
<1>10. QED
  BY <1>8, <1>9

-----------------------------------------------------------------------------
(* SummitContainer. *)

(* The folder of the page is the last one of the breadcrumb, or one of     *)
(* another container, as long as the user does not come back to that.      *)
PlaceInv ==
    /\ ~cameBack => \/ FolderOrRoot = Last(crumbs)
                    \/ folderId \in Folders /\ Home[folderId] # container
    /\ LandsWhereShown

LEMMA ContainerChangeStep ==
    ASSUME SummitTypeOK, PlaceInv, NEW c \in Containers, ContainerChange(c)
    PROVE  SummitTypeOK' /\ PlaceInv'
<1> USE DEF SummitTypeOK, PageTypeOK, dialogVars, putVars
<1>1. /\ container' = c /\ crumbs' = <<Root>>
      /\ UNCHANGED <<gone, shown, failures, folderId, dialogVars, putVars>>
      /\ cameBack' = (cameBack \/ (folderId \in Folders /\ Home[folderId] = c))
      /\ Click /\ LoadItems(<<c, Root>>, <<c, Root>>, "unexpected", None)
  BY DEF ContainerChange, SummitClick
<1>2. <<c, Root>> \in Places
  BY DEF Places
<1>3. loads' \in Seq(LoadRecord) /\ events' \in 0..MaxEvents
  BY <1>1, <1>2, LoadItemsType, ClickType
<1>4. SummitTypeOK'
  BY <1>1, <1>3 DEF LoadRecord
<1>5. PlaceInv'
  <2>1. Last(crumbs') = Root
    BY <1>1 DEF Last
  <2>2. ~cameBack' => \/ FolderOrRoot' = Last(crumbs')
                      \/ folderId' \in Folders /\ Home[folderId'] # container'
    BY <1>1, <2>1 DEF FolderOrRoot
  <2>3. LandsWhereShown'
    BY <1>1 DEF PlaceInv, LandsWhereShown
  <2>4. QED
    BY <2>2, <2>3 DEF PlaceInv
<1>6. QED
  BY <1>4, <1>5

(* The page goes to a folder, at the end of its path. *)
LEMMA GoStep ==
    ASSUME SummitTypeOK, PlaceInv, NEW f \in Folders \cup {Root}, Click,
           crumbs' \in Seq(Folders \cup {Root}), crumbs' # <<>>, Last(crumbs') = f,
           folderId' = IF f = Root THEN Undefined ELSE f,
           LoadItems(<<container, f>>, <<container, f>>, "unexpected", None),
           UNCHANGED <<gone, container, shown, failures, dialogVars, putVars, cameBack>>
    PROVE  SummitTypeOK' /\ PlaceInv'
<1> USE DEF SummitTypeOK, PageTypeOK, dialogVars, putVars
<1>1. <<container, f>> \in Places
  BY DEF Places
<1>2. loads' \in Seq(LoadRecord) /\ events' \in 0..MaxEvents
  BY <1>1, LoadItemsType, ClickType
<1>3. SummitTypeOK'
  BY <1>2 DEF LoadRecord
<1>4. FolderOrRoot' = Last(crumbs')
  BY SummitAssumption DEF FolderOrRoot
<1>5. LandsWhereShown'
  BY DEF PlaceInv, LandsWhereShown
<1>6. QED
  BY <1>3, <1>4, <1>5 DEF PlaceInv

(* A folder's link leads to the end of the path. *)
LEMMA LinkPath ==
    ASSUME NEW p \in Seq(Folders \cup {Root}), NEW f \in Folders
    PROVE  LET k == SelectInSeq(p, LAMBDA g : g = f)
               path == IF k = 0 THEN Append(p, f) ELSE SubSeq(p, 1, k)
           IN  path \in Seq(Folders \cup {Root}) /\ path # <<>> /\ Last(path) = f
<1> DEFINE k == SelectInSeq(p, LAMBDA g : g = f)
<1>1. k = FirstOf(p, f)
  BY DEF SelectInSeq, FirstOf
<1> HIDE DEF k
<1>2. k \in 0..Len(p) /\ (k # 0 => p[k] = f)
  BY <1>1, FirstPlace
<1>3. CASE k = 0
  BY <1>3, PathOn DEF k
<1>4. CASE k # 0
  <2>1. k \in 1..Len(p)
    BY <1>2, <1>4
  <2>2. QED
    BY <1>2, <1>4, <2>1, PathTo DEF k
<1>5. QED
  BY <1>3, <1>4

LEMMA NavigateStep ==
    ASSUME SummitTypeOK, PlaceInv, NEW f \in Folders, NavigateToFolder(f)
    PROVE  SummitTypeOK' /\ PlaceInv'
<1>1. /\ Click /\ folderId' = f
      /\ LoadItems(<<container, f>>, <<container, f>>, "unexpected", None)
      /\ UNCHANGED <<gone, container, shown, failures, dialogVars, putVars, cameBack>>
  BY DEF NavigateToFolder, SummitClick
<1>2. crumbs \in Seq(Folders \cup {Root}) /\ f # Root
  BY TreeAssumption DEF SummitTypeOK, PageTypeOK
<1>3. crumbs' \in Seq(Folders \cup {Root}) /\ crumbs' # <<>> /\ Last(crumbs') = f
  BY <1>2, LinkPath DEF NavigateToFolder
<1>4. QED
  BY <1>1, <1>2, <1>3, GoStep

LEMMA CrumbStep ==
    ASSUME SummitTypeOK, PlaceInv, NEW k \in DOMAIN crumbs, CrumbClick(k)
    PROVE  SummitTypeOK' /\ PlaceInv'
<1>1. /\ Click /\ folderId' = (IF crumbs[k] = Root THEN Undefined ELSE crumbs[k])
      /\ crumbs' = SubSeq(crumbs, 1, k)
      /\ LoadItems(<<container, crumbs[k]>>, <<container, crumbs[k]>>, "unexpected", None)
      /\ UNCHANGED <<gone, container, shown, failures, dialogVars, putVars, cameBack>>
  BY DEF CrumbClick, SummitClick
<1>2. /\ crumbs \in Seq(Folders \cup {Root}) /\ k \in 1..Len(crumbs)
      /\ crumbs[k] \in Folders \cup {Root}
  BY DEF SummitTypeOK, PageTypeOK
<1>3. crumbs' \in Seq(Folders \cup {Root}) /\ crumbs' # <<>> /\ Last(crumbs') = crumbs[k]
  BY <1>1, <1>2, PathTo
<1>4. QED
  BY <1>1, <1>2, <1>3, GoStep

LEMMA EndListingStep ==
    ASSUME SummitTypeOK, PlaceInv, NEW k \in DOMAIN loads, ListingAnswered(k) \/ ListingFails(k)
    PROVE  SummitTypeOK' /\ PlaceInv'
<1> USE DEF SummitTypeOK, PageTypeOK, putVars
<1>1. loads[k] \in LoadRecord
  <2>1. loads \in Seq(LoadRecord)
    BY DEF LoadRecord
  <2>2. QED
    BY <2>1
<1>2. PICK s, cause : EndListing(k, s, cause) /\ s \in {loads[k].place, shown}
  BY DEF ListingAnswered, ListingFails
<1>3. /\ shown' = s /\ loads' = Answered(k)
      /\ newFolder' = IF loads[k].closing = "folder" THEN "closed" ELSE newFolder
      /\ deleteDialog' = IF loads[k].closing = "delete" THEN "closed" ELSE deleteDialog
      /\ UNCHANGED <<gone, container, crumbs, events, folderId, row, target, putVars, cameBack>>
  BY <1>2 DEF EndListing
<1>4. loads' \in Seq(LoadRecord)
  BY <1>3, AnsweredType
<1>5. failures' \in 0..MaxFailures
  BY FailsType DEF ListingAnswered, ListingFails
<1>6. shown' \in Places \cup {<<"nothing">>, <<"results">>}
  BY <1>1, <1>2, <1>3 DEF LoadRecord
<1>7. SummitTypeOK'
  BY <1>3, <1>4, <1>5, <1>6 DEF LoadRecord
<1>8. PlaceInv'
  BY <1>3 DEF PlaceInv, LandsWhereShown, FolderOrRoot
<1>9. QED
  BY <1>7, <1>8

(* Steps that leave the place of the page, the uploads and the listings.   *)
LEMMA DialogStep ==
    ASSUME SummitTypeOK, PlaceInv, gone' \in SUBSET Folders,
           UNCHANGED <<container, crumbs, shown, folderId, putVars, cameBack>>,
           loads' \in Seq(LoadRecord), events' \in 0..MaxEvents, failures' \in 0..MaxFailures,
           newFolder' \in {"closed", "open", "creating", "listing", "hung"},
           deleteDialog' \in {"closed", "open", "deleting", "listing", "hung"},
           row' \in Folders \cup {None},
           target' \in Containers \X (Folders \cup {Root, Undefined})
    PROVE  SummitTypeOK' /\ PlaceInv'
<1>1. SummitTypeOK'
  BY DEF SummitTypeOK, PageTypeOK, putVars, LoadRecord
<1>2. PlaceInv'
  BY DEF PlaceInv, LandsWhereShown, FolderOrRoot, putVars
<1>3. QED
  BY <1>1, <1>2

LEMMA NewFolderStep ==
    ASSUME SummitTypeOK, PlaceInv,
           OpenNewFolder \/ CancelNewFolder \/ OnCreateFolder \/ FolderCreated \/ FolderRefused
    PROVE  SummitTypeOK' /\ PlaceInv'
<1> USE DEF pageVars, listVars
<1>1. /\ loads \in Seq(LoadRecord) /\ events \in 0..MaxEvents /\ failures \in 0..MaxFailures
      /\ gone \in SUBSET Folders
  BY DEF SummitTypeOK, PageTypeOK, LoadRecord
<1>2. CASE OpenNewFolder
  <2>1. events' \in 0..MaxEvents
    BY <1>2, ClickType DEF OpenNewFolder, SummitClick, SummitTypeOK
  <2>2. QED
    BY <1>1, <1>2, <2>1, DialogStep DEF OpenNewFolder, SummitTypeOK
<1>3. CASE CancelNewFolder
  BY <1>1, <1>3, DialogStep DEF CancelNewFolder, SummitTypeOK
<1>4. CASE OnCreateFolder
  BY <1>1, <1>4, DialogStep DEF OnCreateFolder, SummitTypeOK, PageTypeOK
<1>5. CASE FolderCreated
  <2>1. target \in Places
    BY <1>5 DEF FolderCreated, Valid, InContainer, Places, SummitTypeOK
  <2>2. LoadItems(target, Here, "cameBack", "folder")
    BY <1>5 DEF FolderCreated
  <2>3. loads' \in Seq(LoadRecord)
    BY <2>1, <2>2, LoadItemsType DEF SummitTypeOK
  <2>4. QED
    BY <1>1, <1>5, <2>3, DialogStep DEF FolderCreated, SummitTypeOK
<1>6. CASE FolderRefused
  <2>1. failures' \in 0..MaxFailures
    BY <1>6, FailsType DEF FolderRefused, SummitTypeOK
  <2>2. QED
    BY <1>1, <1>6, <2>1, DialogStep DEF FolderRefused, SummitTypeOK
<1>7. QED
  BY <1>2, <1>3, <1>4, <1>5, <1>6

LEMMA DeleteStep ==
    ASSUME SummitTypeOK, PlaceInv,
           \/ \E f \in Folders : OpenDelete(f)
           \/ CancelDelete \/ OnDeleteItemClick \/ ItemDeleted \/ DeleteRefused
    PROVE  SummitTypeOK' /\ PlaceInv'
<1> USE DEF pageVars, listVars
<1>1. /\ loads \in Seq(LoadRecord) /\ events \in 0..MaxEvents /\ failures \in 0..MaxFailures
      /\ gone \in SUBSET Folders
  BY DEF SummitTypeOK, PageTypeOK, LoadRecord
<1>2. ASSUME NEW f \in Folders, OpenDelete(f)
      PROVE  SummitTypeOK' /\ PlaceInv'
  <2>1. events' \in 0..MaxEvents
    BY <1>2, ClickType DEF OpenDelete, SummitClick, SummitTypeOK
  <2>2. QED
    BY <1>1, <1>2, <2>1, DialogStep DEF OpenDelete, SummitTypeOK
<1>3. CASE CancelDelete \/ OnDeleteItemClick
  BY <1>1, <1>3, DialogStep DEF CancelDelete, OnDeleteItemClick, SummitTypeOK
<1>4. CASE ItemDeleted
  <2>1. <<container, FolderOrRoot>> \in Places
    BY DEF FolderOrRoot, Places, SummitTypeOK, PageTypeOK
  <2>2. LoadItems(<<container, FolderOrRoot>>, Here, "cameBack", "delete")
    BY <1>4 DEF ItemDeleted
  <2>3. loads' \in Seq(LoadRecord)
    BY <2>1, <2>2, LoadItemsType DEF SummitTypeOK
  <2>4. row \in Folders
    BY <1>4, TreeAssumption DEF ItemDeleted, ItemKnown, Valid, InContainer, SummitTypeOK
  <2>5. QED
    BY <1>1, <1>4, <2>3, <2>4, DialogStep DEF ItemDeleted, SummitTypeOK
<1>5. CASE DeleteRefused
  <2>1. failures' \in 0..MaxFailures
    BY <1>5, FailsType DEF DeleteRefused, SummitTypeOK
  <2>2. QED
    BY <1>1, <1>5, <2>1, DialogStep DEF DeleteRefused, SummitTypeOK
<1>6. QED
  BY <1>2, <1>3, <1>4, <1>5

LEMMA UploadStep ==
    ASSUME SummitTypeOK, PlaceInv, NEW u \in Uploads,
           OnUploadFileSelected(u) \/ PutDone(u) \/ PutFails(u)
    PROVE  SummitTypeOK' /\ PlaceInv'
<1> USE DEF listVars, dialogVars, SummitTypeOK
<1>1. /\ loads \in Seq(LoadRecord) /\ events \in 0..MaxEvents /\ failures \in 0..MaxFailures
      /\ gone \in SUBSET Folders /\ <<container, FolderOrRoot>> \in Places /\ Here \in Places
  <2>1. Last(crumbs) \in Folders \cup {Root}
    BY DEF PageTypeOK, Last
  <2>2. QED
    BY <2>1 DEF PageTypeOK, LoadRecord, FolderOrRoot, Here, Places
<1>2. CASE OnUploadFileSelected(u)
  <2>1. /\ put' = [put EXCEPT ![u] = <<container, FolderOrRoot>>]
        /\ aimed' = [aimed EXCEPT ![u] = Here] /\ uploading' = uploading \cup {u}
        /\ UNCHANGED <<gone, container, crumbs, listVars, failures, folderId, dialogVars, cameBack>>
    BY <1>2 DEF OnUploadFileSelected
  <2>2. events' \in 0..MaxEvents
    BY <1>2, ClickType DEF OnUploadFileSelected, SummitClick
  <2>3. /\ put'[u] = <<container, FolderOrRoot>> /\ aimed'[u] = Here
        /\ \A v \in Uploads \ {u} : put'[v] = put[v] /\ aimed'[v] = aimed[v]
    BY <2>1
  <2>4. SummitTypeOK'
    BY <1>1, <2>1, <2>2, <2>3 DEF PageTypeOK
  <2>5. ~cameBack /\ InContainer(put'[u]) => put'[u] = aimed'[u]
    BY <1>1, <2>3, SummitAssumption, TreeAssumption
    DEF PlaceInv, InContainer, FolderOrRoot, Here, Places, PageTypeOK
  <2>6. \A v \in uploading \ {u} : ~cameBack /\ InContainer(put'[v]) => put'[v] = aimed'[v]
    BY <2>3 DEF PlaceInv, LandsWhereShown
  <2>7. LandsWhereShown'
    <3> SUFFICES ASSUME ~cameBack', NEW v \in uploading', InContainer(put'[v])
                 PROVE  put'[v] = aimed'[v]
      BY DEF LandsWhereShown, InContainer
    <3>1. v = u \/ v \in uploading \ {u}
      BY <2>1
    <3>2. ~cameBack
      BY <2>1
    <3>3. QED
      BY <2>5, <2>6, <3>1, <3>2
  <2>8. PlaceInv'
    BY <2>1, <2>7 DEF PlaceInv, FolderOrRoot
  <2>9. QED
    BY <2>4, <2>8
<1>3. ASSUME UNCHANGED <<gone, container, crumbs, shown, folderId, dialogVars, aimed, cameBack>>,
             uploading' = uploading \ {u},
             put' = put \/ put' = [put EXCEPT ![u] = <<"failed", Root>>],
             loads' \in Seq(LoadRecord), events' \in 0..MaxEvents, failures' \in 0..MaxFailures
      PROVE  SummitTypeOK' /\ PlaceInv'
  <2>1. \A v \in uploading' : v \in uploading /\ put'[v] = put[v] /\ aimed'[v] = aimed[v]
    BY <1>3
  <2>2. put' \in [Uploads -> Places \cup {<<None, None>>, <<"failed", Root>>}]
    BY <1>3
  <2>3. SummitTypeOK'
    BY <1>3, <2>1, <2>2 DEF PageTypeOK, LoadRecord
  <2>4. LandsWhereShown'
    BY <1>3, <2>1 DEF PlaceInv, LandsWhereShown, InContainer
  <2>5. PlaceInv'
    BY <1>3, <2>4 DEF PlaceInv, FolderOrRoot
  <2>6. QED
    BY <2>3, <2>5
<1>4. CASE PutDone(u)
  <2>1. put[u] \in Places /\ LoadItems(put[u], Here, "upload", None)
    BY <1>4 DEF PutDone
  <2>2. loads' \in Seq(LoadRecord)
    BY <2>1, LoadItemsType
  <2>3. QED
    BY <1>1, <1>3, <1>4, <2>2 DEF PutDone
<1>5. CASE PutFails(u)
  <2>1. failures' \in 0..MaxFailures
    BY <1>5, FailsType DEF PutFails
  <2>2. QED
    BY <1>1, <1>3, <1>5, <2>1 DEF PutFails
<1>6. QED
  BY <1>2, <1>4, <1>5

LEMMA SummitInvariant == SummitSpec => [](SummitTypeOK /\ PlaceInv)
<1>1. SummitInit => SummitTypeOK /\ PlaceInv
  <2> SUFFICES ASSUME SummitInit
               PROVE  SummitTypeOK /\ PlaceInv
    OBVIOUS
  <2>1. /\ gone = {} /\ container \in Containers /\ crumbs = <<Root>>
        /\ shown = <<"nothing">>
        /\ loads = << [place |-> <<container, Root>>, late |-> FALSE, closing |-> None] >>
        /\ events = 0 /\ failures = 0
    BY DEF SummitInit, PageInit
  <2>2. loads \in Seq(LoadRecord)
    BY <2>1 DEF LoadRecord, Places
  <2>3. PageTypeOK
    BY <2>1, <2>2, PageAssumption DEF PageTypeOK, LoadRecord
  <2>4. SummitTypeOK
    BY <2>1, <2>3 DEF SummitInit, SummitTypeOK
  <2>5. FolderOrRoot = Last(crumbs)
    BY <2>1, SummitAssumption DEF SummitInit, FolderOrRoot, Last
  <2>6. QED
    BY <2>4, <2>5 DEF SummitInit, PlaceInv, LandsWhereShown
<1>2. SummitTypeOK /\ PlaceInv /\ [SummitNext]_summitVars => SummitTypeOK' /\ PlaceInv'
  <2> SUFFICES ASSUME SummitTypeOK, PlaceInv, [SummitNext]_summitVars
               PROVE  SummitTypeOK' /\ PlaceInv'
    OBVIOUS
  <2>1. ASSUME NEW c \in Containers, ContainerChange(c)
        PROVE  SummitTypeOK' /\ PlaceInv'
    BY <2>1, ContainerChangeStep
  <2>2. ASSUME NEW f \in Folders, NavigateToFolder(f)
        PROVE  SummitTypeOK' /\ PlaceInv'
    BY <2>2, NavigateStep
  <2>3. ASSUME NEW k \in DOMAIN crumbs, CrumbClick(k)
        PROVE  SummitTypeOK' /\ PlaceInv'
    BY <2>3, CrumbStep
  <2>4. ASSUME NEW u \in Uploads, OnUploadFileSelected(u) \/ PutDone(u) \/ PutFails(u)
        PROVE  SummitTypeOK' /\ PlaceInv'
    BY <2>4, UploadStep
  <2>5. CASE OpenNewFolder \/ CancelNewFolder \/ OnCreateFolder \/ FolderCreated \/ FolderRefused
    BY <2>5, NewFolderStep
  <2>6. CASE \/ \E f \in Folders : OpenDelete(f)
             \/ CancelDelete \/ OnDeleteItemClick \/ ItemDeleted \/ DeleteRefused
    BY <2>6, DeleteStep
  <2>7. CASE ListingStep
    BY <2>7, EndListingStep DEF ListingStep
  <2>8. CASE UNCHANGED summitVars
    BY <2>8 DEF summitVars, pageVars, listVars, dialogVars, putVars, SummitTypeOK, PageTypeOK,
                PlaceInv, LandsWhereShown, InContainer, FolderOrRoot
  <2>9. QED
    BY <2>1, <2>2, <2>3, <2>4, <2>5, <2>6, <2>7, <2>8 DEF SummitNext, DialogAnswered
<1>3. QED
  BY <1>1, <1>2, PTL DEF SummitSpec

(* All variables of SummitContainer keep their types. *)
THEOREM SummitTypes == SummitSpec => []SummitTypeOK
BY SummitInvariant, PTL

(* An upload goes where the breadcrumb said when it was chosen, or fails   *)
(* (Container.tsx:78-84, 117-125, 146-166, 385-404).                       *)
THEOREM UploadsLandWhereShown == SummitSpec => []LandsWhereShown
<1>1. PlaceInv => LandsWhereShown
  BY DEF PlaceInv
<1>2. QED
  BY <1>1, SummitInvariant, PTL

(* What the screen shows is the page's place, or that is coming, unless    *)
(* something broke it.                                                     *)
SummitSettled ==
    causes \cap {"overtaken", "loadFailed", "upload", "cameBack"} = {}
        => PlaceComing \/ (Overtaken /\ shown = Here)

LEMMA SummitSettledStep ==
    ASSUME SummitTypeOK, SummitSettled, [SummitNext]_summitVars
    PROVE  SummitSettled'
<1> USE DEF listVars
<1>1. PageTypeOK /\ crumbs \in Seq(Folders \cup {Root})
  BY DEF SummitTypeOK, PageTypeOK
<1>2. ASSUME UNCHANGED <<container, crumbs, shown, loads, causes>>
      PROVE  SummitSettled'
  BY <1>2 DEF SummitSettled, PlaceComing, Overtaken, Here
<1>3. ASSUME NEW p, NEW cause, NEW closing, LoadItems(p, Here', cause, closing),
             p = Here' \/ cause \in {"upload", "cameBack"}
      PROVE  SummitSettled'
  BY <1>1, <1>3, AskedPlace DEF SummitSettled
<1>4. ASSUME NEW c \in Containers, ContainerChange(c)
      PROVE  SummitSettled'
  <2>1. Here' = <<c, Root>>
    BY <1>4 DEF ContainerChange, Here, Last
  <2>2. QED
    BY <1>3, <1>4, <2>1 DEF ContainerChange
<1>5. ASSUME NEW f \in Folders, NavigateToFolder(f)
      PROVE  SummitSettled'
  <2>1. Last(crumbs') = f
    BY <1>1, <1>5, LinkPath DEF NavigateToFolder
  <2>2. Here' = <<container, f>>
    BY <1>5, <2>1 DEF NavigateToFolder, Here
  <2>3. QED
    BY <1>3, <1>5, <2>2 DEF NavigateToFolder
<1>6. ASSUME NEW k \in DOMAIN crumbs, CrumbClick(k)
      PROVE  SummitSettled'
  <2>1. Last(crumbs') = crumbs[k]
    BY <1>1, <1>6, PathTo DEF CrumbClick
  <2>2. Here' = <<container, crumbs[k]>>
    BY <1>6, <2>1 DEF CrumbClick, Here
  <2>3. QED
    BY <1>3, <1>6, <2>2 DEF CrumbClick
<1>7. CASE FolderCreated \/ ItemDeleted \/ \E u \in Uploads : PutDone(u)
  <2>1. Here' = Here
    BY <1>7 DEF FolderCreated, ItemDeleted, PutDone, Here
  <2>2. QED
    BY <1>3, <1>7, <2>1 DEF FolderCreated, ItemDeleted, PutDone
<1>8. ASSUME NEW k \in DOMAIN loads, ListingAnswered(k) \/ ListingFails(k)
      PROVE  SummitSettled'
  <2>1. PICK s, cause :
            /\ EndListing(k, s, cause)
            /\ cause = {"loadFailed"} \/ s = loads[k].place
    BY <1>8 DEF ListingAnswered, ListingFails
  <2>2. /\ shown' = s /\ loads' = Answered(k) /\ UNCHANGED <<container, crumbs>>
        /\ causes' = causes \cup cause \cup (IF loads[k].late THEN {"overtaken"} ELSE {})
    BY <2>1 DEF EndListing
  <2>3. SUFFICES ASSUME causes' \cap {"overtaken", "loadFailed", "upload", "cameBack"} = {}
                 PROVE  PlaceComing' \/ (Overtaken' /\ shown' = Here')
    BY DEF SummitSettled
  <2>4. ~loads[k].late /\ s = loads[k].place
    BY <2>1, <2>2, <2>3
  <2>5. PlaceComing \/ Overtaken
    BY <2>2, <2>3 DEF SummitSettled
  <2>6. Here' = Here
    BY <2>2 DEF Here
  <2>7. QED
    BY <1>1, <2>2, <2>4, <2>5, <2>6, AnsweredPlace
<1>9. CASE OpenNewFolder \/ CancelNewFolder \/ OnCreateFolder \/ FolderRefused
  BY <1>2, <1>9 DEF OpenNewFolder, CancelNewFolder, OnCreateFolder, FolderRefused, pageVars
<1>10. CASE \/ \E f \in Folders : OpenDelete(f)
            \/ CancelDelete \/ OnDeleteItemClick \/ DeleteRefused
  BY <1>2, <1>10 DEF OpenDelete, CancelDelete, OnDeleteItemClick, DeleteRefused, pageVars
<1>11. CASE \E u \in Uploads : OnUploadFileSelected(u) \/ PutFails(u)
  BY <1>2, <1>11 DEF OnUploadFileSelected, PutFails
<1>12. CASE UNCHANGED summitVars
  BY <1>2, <1>12 DEF summitVars, pageVars
<1>13. QED
  BY <1>4, <1>5, <1>6, <1>7, <1>8, <1>9, <1>10, <1>11, <1>12
  DEF SummitNext, DialogAnswered, ListingStep

(* With no listing under way the page shows its place, whatever the order  *)
(* of the answers was, unless an answer was overtaken or failed, an upload *)
(* was made elsewhere or a folderId came back (Container.tsx:78-178).      *)
THEOREM PageShowsItsPlace == SummitSpec => []SummitShown
<1>1. SummitInit => SummitSettled
  BY DEF SummitInit, PageInit, SummitSettled, PlaceComing, Here, Last
<1>2. SummitTypeOK /\ SummitSettled /\ [SummitNext]_summitVars => SummitSettled'
  BY SummitSettledStep
<1>3. SummitTypeOK /\ SummitSettled => SummitShown
  BY DEF SummitSettled, SummitShown, PlaceComing
<1>4. QED
  BY <1>1, <1>2, <1>3, SummitInvariant, PTL DEF SummitSpec
-----------------------------------------------------------------------------
(* FilesPage. *)

(* The uploads under way while selections do not overlap: they are of one  *)
(* selection, whose count has not heard of those that failed.              *)
UploadInv ==
    /\ \A u \in sent \cup failed : batch[u] # 0
    /\ sent \cap failed = {}
    /\ ~overlapped =>
          /\ \A u, v \in sent : batch[u] = batch[v]
          /\ \A u \in sent : /\ counter[batch[u]] >= Cardinality(sent)
                             /\ counter[batch[u]] <= Cardinality(sent) + Cardinality(failed)
    /\ UploadsCounted

FilesInv == FilesTypeOK /\ CrumbMatchesFolder /\ UploadInv

LEMMA FilesParts ==
    ASSUME FilesTypeOK
    PROVE  /\ loads \in Seq(LoadRecord) /\ events \in 0..MaxEvents /\ failures \in 0..MaxFailures
           /\ Last(crumbs) \in Folders \cup {Root} /\ Here \in Places
           /\ <<container, itemId>> \in Places
BY DEF FilesTypeOK, PageTypeOK, LoadRecord, Last, Here, Places

(* Steps that leave the uploads. *)
LEMMA FilesFrame ==
    ASSUME FilesInv, UNCHANGED uploadVars, gone' \in SUBSET Folders,
           container' \in Containers, crumbs' \in Seq(Folders \cup {Root}), crumbs' # <<>>,
           itemId' \in Folders \cup {Root}, itemId' = Last(crumbs'),
           shown' \in Places \cup {<<"nothing">>, <<"results">>}, loads' \in Seq(LoadRecord),
           events' \in 0..MaxEvents, failures' \in 0..MaxFailures, loadingFiles' \in BOOLEAN,
           selected' \in Folders \cup {None}, dialogs' \in SUBSET Ops,
           requests' \in Seq(OpRequests), searchInProgress' \in BOOLEAN,
           searchQueryInProgress' \in BOOLEAN, searches' \in Nat
    PROVE  FilesInv'
<1>1. FilesTypeOK'
  BY DEF FilesInv, FilesTypeOK, PageTypeOK, LoadRecord, uploadVars
<1>2. CrumbMatchesFolder'
  BY DEF CrumbMatchesFolder
<1>3. UploadInv'
  BY DEF FilesInv, UploadInv, UploadsCounted, uploadVars
<1>4. QED
  BY <1>1, <1>2, <1>3 DEF FilesInv

LEMMA GoToStep ==
    ASSUME FilesInv, PageClick, NEW c \in Containers, NEW f \in Folders \cup {Root},
           NEW path \in Seq(Folders \cup {Root}), path # <<>>, f = Last(path),
           GoTo(c, f, path), searchInProgress' \in BOOLEAN,
           UNCHANGED <<searchQueryInProgress, searches>>
    PROVE  FilesInv'
<1>1. /\ container' = c /\ itemId' = f /\ crumbs' = path /\ shown' = <<"nothing">>
      /\ selected' = None /\ loadingFiles' = TRUE
      /\ LoadItems(<<c, f>>, <<c, Last(path)>>, "unexpected", None)
      /\ UNCHANGED <<gone, failures, dialogs, requests, uploadVars>>
  BY DEF GoTo
<1>2. <<c, f>> \in Places
  BY DEF Places
<1>3. loads' \in Seq(LoadRecord)
  BY <1>1, <1>2, LoadItemsType DEF FilesInv, FilesTypeOK
<1>4. events' \in 0..MaxEvents
  BY ClickType DEF FilesInv, FilesTypeOK, PageClick
<1>5. QED
  BY <1>1, <1>3, <1>4, FilesFrame DEF FilesInv, FilesTypeOK, PageTypeOK

(* A crumb leads to its first place in the path. *)
LEMMA CrumbPath ==
    ASSUME NEW p \in Seq(Folders \cup {Root}), NEW k \in DOMAIN p
    PROVE  LET path == SubSeq(p, 1, SelectInSeq(p, LAMBDA g : g = p[k]))
           IN  path \in Seq(Folders \cup {Root}) /\ path # <<>> /\ Last(path) = p[k]
<1> DEFINE first == SelectInSeq(p, LAMBDA g : g = p[k])
<1>1. k \in 1..Len(p)
  OBVIOUS
<1>2. first = FirstOf(p, p[k])
  BY DEF SelectInSeq, FirstOf
<1> HIDE DEF first
<1>3. first \in 1..Len(p) /\ p[first] = p[k]
  BY <1>1, <1>2, FirstPlace
<1>4. QED
  BY <1>3, PathTo DEF first

LEMMA PlaceStep ==
    ASSUME FilesInv,
           \/ \E c \in Containers : ComponentDidUpdate(c)
           \/ \E f \in Folders : OnFileClick(f)
           \/ \E k \in DOMAIN crumbs : OnBreadcrumbClick(k)
    PROVE  FilesInv'
<1>1. /\ crumbs \in Seq(Folders \cup {Root}) /\ container \in Containers
      /\ searchInProgress \in BOOLEAN
  BY DEF FilesInv, FilesTypeOK, PageTypeOK
<1>2. ASSUME NEW c \in Containers, ComponentDidUpdate(c)
      PROVE  FilesInv'
  <2>1. <<Root>> \in Seq(Folders \cup {Root}) /\ <<Root>> # <<>> /\ Last(<<Root>>) = Root
    BY DEF Last
  <2>2. QED
    BY <1>1, <1>2, <2>1, GoToStep DEF ComponentDidUpdate, searchVars
<1>3. ASSUME NEW f \in Folders, OnFileClick(f)
      PROVE  FilesInv'
  <2>1. /\ Append(crumbs, f) \in Seq(Folders \cup {Root}) /\ Append(crumbs, f) # <<>>
        /\ Last(Append(crumbs, f)) = f
    BY <1>1, PathOn
  <2>2. QED
    BY <1>1, <1>3, <2>1, GoToStep DEF OnFileClick
<1>4. ASSUME NEW k \in DOMAIN crumbs, OnBreadcrumbClick(k)
      PROVE  FilesInv'
  <2> DEFINE path == SubSeq(crumbs, 1, SelectInSeq(crumbs, LAMBDA g : g = crumbs[k]))
  <2>1. crumbs[k] \in Folders \cup {Root}
    BY <1>1
  <2>2. PageClick /\ GoTo(container, crumbs[k], path) /\ UNCHANGED searchVars
    BY <1>4 DEF OnBreadcrumbClick
  <2>3. path \in Seq(Folders \cup {Root}) /\ path # <<>> /\ Last(path) = crumbs[k]
    BY <1>1, CrumbPath
  <2> HIDE DEF path
  <2>4. QED
    BY <1>1, <2>1, <2>2, <2>3, GoToStep DEF searchVars
<1>5. QED
  BY <1>2, <1>3, <1>4

LEMMA LoadStep ==
    ASSUME FilesInv, NEW f \in Folders \cup {Root}, NEW cause, Load(f, cause)
    PROVE  loads' \in Seq(LoadRecord) /\ loadingFiles' = TRUE
<1>1. <<container, f>> \in Places
  BY DEF FilesInv, FilesTypeOK, PageTypeOK, Places
<1>2. QED
  BY <1>1, LoadItemsType DEF Load, FilesInv, FilesTypeOK

LEMMA EndLoadStep ==
    ASSUME FilesInv, NEW k \in DOMAIN loads, LoadAnswered(k) \/ LoadFails(k)
    PROVE  FilesInv'
<1>1. loads[k] \in LoadRecord
  BY FilesParts DEF FilesInv
<1>2. PICK s, cause : EndLoad(k, s, cause) /\ s \in {loads[k].place, <<"nothing">>}
  BY DEF LoadAnswered, LoadFails
<1>3. /\ shown' = s /\ selected' = None /\ loads' = Answered(k) /\ loadingFiles' = FALSE
      /\ UNCHANGED <<gone, container, crumbs, events, itemId, dialogs, requests,
                     searchVars, uploadVars>>
  BY <1>2 DEF EndLoad
<1>4. loads' \in Seq(LoadRecord)
  BY <1>3, AnsweredType DEF FilesInv, FilesTypeOK
<1>5. failures' \in 0..MaxFailures
  BY FailsType, FilesParts DEF LoadAnswered, LoadFails, FilesInv, FilesTypeOK
<1>6. shown' \in Places \cup {<<"nothing">>, <<"results">>}
  BY <1>1, <1>2, <1>3 DEF LoadRecord
<1>7. QED
  BY <1>3, <1>4, <1>5, <1>6, FilesFrame
  DEF FilesInv, FilesTypeOK, PageTypeOK, CrumbMatchesFolder, searchVars

LEMMA DialogOpStep ==
    ASSUME FilesInv,
           \/ \E f \in Folders : Select(f)
           \/ \E o \in Ops : OpenDialog(o) \/ CancelDialog(o) \/ Press(o)
    PROVE  FilesInv'
<1> USE DEF FilesInv, FilesTypeOK, PageTypeOK, CrumbMatchesFolder, pageVars, listVars, searchVars
<1>1. ASSUME NEW f \in Folders, Select(f)
      PROVE  FilesInv'
  BY <1>1, FilesParts, FilesFrame DEF Select
<1>2. ASSUME NEW o \in Ops, OpenDialog(o)
      PROVE  FilesInv'
  <2>1. events' \in 0..MaxEvents
    BY <1>2, ClickType DEF OpenDialog, PageClick
  <2>2. QED
    BY <1>2, <2>1, FilesParts, FilesFrame DEF OpenDialog
<1>3. ASSUME NEW o \in Ops, CancelDialog(o)
      PROVE  FilesInv'
  BY <1>3, FilesParts, FilesFrame DEF CancelDialog
<1>4. ASSUME NEW o \in Ops, Press(o)
      PROVE  FilesInv'
  <2>1. events' \in 0..MaxEvents
    BY <1>4, ClickType DEF Press
  <2> DEFINE new == [op |-> o, done |-> FALSE,
                     at |-> <<container, IF o = "folder" THEN itemId ELSE selected>>]
  <2>2. new \in OpRequests
    BY <1>4 DEF Press, OpRequests, Places
  <2>3. requests' = Append(requests, new)
    BY <1>4 DEF Press
  <2> HIDE DEF new
  <2>4. requests' \in Seq(OpRequests)
    BY <2>2, <2>3
  <2>5. QED
    BY <1>4, <2>1, <2>4, FilesParts, FilesFrame DEF Press
<1>5. QED
  BY <1>1, <1>2, <1>3, <1>4

LEMMA RequestStep ==
    ASSUME FilesInv, NEW k \in DOMAIN requests, Serve(k) \/ OpDone(k) \/ OpFails(k)
    PROVE  FilesInv'
<1> USE DEF FilesInv, FilesTypeOK, PageTypeOK, CrumbMatchesFolder, listVars, searchVars
<1>1. /\ requests \in Seq(OpRequests) /\ k \in 1..Len(requests) /\ requests[k] \in OpRequests
  OBVIOUS
<1>2. RemoveAt(requests, k) \in Seq(OpRequests)
  BY <1>1, RemovedPlace
<1>3. CASE Serve(k)
  <2>1. [requests[k] EXCEPT !.done = TRUE] \in OpRequests
    BY <1>1 DEF OpRequests
  <2>2. requests' = [requests EXCEPT ![k] = [requests[k] EXCEPT !.done = TRUE]]
    BY <1>3 DEF Serve
  <2>3. requests' \in Seq(OpRequests)
    BY <1>1, <2>1, <2>2
  <2>4. gone' \in SUBSET Folders
    BY <1>1, <1>3 DEF Serve, OpRequests
  <2>5. QED
    BY <1>3, <2>3, <2>4, FilesParts, FilesFrame DEF Serve
<1>4. CASE OpDone(k)
  <2>1. loads' \in Seq(LoadRecord) /\ loadingFiles' = TRUE
    BY <1>4, LoadStep DEF OpDone
  <2>2. dialogs' \in SUBSET Ops
    BY <1>1, <1>4 DEF OpDone, OpRequests
  <2>3. QED
    BY <1>2, <1>4, <2>1, <2>2, FilesParts, FilesFrame DEF OpDone
<1>5. CASE OpFails(k)
  <2>1. failures' \in 0..MaxFailures
    BY <1>5, FailsType DEF OpFails
  <2>2. QED
    BY <1>2, <1>5, <2>1, FilesParts, FilesFrame DEF OpFails
<1>6. QED
  BY <1>3, <1>4, <1>5

LEMMA SearchStep ==
    ASSUME FilesInv,
           Refresh \/ HandleSearch \/ SearchAnswered \/ SearchFails \/ HandleCancelSearch
    PROVE  FilesInv'
<1> USE DEF FilesInv, FilesTypeOK, PageTypeOK, CrumbMatchesFolder, listVars, searchVars, opVars
<1>1. CASE Refresh
  <2>1. events' \in 0..MaxEvents
    BY <1>1, ClickType DEF Refresh, BarClick, PageClick
  <2>2. loads' \in Seq(LoadRecord) /\ loadingFiles' = TRUE
    BY <1>1, LoadStep DEF Refresh
  <2>3. QED
    BY <1>1, <2>1, <2>2, FilesParts, FilesFrame DEF Refresh
<1>2. CASE HandleSearch
  <2>1. events' \in 0..MaxEvents
    BY <1>2, ClickType DEF HandleSearch, BarClick, PageClick
  <2>2. QED
    BY <1>2, <2>1, FilesParts, FilesFrame DEF HandleSearch
<1>3. CASE SearchAnswered
  <2>1. searches' \in Nat /\ shown' = <<"results">> /\ selected' = None
    BY <1>3 DEF SearchAnswered
  <2>2. QED
    BY <1>3, <2>1, FilesParts, FilesFrame DEF SearchAnswered
<1>4. CASE SearchFails
  <2>1. failures' \in 0..MaxFailures
    BY <1>4, FailsType DEF SearchFails
  <2>2. QED
    BY <1>4, <2>1, FilesParts, FilesFrame DEF SearchFails
<1>5. CASE HandleCancelSearch
  <2>1. events' \in 0..MaxEvents
    BY <1>5, ClickType DEF HandleCancelSearch, BarClick, PageClick
  <2>2. loads' \in Seq(LoadRecord) /\ loadingFiles' = TRUE
    BY <1>5, LoadStep DEF HandleCancelSearch
  <2>3. QED
    BY <1>5, <2>1, <2>2, FilesParts, FilesFrame DEF HandleCancelSearch
<1>6. QED
  BY <1>1, <1>2, <1>3, <1>4, <1>5

(* How many uploads there are in a set of them. *)
LEMMA UploadCount ==
    ASSUME NEW us \in SUBSET Uploads
    PROVE  /\ IsFiniteSet(us) /\ Cardinality(us) \in Nat /\ (Cardinality(us) = 0 <=> us = {})
           /\ \A u \in us : IsFiniteSet(us \ {u}) /\ Cardinality(us \ {u}) = Cardinality(us) - 1
           /\ \A u \in Uploads \ us : Cardinality(us \cup {u}) = Cardinality(us) + 1
<1>1. IsFiniteSet(us)
  BY PageAssumption, FS_Subset
<1>2. Cardinality(us) \in Nat /\ (Cardinality(us) = 0 <=> us = {})
  BY <1>1, FS_CardinalityType, FS_EmptySet
<1>3. \A u \in us : IsFiniteSet(us \ {u}) /\ Cardinality(us \ {u}) = Cardinality(us) - 1
  BY <1>1, FS_RemoveElement
<1>4. \A u \in Uploads \ us : Cardinality(us \cup {u}) = Cardinality(us) + 1
  BY <1>1, FS_AddElement
<1>5. QED
  BY <1>1, <1>2, <1>3, <1>4

(* Steps of the uploads. *)
LEMMA UploadFrame ==
    ASSUME FilesInv, UNCHANGED <<gone, container, crumbs, shown, itemId, opVars, searchVars>>,
           loads' \in Seq(LoadRecord), loadingFiles' \in BOOLEAN,
           events' \in 0..MaxEvents, failures' \in 0..MaxFailures,
           batch' \in [Uploads -> Batches \cup {0}], place' \in [Batches -> Places],
           counter' \in [Batches -> Int], sent' \in SUBSET Uploads,
           unread' \in SUBSET Uploads, failed' \in SUBSET Uploads, pendingUploads' \in Int,
           overlapped' \in BOOLEAN, UploadInv'
    PROVE  FilesInv'
<1>1. FilesTypeOK'
  BY DEF FilesInv, FilesTypeOK, PageTypeOK, LoadRecord, opVars, searchVars
<1>2. CrumbMatchesFolder'
  BY DEF FilesInv, CrumbMatchesFolder
<1>3. QED
  BY <1>1, <1>2 DEF FilesInv

LEMMA SelectionStep ==
    ASSUME FilesInv, NEW b \in Batches, NEW us \in SUBSET Uploads, OnFilesSelected(b, us)
    PROVE  FilesInv'
<1>1. /\ us # {} /\ (\A u \in us : batch[u] = 0) /\ BarClick
      /\ batch' = [u \in Uploads |-> IF u \in us THEN b ELSE batch[u]]
      /\ place' = [place EXCEPT ![b] = <<container, itemId>>]
      /\ counter' = [counter EXCEPT ![b] = Cardinality(us)]
      /\ pendingUploads' = Cardinality(us)
      /\ overlapped' = (overlapped \/ sent # {} \/ unread # {})
      /\ sent' = sent \cup us
      /\ UNCHANGED <<gone, container, crumbs, listVars, failures, itemId, loadingFiles, opVars,
                     searchVars, unread, failed>>
  BY DEF OnFilesSelected
<1>2. Cardinality(us) \in Nat /\ Cardinality(failed) \in Nat /\ Cardinality({}) = 0
  BY UploadCount, FS_EmptySet DEF FilesInv, FilesTypeOK
<1>3. events' \in 0..MaxEvents
  BY <1>1, ClickType DEF BarClick, PageClick, FilesInv, FilesTypeOK
<1>4. b # 0
  BY FilesAssumption
<1>5. \A u \in us : u \notin sent /\ u \notin failed
  BY <1>1 DEF FilesInv, UploadInv
<1>6. UploadInv'
  <2>1. \A u \in sent' \cup failed' : batch'[u] # 0
    BY <1>1, <1>4 DEF FilesInv, UploadInv, FilesTypeOK
  <2>2. sent' \cap failed' = {}
    BY <1>1, <1>5 DEF FilesInv, UploadInv
  <2>3. ASSUME ~overlapped'
        PROVE  /\ \A u, v \in sent' : batch'[u] = batch'[v]
               /\ \A u \in sent' : /\ counter'[batch'[u]] >= Cardinality(sent')
                                   /\ counter'[batch'[u]] <= Cardinality(sent') + Cardinality(failed')
               /\ pendingUploads' >= Cardinality(sent') - Cardinality(unread')
               /\ pendingUploads' <= Cardinality(sent') + Cardinality(failed')
    <3>1. sent' = us /\ unread' = {} /\ failed' = failed
      BY <1>1, <2>3
    <3>2. \A u \in us : batch'[u] = b
      BY <1>1
    <3>3. counter'[b] = Cardinality(us)
      BY <1>1 DEF FilesInv, FilesTypeOK
    <3>4. \A u \in sent' : batch'[u] = b /\ counter'[batch'[u]] = Cardinality(us)
      BY <3>1, <3>2, <3>3
    <3>5. pendingUploads' = Cardinality(us)
      BY <1>1
    <3>6. /\ Cardinality(sent') = Cardinality(us) /\ Cardinality(unread') = 0
          /\ Cardinality(failed') = Cardinality(failed)
      BY <1>2, <3>1
    <3>7. QED
      BY <1>2, <3>4, <3>5, <3>6
  <2>4. QED
    BY <2>1, <2>2, <2>3 DEF UploadInv, UploadsCounted
<1>7. /\ batch' \in [Uploads -> Batches \cup {0}] /\ place' \in [Batches -> Places]
      /\ counter' \in [Batches -> Int] /\ sent' \in SUBSET Uploads /\ overlapped' \in BOOLEAN
      /\ pendingUploads' \in Int
  BY <1>1, <1>2, FilesParts DEF FilesInv, FilesTypeOK
<1>8. QED
  BY <1>1, <1>3, <1>6, <1>7, UploadFrame, FilesParts DEF FilesInv, FilesTypeOK, PageTypeOK, listVars

LEMMA ReadFailsStep ==
    ASSUME FilesInv, NEW u \in Uploads, ReadFails(u)
    PROVE  FilesInv'
<1>1. /\ u \in sent \ unread /\ Fails(FALSE)
      /\ unread' = unread \cup {u} /\ pendingUploads' = pendingUploads - 1
      /\ UNCHANGED <<gone, container, crumbs, listVars, events, itemId, loadingFiles, opVars,
                     searchVars, batch, place, counter, sent, failed, overlapped>>
  BY DEF ReadFails
<1>2. failures' \in 0..MaxFailures
  BY <1>1, FailsType DEF FilesInv, FilesTypeOK
<1>3. /\ Cardinality(sent) \in Nat /\ Cardinality(failed) \in Nat /\ Cardinality(unread) \in Nat
      /\ Cardinality(unread') = Cardinality(unread) + 1
      /\ pendingUploads \in Int
  BY <1>1, UploadCount DEF FilesInv, FilesTypeOK
<1>4. UploadsCounted'
  BY <1>1, <1>3 DEF FilesInv, UploadInv, UploadsCounted
<1>5. UploadInv'
  BY <1>1, <1>4 DEF FilesInv, UploadInv
<1>6. QED
  BY <1>1, <1>2, <1>3, <1>5, UploadFrame, FilesParts DEF FilesInv, FilesTypeOK, PageTypeOK, listVars

LEMMA UploadDoneStep ==
    ASSUME FilesInv, NEW u \in Uploads, UploadDone(u)
    PROVE  FilesInv'
<1> DEFINE n == counter[batch[u]] - 1
<1>1. /\ u \in sent /\ sent' = sent \ {u}
      /\ counter' = [counter EXCEPT ![batch[u]] = n] /\ pendingUploads' = n
      /\ \/ Load(place[batch[u]][2], "upload")
         \/ UNCHANGED <<loads, causes, loadingFiles>>
      /\ UNCHANGED <<gone, container, crumbs, shown, events, failures, itemId, opVars, searchVars,
                     batch, place, unread, failed, overlapped>>
  BY DEF UploadDone
<1>2. /\ batch[u] \in Batches /\ counter[batch[u]] \in Int /\ n \in Int
      /\ place[batch[u]][2] \in Folders \cup {Root}
  BY <1>1 DEF FilesInv, UploadInv, FilesTypeOK, Places
<1>3. loads' \in Seq(LoadRecord) /\ loadingFiles' \in BOOLEAN
  BY <1>1, <1>2, LoadStep, FilesParts DEF FilesInv, FilesTypeOK
<1>4. /\ Cardinality(sent) \in Nat /\ Cardinality(failed) \in Nat /\ Cardinality(unread) \in Nat
      /\ Cardinality(sent') = Cardinality(sent) - 1
  BY <1>1, UploadCount DEF FilesInv, FilesTypeOK
<1>5. ASSUME ~overlapped'
      PROVE  /\ \A v, w \in sent' : batch'[v] = batch'[w]
             /\ \A v \in sent' : /\ counter'[batch'[v]] >= Cardinality(sent')
                                 /\ counter'[batch'[v]] <= Cardinality(sent') + Cardinality(failed')
             /\ pendingUploads' >= Cardinality(sent') - Cardinality(unread')
             /\ pendingUploads' <= Cardinality(sent') + Cardinality(failed')
  <2>1. ~overlapped /\ \A v \in sent' : v \in sent
    BY <1>1, <1>5
  <2>2. \A v \in sent : batch[v] = batch[u]
    BY <1>1, <2>1 DEF FilesInv, UploadInv
  <2>3. n >= Cardinality(sent') /\ n <= Cardinality(sent') + Cardinality(failed)
    BY <1>1, <1>2, <1>4, <2>1 DEF FilesInv, UploadInv
  <2>4. \A v \in sent' : counter'[batch'[v]] = n
    BY <1>1, <1>2, <2>1, <2>2 DEF FilesInv, FilesTypeOK
  <2> HIDE DEF n
  <2>5. QED
    BY <1>1, <1>2, <1>4, <2>1, <2>2, <2>3, <2>4
<1>6. UploadInv'
  BY <1>1, <1>5 DEF FilesInv, UploadInv, UploadsCounted
<1>7. counter' \in [Batches -> Int]
  BY <1>1, <1>2 DEF FilesInv, FilesTypeOK
<1>8. QED
  BY <1>1, <1>2, <1>3, <1>6, <1>7, UploadFrame, FilesParts DEF FilesInv, FilesTypeOK

LEMMA UploadFailsStep ==
    ASSUME FilesInv, NEW u \in Uploads, UploadFails(u)
    PROVE  FilesInv'
<1>1. /\ u \in sent /\ Fails(~Valid(place[batch[u]]))
      /\ sent' = sent \ {u} /\ failed' = failed \cup {u} /\ pendingUploads' = pendingUploads - 1
      /\ UNCHANGED <<gone, container, crumbs, listVars, events, itemId, loadingFiles, opVars,
                     searchVars, batch, place, counter, unread, overlapped>>
  BY DEF UploadFails
<1>2. failures' \in 0..MaxFailures
  BY <1>1, FailsType DEF FilesInv, FilesTypeOK
<1>3. u \notin failed
  BY <1>1 DEF FilesInv, UploadInv
<1>4. /\ Cardinality(sent) \in Nat /\ Cardinality(failed) \in Nat /\ Cardinality(unread) \in Nat
      /\ Cardinality(sent') = Cardinality(sent) - 1
      /\ Cardinality(failed') = Cardinality(failed) + 1
      /\ pendingUploads \in Int
  BY <1>1, <1>3, UploadCount DEF FilesInv, FilesTypeOK
<1>5. ASSUME ~overlapped'
      PROVE  /\ \A v, w \in sent' : batch'[v] = batch'[w]
             /\ \A v \in sent' : /\ counter'[batch'[v]] >= Cardinality(sent')
                                 /\ counter'[batch'[v]] <= Cardinality(sent') + Cardinality(failed')
             /\ pendingUploads' >= Cardinality(sent') - Cardinality(unread')
             /\ pendingUploads' <= Cardinality(sent') + Cardinality(failed')
  <2>1. ~overlapped /\ \A v \in sent' : v \in sent
    BY <1>1, <1>5
  <2>2. \A v \in sent : counter[batch[v]] \in Int
    BY DEF FilesInv, UploadInv, FilesTypeOK
  <2>3. \A v \in sent : /\ counter[batch[v]] >= Cardinality(sent)
                        /\ counter[batch[v]] <= Cardinality(sent) + Cardinality(failed)
    BY <2>1 DEF FilesInv, UploadInv
  <2>4. \A v \in sent' : /\ counter'[batch'[v]] >= Cardinality(sent')
                         /\ counter'[batch'[v]] <= Cardinality(sent') + Cardinality(failed')
    BY <1>1, <1>4, <2>1, <2>2, <2>3
  <2>5. \A v, w \in sent' : batch'[v] = batch'[w]
    BY <1>1, <2>1 DEF FilesInv, UploadInv
  <2>6. /\ pendingUploads >= Cardinality(sent) - Cardinality(unread)
        /\ pendingUploads <= Cardinality(sent) + Cardinality(failed)
    BY <2>1 DEF FilesInv, UploadInv, UploadsCounted
  <2>7. /\ pendingUploads' >= Cardinality(sent') - Cardinality(unread')
        /\ pendingUploads' <= Cardinality(sent') + Cardinality(failed')
    <3>1. pendingUploads' = pendingUploads - 1 /\ unread' = unread
      BY <1>1
    <3>2. QED
      BY <1>4, <2>6, <3>1
  <2>8. QED
    BY <2>4, <2>5, <2>7
<1>6. UploadInv'
  <2>1. \A v \in sent' \cup failed' : batch'[v] # 0
    BY <1>1 DEF FilesInv, UploadInv
  <2>2. sent' \cap failed' = {}
    BY <1>1 DEF FilesInv, UploadInv
  <2>3. QED
    BY <1>5, <2>1, <2>2 DEF UploadInv, UploadsCounted
<1>7. failed' \in SUBSET Uploads /\ sent' \in SUBSET Uploads
  BY <1>1 DEF FilesInv, FilesTypeOK
<1>8. QED
  BY <1>1, <1>2, <1>4, <1>6, <1>7, UploadFrame, FilesParts
  DEF FilesInv, FilesTypeOK, PageTypeOK, listVars

LEMMA FilesInvariant == FilesSpec => []FilesInv
<1>1. FilesInit => FilesInv
  <2> SUFFICES ASSUME FilesInit
               PROVE  FilesInv
    OBVIOUS
  <2>1. /\ gone = {} /\ container \in Containers /\ crumbs = <<Root>>
        /\ shown = <<"nothing">>
        /\ loads = << [place |-> <<container, Root>>, late |-> FALSE, closing |-> None] >>
        /\ events = 0 /\ failures = 0
    BY DEF FilesInit, PageInit
  <2>2. loads \in Seq(LoadRecord)
    BY <2>1 DEF LoadRecord, Places
  <2>3. PageTypeOK
    BY <2>1, <2>2, PageAssumption DEF PageTypeOK, LoadRecord
  <2>4. /\ itemId \in Folders \cup {Root} /\ loadingFiles \in BOOLEAN
        /\ selected \in Folders \cup {None} /\ dialogs \subseteq Ops
        /\ searchInProgress \in BOOLEAN /\ searchQueryInProgress \in BOOLEAN /\ searches \in Nat
    BY DEF FilesInit
  <2>5. requests \in Seq(OpRequests)
    <3>1. requests = <<>>
      BY DEF FilesInit
    <3>2. QED
      BY <3>1
  <2>6. /\ batch \in [Uploads -> Batches \cup {0}] /\ place \in [Batches -> Places]
        /\ counter \in [Batches -> Int] /\ sent \subseteq Uploads
        /\ unread \subseteq Uploads /\ failed \subseteq Uploads
        /\ pendingUploads \in Int /\ overlapped \in BOOLEAN
    <3>1. <<container, Root>> \in Places
      BY <2>1 DEF Places
    <3>2. /\ batch = [u \in Uploads |-> 0] /\ place = [b \in Batches |-> <<container, Root>>]
          /\ counter = [b \in Batches |-> 0]
          /\ sent = {} /\ unread = {} /\ failed = {} /\ pendingUploads = 0
          /\ overlapped \in BOOLEAN
      BY DEF FilesInit
    <3>3. place \in [Batches -> Places]
      BY <3>1, <3>2
    <3>4. batch \in [Uploads -> Batches \cup {0}] /\ counter \in [Batches -> Int]
      BY <3>2
    <3>5. QED
      BY <3>2, <3>3, <3>4
  <2>7. CrumbMatchesFolder
    BY <2>1 DEF FilesInit, CrumbMatchesFolder, Last
  <2>8. UploadInv
    BY FS_EmptySet DEF FilesInit, UploadInv, UploadsCounted
  <2>9. QED
    BY <2>3, <2>4, <2>5, <2>6, <2>7, <2>8 DEF FilesInv, FilesTypeOK
<1>2. FilesInv /\ [FilesNext]_filesVars => FilesInv'
  <2> SUFFICES ASSUME FilesInv, [FilesNext]_filesVars
               PROVE  FilesInv'
    OBVIOUS
  <2>1. CASE \/ \E c \in Containers : ComponentDidUpdate(c)
             \/ \E f \in Folders : OnFileClick(f)
             \/ \E k \in DOMAIN crumbs : OnBreadcrumbClick(k)
    BY <2>1, PlaceStep
  <2>2. ASSUME NEW k \in DOMAIN loads, LoadAnswered(k) \/ LoadFails(k)
        PROVE  FilesInv'
    BY <2>2, EndLoadStep
  <2>3. CASE \/ \E f \in Folders : Select(f)
             \/ \E o \in Ops : OpenDialog(o) \/ CancelDialog(o) \/ Press(o)
    BY <2>3, DialogOpStep
  <2>4. ASSUME NEW k \in DOMAIN requests, Serve(k) \/ OpDone(k) \/ OpFails(k)
        PROVE  FilesInv'
    BY <2>4, RequestStep
  <2>5. CASE Refresh \/ HandleSearch \/ SearchAnswered \/ SearchFails \/ HandleCancelSearch
    BY <2>5, SearchStep
  <2>6. ASSUME NEW b \in Batches, NEW us \in SUBSET Uploads, OnFilesSelected(b, us)
        PROVE  FilesInv'
    BY <2>6, SelectionStep
  <2>7. ASSUME NEW u \in Uploads, ReadFails(u) \/ UploadDone(u) \/ UploadFails(u)
        PROVE  FilesInv'
    BY <2>7, ReadFailsStep, UploadDoneStep, UploadFailsStep
  <2>8. CASE UNCHANGED filesVars
    BY <2>8, FilesParts, FilesFrame
    DEF filesVars, pageVars, listVars, opVars, searchVars, FilesInv, FilesTypeOK, PageTypeOK,
        CrumbMatchesFolder
  <2>9. QED
    BY <2>1, <2>2, <2>3, <2>4, <2>5, <2>6, <2>7, <2>8 DEF FilesNext
<1>3. QED
  BY <1>1, <1>2, PTL DEF FilesSpec

(* All variables of FilesPage keep their types. *)
THEOREM FilesTypes == FilesSpec => []FilesTypeOK
<1>1. FilesInv => FilesTypeOK
  BY DEF FilesInv
<1>2. QED
  BY <1>1, FilesInvariant, PTL

(* The folder of uploads and of new folders is the one that the breadcrumb *)
(* ends with (files.js:404-416, 580-613).                                  *)
THEOREM CrumbsMatchFolder == FilesSpec => []CrumbMatchesFolder
<1>1. FilesInv => CrumbMatchesFolder
  BY DEF FilesInv
<1>2. QED
  BY <1>1, FilesInvariant, PTL

(* The count of pending uploads is off by those that failed, at most       *)
(* (files.js:816-846).                                                     *)
THEOREM UploadCountHonest == FilesSpec => []UploadsCounted
<1>1. FilesInv => UploadsCounted
  BY DEF FilesInv, UploadInv
<1>2. QED
  BY <1>1, FilesInvariant, PTL

(* What the screen shows is the page's place, or a search covers it, or it *)
(* is coming, unless something broke it.                                   *)
FilesSettled ==
    causes \cap {"overtaken", "loadFailed", "refresh", "upload", "lateResults"} = {}
        => PlaceComing \/ (Overtaken /\ (searchInProgress \/ shown = Here))

LEMMA FilesSettledStep ==
    ASSUME FilesInv, FilesSettled, [FilesNext]_filesVars
    PROVE  FilesSettled'
<1> USE DEF listVars, searchVars
<1>1. PageTypeOK /\ crumbs \in Seq(Folders \cup {Root}) /\ itemId = Last(crumbs)
  BY DEF FilesInv, FilesTypeOK, PageTypeOK, CrumbMatchesFolder
<1>2. ASSUME UNCHANGED <<container, crumbs, shown, loads, causes>>,
             searchInProgress => searchInProgress'
      PROVE  FilesSettled'
  BY <1>2 DEF FilesSettled, PlaceComing, Overtaken, Here
<1>3. ASSUME NEW p, NEW cause, NEW closing, LoadItems(p, Here', cause, closing),
             p = Here' \/ cause \in {"upload", "refresh"}
      PROVE  FilesSettled'
  BY <1>1, <1>3, AskedPlace DEF FilesSettled
<1>4. ASSUME NEW f, NEW cause, Load(f, cause), UNCHANGED <<container, crumbs>>,
             f = itemId \/ cause \in {"upload", "refresh"}
      PROVE  FilesSettled'
  <2>1. Here' = Here /\ (f = itemId => <<container, f>> = Here)
    BY <1>1, <1>4 DEF Here
  <2>2. QED
    BY <1>3, <1>4, <2>1 DEF Load
<1>5. ASSUME NEW c, NEW f, NEW path, GoTo(c, f, path), f = Last(path)
      PROVE  FilesSettled'
  BY <1>3, <1>5 DEF GoTo, Here
<1>6. ASSUME NEW c \in Containers, ComponentDidUpdate(c)
      PROVE  FilesSettled'
  <2>1. Last(<<Root>>) = Root
    BY DEF Last
  <2>2. QED
    BY <1>5, <1>6, <2>1 DEF ComponentDidUpdate
<1>7. ASSUME NEW f \in Folders, OnFileClick(f)
      PROVE  FilesSettled'
  <2>1. Last(Append(crumbs, f)) = f
    BY <1>1, PathOn
  <2>2. QED
    BY <1>5, <1>7, <2>1 DEF OnFileClick
<1>8. ASSUME NEW k \in DOMAIN crumbs, OnBreadcrumbClick(k)
      PROVE  FilesSettled'
  <2>1. Last(SubSeq(crumbs, 1, SelectInSeq(crumbs, LAMBDA g : g = crumbs[k]))) = crumbs[k]
    BY <1>1, CrumbPath
  <2>2. QED
    BY <1>5, <1>8, <2>1 DEF OnBreadcrumbClick
<1>9. ASSUME NEW k \in DOMAIN loads, LoadAnswered(k) \/ LoadFails(k)
      PROVE  FilesSettled'
  <2>1. PICK s, cause :
            /\ EndLoad(k, s, cause)
            /\ cause = {"loadFailed"} \/ s = loads[k].place
    BY <1>9 DEF LoadAnswered, LoadFails
  <2>2. /\ shown' = s /\ loads' = Answered(k) /\ UNCHANGED <<container, crumbs>>
        /\ causes' = causes \cup cause \cup (IF loads[k].late THEN {"overtaken"} ELSE {})
    BY <2>1 DEF EndLoad
  <2>3. SUFFICES ASSUME causes' \cap {"overtaken", "loadFailed", "refresh", "upload", "lateResults"} = {}
                 PROVE  PlaceComing' \/ (Overtaken' /\ shown' = Here')
    BY DEF FilesSettled
  <2>4. ~loads[k].late /\ s = loads[k].place
    BY <2>1, <2>2, <2>3
  <2>5. PlaceComing \/ Overtaken
    BY <2>2, <2>3 DEF FilesSettled
  <2>6. Here' = Here
    BY <2>2 DEF Here
  <2>7. QED
    BY <1>1, <2>2, <2>4, <2>5, <2>6, AnsweredPlace
<1>10. CASE \/ \E f \in Folders : Select(f)
            \/ \E o \in Ops : OpenDialog(o) \/ CancelDialog(o) \/ Press(o)
  BY <1>2, <1>10 DEF Select, OpenDialog, CancelDialog, Press, pageVars
<1>11. CASE \E k \in DOMAIN requests : Serve(k) \/ OpFails(k)
  BY <1>2, <1>11 DEF Serve, OpFails
<1>12. CASE Refresh \/ HandleCancelSearch \/ \E k \in DOMAIN requests : OpDone(k)
  BY <1>4, <1>12 DEF Refresh, HandleCancelSearch, OpDone
<1>13. CASE HandleSearch \/ SearchFails
  BY <1>2, <1>13 DEF HandleSearch, SearchFails
<1>14. CASE SearchAnswered
  <2>1. /\ UNCHANGED <<container, crumbs, loads, searchInProgress>>
        /\ causes' = IF searchInProgress THEN causes ELSE causes \cup {"lateResults"}
    BY <1>14 DEF SearchAnswered
  <2>2. QED
    BY <2>1 DEF FilesSettled, PlaceComing, Overtaken, Here
<1>15. CASE \/ \E b \in Batches, us \in SUBSET Uploads : OnFilesSelected(b, us)
            \/ \E u \in Uploads : ReadFails(u) \/ UploadFails(u)
  BY <1>2, <1>15 DEF OnFilesSelected, ReadFails, UploadFails
<1>16. ASSUME NEW u \in Uploads, UploadDone(u)
       PROVE  FilesSettled'
  <2>1. UNCHANGED <<container, crumbs, shown, searchInProgress>>
    BY <1>16 DEF UploadDone
  <2>2. Load(place[batch[u]][2], "upload") \/ UNCHANGED <<loads, causes, loadingFiles>>
    BY <1>16 DEF UploadDone
  <2>3. QED
    BY <1>2, <1>4, <2>1, <2>2
<1>17. CASE UNCHANGED filesVars
  BY <1>2, <1>17 DEF filesVars, pageVars
<1>18. QED
  BY <1>6, <1>7, <1>8, <1>9, <1>10, <1>11, <1>12, <1>13, <1>14, <1>15, <1>16, <1>17 DEF FilesNext

(* With no listing under way and no search the page shows its place,       *)
(* whatever the order of the answers was, unless an answer was overtaken   *)
(* or failed, the page was refreshed, an upload was made elsewhere or      *)
(* results came late (files.js:527-613, 631-643, 724-846).                 *)
THEOREM FilesShowTheirPlace == FilesSpec => []FilesShown
<1>1. FilesInit => FilesSettled
  BY DEF FilesInit, PageInit, FilesSettled, PlaceComing, Here, Last
<1>2. FilesInv /\ FilesSettled /\ [FilesNext]_filesVars => FilesSettled'
  BY FilesSettledStep
<1>3. FilesInv /\ FilesSettled => FilesShown
  BY DEF FilesSettled, FilesShown, PlaceComing
<1>4. QED
  BY <1>1, <1>2, <1>3, FilesInvariant, PTL DEF FilesSpec

-----------------------------------------------------------------------------
(* SpaPermissions.  While nothing speaks against the list, it is settled   *)
(* but for answers that have been overtaken, or the last request is for    *)
(* the container that is shown.                                            *)
ListSound ==
    ~unsure => \/ /\ permissions \in {NoVault, selectedContainer}
                  /\ \A k \in DOMAIN listings : listings[k].late
               \/ /\ listings # <<>>
                  /\ ~listings[Len(listings)].late
                  /\ listings[Len(listings)].of = selectedContainer

(* What needs the view is there with it only, and the row to delete is of  *)
(* its container or was chosen hastily.                                    *)
ViewSound ==
    /\ ~showPermissions => permissions = NoVault /\ listings = <<>>
    /\ showPermissions => selectedContainer # NoVault
    /\ showAddDialog \/ showDeleteDialog => showPermissions
    /\ \A k \in DOMAIN calls : calls[k].mounted => showPermissions
    /\ showDeleteDialog => /\ selectedPermission # NoVault
                           /\ ~hasty => selectedPermission = selectedContainer

SpaInv == SpaTypeOK /\ ListSound /\ ViewSound /\ DeletesOwn

Records == [of : Vaults, late : BOOLEAN]

LEMMA LoadOne ==
    ASSUME listings \in Seq(Records), NEW c \in Vaults, NEW here, LoadPermissions(<<c>>, here)
    PROVE  /\ listings' \in Seq(Records) /\ listings' # <<>>
           /\ listings'[Len(listings')] = Listing(c)
           /\ unsure' = (c # here)
<1> DEFINE more == [j \in DOMAIN <<c>> |-> Listing(<<c>>[j])]
<1>1. DOMAIN <<c>> = 1..1 /\ more = <<Listing(c)>> /\ Last(<<c>>) = c
  BY DEF Last
<1>2. Listing(c) \in Records
  BY DEF Listing, Records
<1>3. listings' = Append(listings, Listing(c))
  BY <1>1, <1>2 DEF LoadPermissions
<1>4. QED
  BY <1>1, <1>2, <1>3 DEF LoadPermissions

LEMMA LoadTwo ==
    ASSUME listings \in Seq(Records), NEW b \in Vaults, NEW c \in Vaults, NEW here,
           LoadPermissions(<<b, c>>, here)
    PROVE  /\ listings' \in Seq(Records) /\ listings' # <<>>
           /\ listings'[Len(listings')] = Listing(c)
           /\ unsure' = (c # here)
<1> DEFINE more == [j \in DOMAIN <<b, c>> |-> Listing(<<b, c>>[j])]
<1>1. DOMAIN <<b, c>> = 1..2 /\ more = <<Listing(b), Listing(c)>> /\ Last(<<b, c>>) = c
  BY DEF Last
<1>2. Listing(b) \in Records /\ Listing(c) \in Records
  BY DEF Listing, Records
<1>3. listings' = Append(Append(listings, Listing(b)), Listing(c))
  BY <1>1, <1>2 DEF LoadPermissions
<1>4. QED
  BY <1>1, <1>2, <1>3 DEF LoadPermissions

LEMMA RenderSound ==
    ASSUME SpaInv, NEW c, showPermissions => c \in Vaults, selectedContainer' = c,
           permissions' = permissions, showPermissions' = showPermissions,
           Render(<<c>>) \/ Render(<<selectedContainer, c>>)
    PROVE  /\ listings' \in Seq(Records) /\ unsure' \in BOOLEAN /\ ListSound'
           /\ ~showPermissions' => listings' = <<>>
<1>1. listings \in Seq(Records) /\ unsure \in BOOLEAN
  BY DEF SpaInv, SpaTypeOK, Records
<1>2. CASE ~showPermissions
  <2>1. listings' = listings /\ unsure' = unsure /\ listings = <<>> /\ permissions = NoVault
    BY <1>2 DEF Render, SpaInv, ViewSound
  <2>2. QED
    BY <1>1, <1>2, <2>1 DEF ListSound
<1>3. CASE showPermissions
  <2>1. c \in Vaults /\ selectedContainer \in Vaults
    BY <1>3 DEF SpaInv, SpaTypeOK, ViewSound
  <2>2. Last(<<c>>) = c /\ Last(<<selectedContainer, c>>) = c
    BY DEF Last
  <2>3. LoadPermissions(<<c>>, c) \/ LoadPermissions(<<selectedContainer, c>>, c)
    BY <1>3, <2>2 DEF Render
  <2>4. /\ listings' \in Seq(Records) /\ listings' # <<>>
        /\ listings'[Len(listings')] = Listing(c) /\ unsure' = FALSE
    BY <1>1, <2>1, <2>3, LoadOne, LoadTwo
  <2>5. Listing(c).of = c /\ ~Listing(c).late
    BY DEF Listing
  <2>6. ListSound'
    BY <2>4, <2>5 DEF ListSound
  <2>7. QED
    BY <1>3, <2>4, <2>6
<1>4. QED
  BY <1>2, <1>3

LEMMA EndRowsSound ==
    ASSUME SpaInv, NEW k \in DOMAIN listings, NEW u \in BOOLEAN, EndRows(k, u),
           \/ permissions' = listings[k].of /\ u = listings[k].late
           \/ permissions' = NoVault /\ u = listings[k].late
           \/ permissions' = permissions /\ u = TRUE
    PROVE  SpaInv'
<1> DEFINE marked == [j \in DOMAIN listings |->
                         IF j < k THEN [listings[j] EXCEPT !.late = TRUE] ELSE listings[j]]
           n == Len(listings)
<1>1. listings \in Seq(Records) /\ n \in Nat /\ DOMAIN listings = 1..n /\ k \in 1..n
  BY DEF SpaInv, SpaTypeOK, Records
<1>2. \A j \in 1..n : /\ listings[j] \in Records
                      /\ marked[j] = IF j < k THEN [listings[j] EXCEPT !.late = TRUE] ELSE listings[j]
  BY <1>1
<1>3. \A j \in 1..n : /\ marked[j] \in Records
                      /\ j < k => marked[j].late
                      /\ ~(j < k) => marked[j] = listings[j]
  <2>1. \A r \in Records : [r EXCEPT !.late = TRUE] \in Records /\ [r EXCEPT !.late = TRUE].late
    BY DEF Records
  <2> HIDE DEF marked
  <2>2. ASSUME NEW j \in 1..n
        PROVE  /\ marked[j] \in Records
               /\ j < k => marked[j].late
               /\ ~(j < k) => marked[j] = listings[j]
    <3>1. CASE j < k
      <4>1. marked[j] = [listings[j] EXCEPT !.late = TRUE] /\ listings[j] \in Records
        BY <1>2, <3>1
      <4>2. QED
        BY <2>1, <3>1, <4>1
    <3>2. CASE ~(j < k)
      <4>1. marked[j] = listings[j] /\ listings[j] \in Records
        BY <1>2, <3>2
      <4>2. QED
        BY <3>2, <4>1
    <3>3. QED
      BY <3>1, <3>2
  <2>3. QED
    BY <2>2
<1>4. marked \in Seq(Records) /\ Len(marked) = n
  <2>1. \A j \in DOMAIN listings : /\ listings[j] \in Records
                                  /\ [listings[j] EXCEPT !.late = TRUE] \in Records
    BY <1>1, <1>2, <1>3 DEF Records
  <2>2. QED
    BY <1>1, <2>1
<1>5. listings' = RemoveAt(marked, k)
  BY DEF EndRows
<1> HIDE DEF marked
<1>6. /\ listings' \in Seq(Records) /\ Len(listings') = n - 1
      /\ \A j \in 1..(n - 1) : listings'[j] = IF j < k THEN marked[j] ELSE marked[j + 1]
  BY <1>1, <1>4, <1>5, RemovedPlace
<1>7. UNCHANGED <<containerVars, showPermissions, showAddDialog, rowVars, calls, clicks>>
      /\ unsure' = (unsure \/ u)
  BY DEF EndRows
<1>8. permissions' \in Vaults \cup {NoVault} /\ showPermissions
  <2>1. listings[k] \in Records /\ listings # <<>>
    BY <1>1, <1>2
  <2>2. listings[k].of \in Vaults
    BY <2>1 DEF Records
  <2>3. QED
    BY <2>1, <2>2 DEF SpaInv, SpaTypeOK, ViewSound
<1>9. SpaTypeOK'
  BY <1>6, <1>7, <1>8 DEF SpaInv, SpaTypeOK, Records, containerVars, rowVars
<1>10. ViewSound' /\ DeletesOwn'
  BY <1>7, <1>8 DEF SpaInv, ViewSound, DeletesOwn, containerVars, rowVars
<1>11. ASSUME ~unsure' PROVE ListSound'
  <2>1. ~unsure /\ ~u /\ ~listings[k].late /\ selectedContainer' = selectedContainer
    BY <1>7, <1>11 DEF SpaInv, SpaTypeOK, containerVars
  <2>2. /\ ~listings[n].late /\ listings[n].of = selectedContainer
        /\ permissions' = listings[k].of \/ permissions' = NoVault
    BY <1>1, <2>1 DEF SpaInv, ListSound
  <2>3. CASE k = n
    <3>1. ASSUME NEW j \in 1..(n - 1) PROVE listings'[j].late
      <4>1. j < k /\ j \in 1..n
        BY <1>1, <2>3
      <4>2. QED
        BY <1>3, <1>6, <4>1
    <3>2. DOMAIN listings' = 1..(n - 1)
      BY <1>1, <1>6
    <3>3. QED
      BY <2>1, <2>2, <2>3, <3>1, <3>2 DEF ListSound
  <2>4. CASE k # n
    <3>1. n - 1 \in 1..(n - 1) /\ ~(n - 1 < k) /\ n - 1 + 1 = n
      BY <1>1, <2>4
    <3>2. listings'[n - 1] = marked[n] /\ listings' # <<>> /\ ~(n < k) /\ n \in 1..n
      BY <1>1, <1>6, <3>1
    <3>3. QED
      BY <1>3, <1>6, <2>1, <2>2, <3>2 DEF ListSound
  <2>5. QED
    BY <2>3, <2>4
<1>12. QED
  BY <1>9, <1>10, <1>11 DEF SpaInv, ListSound

(* What Containers does to itself and to the view it has. *)
LEMMA ContainersStepSound ==
    ASSUME SpaInv, NEW c \in Vaults \cup {NoVault}, selectedContainer' = c,
           showPermissions => c # NoVault,
           \/ Render(<<c>>) /\ UNCHANGED rowVars /\ (c # selectedContainer => ~showDeleteDialog)
           \/ /\ Render(<<selectedContainer, c>>)
              /\ hasty' = (hasty \/ showDeleteDialog)
              /\ UNCHANGED <<selectedPermission, showDeleteDialog>>,
           UNCHANGED <<firstVaults, showPermissions, permissions, showAddDialog, calls>>,
           asking' \in BOOLEAN, containers' \subseteq Vaults, hideDialog' \in BOOLEAN,
           creations' \in 0..MaxCreations, clicks' \in 0..MaxClicks
    PROVE  SpaInv'
<1>1. /\ listings' \in Seq(Records) /\ unsure' \in BOOLEAN /\ ListSound'
      /\ ~showPermissions' => listings' = <<>>
  BY RenderSound
<1>2. SpaTypeOK'
  BY <1>1 DEF SpaInv, SpaTypeOK, Records, rowVars
<1>3. ViewSound'
  BY <1>1 DEF SpaInv, SpaTypeOK, ViewSound, rowVars
<1>4. DeletesOwn'
  BY DEF SpaInv, DeletesOwn
<1>5. QED
  BY <1>1, <1>2, <1>3, <1>4 DEF SpaInv

(* A dialog of the view is shown or closed. *)
LEMMA DialogSound ==
    ASSUME SpaInv, UNCHANGED <<containerVars, showPermissions, permissions, listings, unsure>>,
           clicks' \in 0..MaxClicks, showAddDialog' \in BOOLEAN, showDeleteDialog' \in BOOLEAN,
           selectedPermission' \in Vaults \cup {NoVault}, hasty' \in BOOLEAN,
           showAddDialog' \/ showDeleteDialog' => showPermissions,
           showDeleteDialog' => /\ selectedPermission' # NoVault
                                /\ ~hasty' => selectedPermission' = selectedContainer,
           calls' \in Seq([at : Vaults, of : Vaults, hasty : BOOLEAN, mounted : BOOLEAN]),
           \A k \in DOMAIN calls' : /\ calls'[k].mounted => showPermissions
                                    /\ ~calls'[k].hasty => calls'[k].of = calls'[k].at
    PROVE  SpaInv'
<1>1. SpaTypeOK'
  BY DEF SpaInv, SpaTypeOK, containerVars
<1>2. ListSound'
  BY DEF SpaInv, ListSound, containerVars
<1>3. ViewSound'
  BY DEF SpaInv, ViewSound, containerVars
<1>4. DeletesOwn'
  BY DEF DeletesOwn
<1>5. QED
  BY <1>1, <1>2, <1>3, <1>4 DEF SpaInv

CallRecords == [at : Vaults, of : Vaults, hasty : BOOLEAN, mounted : BOOLEAN]

LEMMA CallSound ==
    ASSUME SpaInv, NEW c \in Vaults, NEW of \in Vaults, NEW isHasty \in BOOLEAN,
           Call(c, of, isHasty), showPermissions, ~isHasty => of = c
    PROVE  /\ calls' \in Seq(CallRecords)
           /\ \A k \in DOMAIN calls' : /\ calls'[k].mounted => showPermissions
                                       /\ ~calls'[k].hasty => calls'[k].of = calls'[k].at
<1> DEFINE r == [at |-> c, of |-> of, hasty |-> isHasty, mounted |-> TRUE]
<1>1. calls \in Seq(CallRecords) /\ r \in CallRecords
  BY DEF SpaInv, SpaTypeOK, CallRecords
<1>2. r.mounted /\ (~r.hasty => r.of = r.at)
  OBVIOUS
<1>3. calls' = Append(calls, r)
  BY DEF Call
<1> HIDE DEF r
<1>4. /\ calls' \in Seq(CallRecords) /\ DOMAIN calls' = 1..(Len(calls) + 1)
      /\ \A k \in 1..(Len(calls) + 1) :
             IF k \in DOMAIN calls THEN calls'[k] = calls[k] ELSE calls'[k] = r
  BY <1>1, <1>3
<1>5. \A k \in DOMAIN calls : ~calls[k].hasty => calls[k].of = calls[k].at
  BY DEF SpaInv, DeletesOwn
<1>6. QED
  BY <1>2, <1>4, <1>5

LEMMA CallOver ==
    ASSUME SpaInv, NEW k \in DOMAIN calls, calls' = RemoveAt(calls, k)
    PROVE  /\ calls' \in Seq(CallRecords)
           /\ \A j \in DOMAIN calls' : /\ calls'[j].mounted => showPermissions
                                       /\ ~calls'[j].hasty => calls'[j].of = calls'[j].at
<1>1. calls \in Seq(CallRecords) /\ k \in 1..Len(calls)
  BY DEF SpaInv, SpaTypeOK, CallRecords
<1>2. /\ calls' \in Seq(CallRecords) /\ Len(calls') = Len(calls) - 1
      /\ \A j \in 1..(Len(calls) - 1) : calls'[j] = IF j < k THEN calls[j] ELSE calls[j + 1]
  BY <1>1, RemovedPlace
<1>3. ASSUME NEW j \in DOMAIN calls' PROVE \E i \in DOMAIN calls : calls'[j] = calls[i]
  <2>1. j \in 1..(Len(calls) - 1) /\ j \in 1..Len(calls) /\ j + 1 \in 1..Len(calls)
    BY <1>1, <1>2
  <2>2. DOMAIN calls = 1..Len(calls)
    BY <1>1
  <2>3. QED
    BY <1>2, <2>1, <2>2
<1>4. \A i \in DOMAIN calls : /\ calls[i].mounted => showPermissions
                              /\ ~calls[i].hasty => calls[i].of = calls[i].at
  BY DEF SpaInv, DeletesOwn, ViewSound
<1>5. QED
  BY <1>2, <1>3, <1>4

LEMMA SpaInvariant == SpaSpec => []SpaInv
<1>1. SpaInit => SpaInv
  <2>1. ASSUME SpaInit PROVE SpaInv
    <3>1. listings = <<>> /\ calls = <<>>
      BY <2>1 DEF SpaInit
    <3>2. 0 \in 0..MaxCreations /\ 0 \in 0..MaxClicks
      BY VaultAssumption
    <3>3. /\ listings \in Seq([of : Vaults, late : BOOLEAN])
          /\ calls \in Seq([at : Vaults, of : Vaults, hasty : BOOLEAN, mounted : BOOLEAN])
      BY <3>1
    <3>4. SpaTypeOK
      BY <2>1, <3>2, <3>3 DEF SpaInit, SpaTypeOK
    <3>5. QED
      BY <2>1, <3>1, <3>4 DEF SpaInit, SpaInv, ListSound, ViewSound, DeletesOwn
  <2>2. QED
    BY <2>1
<1>2. SpaInv /\ [SpaNext]_spaVars => SpaInv'
  <2> SUFFICES ASSUME SpaInv, [SpaNext]_spaVars PROVE SpaInv'
    OBVIOUS
  <2> DEFINE chosen == selectedContainer
  <2>1. /\ SpaTypeOK /\ ListSound /\ ViewSound /\ DeletesOwn
        /\ chosen \in Vaults \cup {NoVault} /\ (showPermissions => chosen # NoVault)
        /\ \A k \in DOMAIN calls : /\ calls[k].mounted => showPermissions
                                   /\ ~calls[k].hasty => calls[k].of = calls[k].at
    BY DEF SpaInv, SpaTypeOK, ViewSound, DeletesOwn
  <2>2. SpaClick => clicks' \in 0..MaxClicks
    BY <2>1, VaultAssumption DEF SpaTypeOK, SpaClick
  <2> DEFINE VaultTypes(a, cs, h, n) ==
                a \in BOOLEAN /\ cs \subseteq Vaults /\ h \in BOOLEAN /\ n \in 0..MaxCreations
  <2>19. /\ VaultTypes(asking, containers, hideDialog, creations) /\ firstVaults \subseteq Vaults
         /\ clicks \in 0..MaxClicks
    BY <2>1 DEF SpaTypeOK
  <2>20. /\ creations > 0 => creations - 1 \in 0..MaxCreations
         /\ creations < MaxCreations => creations + 1 \in 0..MaxCreations
    BY <2>19, VaultAssumption
  <2>3. NoDialog => ~showDeleteDialog
    BY DEF NoDialog
  <2>4. CASE VaultsListed \/ CreationRefused
    <3>1. Render(<<chosen>>) /\ selectedContainer' = chosen /\ UNCHANGED <<viewVars, calls, clicks, firstVaults>>
      BY <2>4 DEF VaultsListed, CreationRefused
    <3>2. VaultTypes(asking', containers', hideDialog', creations') /\ clicks' \in 0..MaxClicks
      BY <2>4, <2>19, <2>20, <3>1 DEF VaultsListed, CreationRefused
    <3>3. QED
      BY <2>1, <3>1, <3>2, ContainersStepSound DEF viewVars
  <2>5. CASE ToggleDialog \/ TypeName \/ PressCreate
    <3>1. /\ Render(<<chosen>>) /\ selectedContainer' = chosen
          /\ UNCHANGED <<viewVars, calls, firstVaults>> /\ SpaClick
      BY <2>5 DEF ToggleDialog, TypeName, PressCreate, containerVars
    <3>2. VaultTypes(asking', containers', hideDialog', creations')
      BY <2>5, <2>19, <2>20 DEF ToggleDialog, TypeName, PressCreate, containerVars
    <3>3. QED
      BY <2>1, <2>2, <3>1, <3>2, ContainersStepSound DEF viewVars
  <2>6. ASSUME NEW c \in Vaults, SelectContainer(c) PROVE SpaInv'
    <3>1. /\ Render(<<c>>) /\ selectedContainer' = c /\ SpaClick /\ ~showDeleteDialog /\ c # NoVault
          /\ UNCHANGED <<viewVars, calls, firstVaults, asking, containers, hideDialog, creations>>
      BY <2>3, <2>6, VaultAssumption DEF SelectContainer
    <3>2. VaultTypes(asking', containers', hideDialog', creations')
      BY <2>19, <3>1
    <3>3. /\ c \in Vaults \cup {NoVault} /\ clicks' \in 0..MaxClicks
          /\ UNCHANGED rowVars /\ (c # selectedContainer => ~showDeleteDialog)
          /\ showPermissions => c # NoVault
          /\ UNCHANGED <<firstVaults, showPermissions, permissions, showAddDialog, calls>>
      BY <2>2, <3>1 DEF viewVars
    <3>4. QED
      BY <3>1, <3>2, <3>3, ContainersStepSound
  <2>7. ASSUME NEW c \in Vaults, VaultCreated(c) PROVE SpaInv'
    <3>1. /\ Render(<<chosen, c>>) /\ selectedContainer' = c /\ c # NoVault
          /\ hasty' = (hasty \/ showDeleteDialog)
          /\ UNCHANGED <<selectedPermission, showDeleteDialog, firstVaults, showPermissions,
                         permissions, showAddDialog, calls, asking, clicks>>
      BY <2>7, VaultAssumption DEF VaultCreated
    <3>2. VaultTypes(asking', containers', hideDialog', creations') /\ clicks' \in 0..MaxClicks
      BY <2>7, <2>19, <2>20, <3>1 DEF VaultCreated
    <3>3. /\ c \in Vaults \cup {NoVault} /\ asking' \in BOOLEAN /\ showPermissions => c # NoVault
          /\ UNCHANGED <<firstVaults, showPermissions, permissions, showAddDialog, calls>>
          /\ UNCHANGED <<selectedPermission, showDeleteDialog>>
      BY <2>19, <3>1
    <3>4. QED
      BY <3>1, <3>2, <3>3, ContainersStepSound
  <2>8. CASE VaultsNotListed
    BY <2>1, <2>8 DEF VaultsNotListed, viewVars, rowVars, SpaInv, SpaTypeOK, ListSound, ViewSound, DeletesOwn
  <2>9. CASE OpenPermissionsView
    <3>1. /\ LoadPermissions(<<chosen>>, chosen) /\ chosen \in Vaults /\ SpaClick
          /\ showPermissions' /\ UNCHANGED <<containerVars, permissions, showAddDialog, rowVars, calls>>
          /\ ~showAddDialog /\ ~showDeleteDialog
      BY <2>1, <2>9 DEF OpenPermissionsView, NoDialog
    <3>2. listings \in Seq(Records)
      BY <2>1 DEF SpaTypeOK, Records
    <3>3. /\ listings' \in Seq(Records) /\ listings' # <<>>
          /\ listings'[Len(listings')] = Listing(chosen) /\ unsure' = FALSE
      BY <3>1, <3>2, LoadOne
    <3>4. Listing(chosen).of = chosen /\ ~Listing(chosen).late
      BY DEF Listing
    <3>5. ListSound'
      BY <3>1, <3>3, <3>4 DEF ListSound, containerVars
    <3>6. SpaTypeOK'
      BY <2>1, <2>2, <3>1, <3>3 DEF SpaTypeOK, Records, containerVars, rowVars
    <3>7. ViewSound' /\ DeletesOwn'
      BY <2>1, <3>1, VaultAssumption DEF ViewSound, DeletesOwn, containerVars, rowVars
    <3>8. QED
      BY <3>5, <3>6, <3>7 DEF SpaInv
  <2>10. CASE ClosePermissionsView
    <3>1. /\ listings' = <<>> /\ unsure' = FALSE /\ permissions' = NoVault /\ showPermissions' = FALSE
          /\ selectedPermission' = NoVault /\ hasty' = FALSE /\ SpaClick
          /\ ~showAddDialog /\ ~showDeleteDialog /\ UNCHANGED <<containerVars, showAddDialog, showDeleteDialog>>
          /\ calls' = [j \in DOMAIN calls |-> [calls[j] EXCEPT !.mounted = FALSE]]
      BY <2>10 DEF ClosePermissionsView, NoDialog
    <3>2. calls \in Seq(CallRecords)
      BY <2>1 DEF SpaTypeOK, CallRecords
    <3>3. \A r \in CallRecords : LET q == [r EXCEPT !.mounted = FALSE]
                                 IN  q \in CallRecords /\ ~q.mounted /\ q.hasty = r.hasty
                                     /\ q.of = r.of /\ q.at = r.at
      BY DEF CallRecords
    <3>4. \A j \in DOMAIN calls : calls[j] \in CallRecords
      BY <3>2
    <3>5. calls' \in Seq(CallRecords) /\ DOMAIN calls' = DOMAIN calls
      BY <3>1, <3>2, <3>3, <3>4
    <3>6. ASSUME NEW j \in DOMAIN calls'
          PROVE  ~calls'[j].mounted /\ (~calls'[j].hasty => calls'[j].of = calls'[j].at)
      <4>1. calls'[j] = [calls[j] EXCEPT !.mounted = FALSE]
        BY <3>1, <3>5
      <4>2. QED
        BY <2>1, <3>3, <3>4, <3>5, <4>1
    <3>7. SpaTypeOK'
      <4>1. listings' \in Seq([of : Vaults, late : BOOLEAN])
        BY <3>1
      <4>2. QED
        BY <2>1, <2>2, <3>1, <3>5, <4>1 DEF SpaTypeOK, CallRecords, containerVars
    <3>8. ListSound' /\ ViewSound' /\ DeletesOwn'
      BY <2>1, <3>1, <3>6 DEF ListSound, ViewSound, DeletesOwn
    <3>9. QED
      BY <3>7, <3>8 DEF SpaInv
  <2>11. ASSUME NEW k \in DOMAIN listings,
                PermissionsListed(k) \/ PermissionsRefused(k) \/ PermissionsThrow(k)
         PROVE  SpaInv'
    <3>1. listings[k].late \in BOOLEAN
      <4>1. listings \in Seq(Records)
        BY <2>1 DEF SpaTypeOK, Records
      <4>2. listings[k] \in Records
        BY <4>1
      <4>3. QED
        BY <4>2 DEF Records
    <3>2. QED
      BY <2>11, <3>1, EndRowsSound DEF PermissionsListed, PermissionsRefused, PermissionsThrow
  <2>12. ASSUME NEW isShown \in BOOLEAN, ShowAddDialog(isShown) PROVE SpaInv'
    BY <2>1, <2>2, <2>12, DialogSound
       DEF ShowAddDialog, rowVars, SpaTypeOK, ViewSound
  <2>13. CASE ShowDeleteDialog
    <3>1. /\ permissions # NoVault /\ selectedPermission' = permissions /\ hasty' = ~Settled
          /\ showPermissions /\ SpaClick /\ showDeleteDialog'
          /\ UNCHANGED <<containerVars, showPermissions, permissions, showAddDialog, listings, calls, unsure>>
      BY <2>1, <2>13 DEF ShowDeleteDialog, ViewSound
    <3>2. ~hasty' => permissions = selectedContainer
      BY <2>1, <3>1 DEF Settled, ListSound
    <3>3. hasty' \in BOOLEAN
      BY <3>1 DEF Settled
    <3>4. QED
      BY <2>1, <2>2, <3>1, <3>2, <3>3, DialogSound DEF SpaTypeOK
  <2>14. CASE HandleCloseDeletePermissionDialog
    BY <2>1, <2>2, <2>14, DialogSound DEF HandleCloseDeletePermissionDialog, SpaTypeOK, ViewSound
  <2>15. CASE HandleAddPermission
    <3>1. /\ showPermissions /\ SpaClick /\ Call(chosen, chosen, FALSE) /\ chosen \in Vaults
          /\ showAddDialog' = FALSE
          /\ UNCHANGED <<containerVars, showPermissions, permissions, rowVars, listings, unsure>>
      BY <2>1, <2>15 DEF HandleAddPermission, ViewSound
    <3>2. /\ calls' \in Seq(CallRecords)
          /\ \A k \in DOMAIN calls' : /\ calls'[k].mounted => showPermissions
                                      /\ ~calls'[k].hasty => calls'[k].of = calls'[k].at
      BY <3>1, CallSound
    <3>3. QED
      BY <2>1, <2>2, <3>1, <3>2, DialogSound DEF CallRecords, rowVars, SpaTypeOK, ViewSound
  <2>16. CASE HandleDeletePermission
    <3>1. /\ showPermissions /\ SpaClick /\ Call(chosen, selectedPermission, hasty)
          /\ chosen \in Vaults /\ selectedPermission \in Vaults /\ hasty \in BOOLEAN
          /\ ~hasty => selectedPermission = chosen
          /\ showDeleteDialog' = FALSE
          /\ UNCHANGED <<containerVars, showPermissions, permissions, showAddDialog,
                         selectedPermission, hasty, listings, unsure>>
      BY <2>1, <2>16 DEF HandleDeletePermission, ViewSound, SpaTypeOK
    <3>2. /\ calls' \in Seq(CallRecords)
          /\ \A k \in DOMAIN calls' : /\ calls'[k].mounted => showPermissions
                                      /\ ~calls'[k].hasty => calls'[k].of = calls'[k].at
      BY <3>1, CallSound
    <3>3. QED
      BY <2>1, <2>2, <3>1, <3>2, DialogSound DEF CallRecords, SpaTypeOK, ViewSound
  <2>17. ASSUME NEW k \in DOMAIN calls, CallDone(k) \/ CallThrows(k) PROVE SpaInv'
    <3>1. calls' = RemoveAt(calls, k) /\ UNCHANGED <<containerVars, viewVars, clicks>>
      BY <2>17 DEF CallDone, CallThrows
    <3>2. /\ calls' \in Seq(CallRecords)
          /\ \A j \in DOMAIN calls' : /\ calls'[j].mounted => showPermissions
                                      /\ ~calls'[j].hasty => calls'[j].of = calls'[j].at
      BY <3>1, CallOver
    <3>3. CASE UNCHANGED <<listings, unsure>>
      BY <2>1, <3>1, <3>2, <3>3
         DEF SpaInv, SpaTypeOK, CallRecords, ListSound, ViewSound, DeletesOwn, containerVars, viewVars, rowVars
    <3>4. CASE calls[k].mounted /\ LoadPermissions(<<calls[k].at>>, chosen)
      <4>1. listings \in Seq(Records) /\ calls[k].at \in Vaults /\ showPermissions
        <5>1. listings \in Seq(Records) /\ calls \in Seq(CallRecords)
          BY <2>1 DEF SpaTypeOK, Records, CallRecords
        <5>2. calls[k] \in CallRecords
          BY <5>1
        <5>3. QED
          BY <2>1, <3>4, <5>1, <5>2 DEF CallRecords
      <4>2. /\ listings' \in Seq(Records) /\ listings' # <<>>
            /\ listings'[Len(listings')] = Listing(calls[k].at)
            /\ unsure' = (calls[k].at # chosen)
        BY <3>4, <4>1, LoadOne
      <4>3. Listing(calls[k].at).of = calls[k].at /\ ~Listing(calls[k].at).late
        BY DEF Listing
      <4>4. ListSound'
        BY <3>1, <4>2, <4>3 DEF ListSound, containerVars
      <4>5. SpaTypeOK'
        BY <2>1, <3>1, <3>2, <4>2 DEF SpaTypeOK, CallRecords, Records, containerVars, viewVars, rowVars
      <4>6. ViewSound' /\ DeletesOwn'
        BY <2>1, <3>1, <3>2, <4>1 DEF ViewSound, DeletesOwn, containerVars, viewVars, rowVars
      <4>7. QED
        BY <4>4, <4>5, <4>6 DEF SpaInv
    <3>5. QED
      BY <2>17, <3>3, <3>4 DEF CallDone, CallThrows
  <2>18. CASE UNCHANGED spaVars
    BY <2>1, <2>18
       DEF spaVars, containerVars, viewVars, rowVars, SpaInv, SpaTypeOK, ListSound, ViewSound, DeletesOwn
  <2>22. QED
    BY <2>4, <2>5, <2>6, <2>7, <2>8, <2>9, <2>10, <2>11, <2>12, <2>13, <2>14, <2>15, <2>16, <2>17,
       <2>18 DEF SpaNext
<1>3. QED
  BY <1>1, <1>2, PTL DEF SpaSpec

(* All variables keep their types. *)
THEOREM SpaTypes == SpaSpec => []SpaTypeOK
<1>1. SpaInv => SpaTypeOK
  BY DEF SpaInv
<1>2. QED
  BY <1>1, SpaInvariant, PTL

(* For any number of containers and requests, a permission is deleted in   *)
(* the container whose list showed it, unless its row was chosen before    *)
(* the list had settled or a container came under the dialog               *)
(* (permissions.js:74-106, 123-128; containers.js:21-43).                  *)
THEOREM DeletesAreOwn == SpaSpec => []DeletesOwn
<1>1. SpaInv => DeletesOwn
  BY DEF SpaInv
<1>2. QED
  BY <1>1, SpaInvariant, PTL

-----------------------------------------------------------------------------
(* SummitDialogs. *)
DialogReads == [list : Lists, of : Stores \cup Docs,
                next : Docs \cup {Nothing, "work"}, late : BOOLEAN]

(* The last listing of l under way that counts is of what is open.         *)
Coming(l) ==
    \E k \in DOMAIN reads :
        /\ reads[k].list = l /\ reads[k].of = Of(l)
        /\ \A j \in DOMAIN reads :
               j > k /\ reads[j].list = l => reads[j].late \/ reads[j].of = Of(l)

(* The rows are of what is open, and no listing that counts changes that.  *)
Arrived(l) ==
    /\ rows[l] \in {Nothing, Of(l)}
    /\ \A j \in DOMAIN reads : reads[j].list = l => reads[j].late \/ reads[j].of = Of(l)

(* The choices of the open file, which its fields come after. *)
ChoicesComing ==
    \E k \in DOMAIN reads :
        /\ reads[k].list = "choices" /\ reads[k].next = doc /\ ~reads[k].late
        /\ \A j \in DOMAIN reads : j > k => reads[j].list # "choices"
ChoicesLate == \A k \in DOMAIN reads : reads[k].list = "choices" => reads[k].late

Settles(l) == l \in doubt \/ Coming(l) \/ Arrived(l)
FieldsSettle == ChoicesComing \/ (ChoicesLate /\ Settles("fields"))

(* What is asked for next is fields, after the choices of a file. *)
ReadsInv ==
    /\ reads \in Seq(DialogReads)
    /\ \A k \in DOMAIN reads : reads[k].next \in Docs => reads[k].list = "choices"

DialogsInv ==
    /\ DialogsTypeOK /\ ReadsInv
    /\ dialog \in Dialogs \ {"file"} => Settles(dialog)
    /\ dialog = "file" => FieldsSettle
    /\ dialog = Nothing => source = Nothing /\ busy \notin Works
    /\ OwnDataSent

(* Where listing j stands when listing k is over. *)
Moved(j, k) == IF j < k THEN j ELSE j - 1

(* Where the listings stand when listing k is over: those behind it move up, *)
(* older ones of its list are late, and fields are asked for after choices.  *)
LEMMA EndReadPlaces ==
    ASSUME DialogsInv, NEW k \in DOMAIN reads, NEW of, NEW goesOn \in BOOLEAN,
           EndRead(k, of, goesOn)
    PROVE  /\ reads' \in Seq(DialogReads)
           /\ \A j \in DOMAIN reads : j # k =>
                  LET i == Moved(j, k) IN
                  /\ i \in DOMAIN reads'
                  /\ reads'[i].list = reads[j].list /\ reads'[i].of = reads[j].of
                  /\ reads'[i].next = reads[j].next
                  /\ reads'[i].late = (reads[j].late \/ (j < k /\ reads[j].list = reads[k].list))
           /\ \A i \in DOMAIN reads' :
                  \/ \E j \in DOMAIN reads \ {k} : i = Moved(j, k)
                  \/ /\ goesOn /\ reads[k].next \in Docs
                     /\ i = Len(reads) /\ reads'[i] = NextRead(reads[k])
           /\ goesOn /\ reads[k].next \in Docs =>
                  Len(reads) \in DOMAIN reads' /\ reads'[Len(reads)] = NextRead(reads[k])
<1> DEFINE r == reads[k]
           n == Len(reads)
           Mark(q) == [q EXCEPT !.late = TRUE]
           marked == [j \in DOMAIN reads |-> IF j < k /\ reads[j].list = reads[k].list
                                             THEN [reads[j] EXCEPT !.late = TRUE]
                                             ELSE reads[j]]
           rest == RemoveAt(marked, k)
<1>1. reads \in Seq(DialogReads) /\ n \in Nat /\ DOMAIN reads = 1..n /\ k \in 1..n
  BY DEF DialogsInv, ReadsInv
<1>2. \A j \in 1..n : reads[j] \in DialogReads
  BY <1>1
<1>3. \A q \in DialogReads : /\ Mark(q) \in DialogReads /\ Mark(q).late = TRUE
                             /\ Mark(q).list = q.list /\ Mark(q).of = q.of
                             /\ Mark(q).next = q.next
  BY DEF DialogReads
<1>4. \A j \in 1..n : /\ marked[j] \in DialogReads
                      /\ marked[j].list = reads[j].list /\ marked[j].of = reads[j].of
                      /\ marked[j].next = reads[j].next
                      /\ marked[j].late = (reads[j].late \/ (j < k /\ reads[j].list = reads[k].list))
  <2> TAKE j \in 1..n
  <2>1. CASE j < k /\ reads[j].list = reads[k].list
    <3>1. marked[j] = Mark(reads[j])
      BY <1>1, <2>1
    <3>2. reads[j] \in DialogReads
      BY <1>2
    <3> HIDE DEF marked, Mark
    <3>3. QED
      BY <1>3, <2>1, <3>1, <3>2
  <2>2. CASE ~(j < k /\ reads[j].list = reads[k].list)
    <3>1. marked[j] = reads[j]
      BY <1>1, <2>2
    <3>2. reads[j] \in DialogReads
      BY <1>2
    <3> HIDE DEF marked
    <3>3. reads[j].late \in BOOLEAN
      BY <3>2 DEF DialogReads
    <3>4. QED
      BY <2>2, <3>1, <3>2, <3>3
  <2>3. QED
    BY <2>1, <2>2
<1>5. marked \in Seq(DialogReads) /\ Len(marked) = n
  <2>1. \A j \in 1..n : marked[j] \in DialogReads
    BY <1>4
  <2>2. marked = [j \in 1..n |-> marked[j]]
    BY <1>1
  <2> HIDE DEF marked
  <2>3. QED
    BY <1>1, <2>1, <2>2
<1>6. reads' = IF goesOn /\ r.next \in Docs THEN Append(rest, NextRead(r)) ELSE rest
  BY DEF EndRead
<1> HIDE DEF marked
<1>7. /\ rest \in Seq(DialogReads) /\ Len(rest) = n - 1
      /\ \A i \in 1..(n - 1) : rest[i] = IF i < k THEN marked[i] ELSE marked[i + 1]
  BY <1>1, <1>5, RemovedPlace
<1>8. r.next \in Docs => NextRead(r) \in DialogReads
  BY <1>1, <1>2 DEF NextRead, DialogReads, Lists
<1> HIDE DEF rest
<1>9. /\ reads' \in Seq(DialogReads)
      /\ \A i \in 1..(n - 1) : i \in DOMAIN reads' /\ reads'[i] = rest[i]
      /\ \A i \in DOMAIN reads' :
             \/ i \in 1..(n - 1)
             \/ goesOn /\ r.next \in Docs /\ i = n /\ reads'[i] = NextRead(r)
      /\ goesOn /\ r.next \in Docs => n \in DOMAIN reads' /\ reads'[n] = NextRead(r)
  <2>1. CASE goesOn /\ r.next \in Docs
    <3>1. reads' = Append(rest, NextRead(r)) /\ NextRead(r) \in DialogReads
      BY <1>6, <1>8, <2>1
    <3> HIDE DEF r
    <3>2. QED
      BY <1>1, <1>7, <2>1, <3>1
  <2>2. CASE ~(goesOn /\ r.next \in Docs)
    <3>1. reads' = rest
      BY <1>6, <2>2
    <3>2. QED
      BY <1>1, <1>7, <2>2, <3>1
  <2>3. QED
    BY <2>1, <2>2
<1>10. ASSUME NEW j \in DOMAIN reads, j # k
       PROVE  LET i == Moved(j, k) IN
              /\ i \in DOMAIN reads'
              /\ reads'[i].list = reads[j].list /\ reads'[i].of = reads[j].of
              /\ reads'[i].next = reads[j].next
              /\ reads'[i].late = (reads[j].late \/ (j < k /\ reads[j].list = reads[k].list))
  <2> DEFINE i == Moved(j, k)
  <2>1. i \in 1..(n - 1) /\ (i < k => i = j) /\ (~(i < k) => i + 1 = j)
    BY <1>1, <1>10 DEF Moved
  <2> HIDE DEF i
  <2>2. reads'[i] = marked[j] /\ i \in DOMAIN reads'
    BY <1>7, <1>9, <2>1
  <2>3. j \in 1..n
    BY <1>1
  <2>4. QED
    BY <1>4, <2>2, <2>3 DEF i
<1>11. ASSUME NEW i \in DOMAIN reads'
       PROVE  \/ \E j \in DOMAIN reads \ {k} : i = Moved(j, k)
              \/ /\ goesOn /\ r.next \in Docs
                 /\ i = n /\ reads'[i] = NextRead(r)
  <2>1. CASE i \in 1..(n - 1) /\ i < k
    BY <1>1, <2>1 DEF Moved
  <2>2. CASE i \in 1..(n - 1) /\ ~(i < k)
    <3>1. i + 1 \in DOMAIN reads \ {k} /\ Moved(i + 1, k) = i
      BY <1>1, <2>2 DEF Moved
    <3>2. QED
      BY <3>1
  <2>3. QED
    BY <1>9, <2>1, <2>2
<1>12. QED
  BY <1>9, <1>10, <1>11

(* What settles a list settles it still when a listing is over. *)
LEMMA SettlesStill ==
    ASSUME DialogsInv, NEW k \in DOMAIN reads, NEW of, NEW goesOn \in BOOLEAN,
           EndRead(k, of, goesOn), of = reads[k].of \/ of = Nothing \/ ~goesOn,
           NEW l \in Lists, Settles(l),
           goesOn /\ reads[k].next \in Docs /\ l = "fields" => reads[k].late
    PROVE  Settles(l)'
<1> DEFINE r == reads[k]
           n == Len(reads)
<1>1. /\ reads \in Seq(DialogReads) /\ n \in Nat /\ DOMAIN reads = 1..n /\ k \in 1..n
      /\ rows \in [Lists -> Stores \cup Docs \cup {Nothing}]
  BY DEF DialogsInv, ReadsInv, DialogsTypeOK
<1>2. r \in DialogReads
  BY <1>1
<1>3. Of(l)' = Of(l) /\ UNCHANGED <<store, doc>>
  BY DEF EndRead, placeVars, Of
<1>4. rows' = [rows EXCEPT ![r.list] = of]
  BY DEF EndRead
<1>5. /\ \A j \in DOMAIN reads : j # k =>
             /\ Moved(j, k) \in DOMAIN reads'
             /\ reads'[Moved(j, k)].list = reads[j].list /\ reads'[Moved(j, k)].of = reads[j].of
             /\ reads'[Moved(j, k)].late = (reads[j].late \/ (j < k /\ reads[j].list = r.list))
      /\ \A i \in DOMAIN reads' :
             \/ \E j \in DOMAIN reads \ {k} : i = Moved(j, k)
             \/ /\ goesOn /\ r.next \in Docs
                /\ reads'[i] = NextRead(r)
  BY EndReadPlaces
<1>6. ASSUME NEW i \in DOMAIN reads', reads'[i] = NextRead(r), goesOn, r.next \in Docs,
             reads'[i].list = l
      PROVE  reads'[i].late
  BY <1>2, <1>6 DEF NextRead, DialogReads
<1> HIDE DEF r
<1>7. ASSUME NEW a \in DOMAIN reads, a # k, reads[a].list = l, reads[a].of = Of(l),
             \A j \in DOMAIN reads :
                 j > a /\ reads[j].list = l => reads[j].late \/ reads[j].of = Of(l)
      PROVE  Coming(l)'
  <2>1. /\ Moved(a, k) \in DOMAIN reads' /\ reads'[Moved(a, k)].list = l
        /\ reads'[Moved(a, k)].of = Of(l)
    BY <1>5, <1>7
  <2>2. ASSUME NEW i \in DOMAIN reads', i > Moved(a, k), reads'[i].list = l
        PROVE  reads'[i].late \/ reads'[i].of = Of(l)
    <3>1. ASSUME NEW j \in DOMAIN reads \ {k}, i = Moved(j, k)
          PROVE  reads'[i].late \/ reads'[i].of = Of(l)
      <4>1. j > a
        BY <1>1, <1>7, <2>2, <3>1 DEF Moved
      <4>2. QED
        BY <1>5, <1>7, <2>2, <3>1, <4>1
    <3>2. QED
      BY <1>5, <1>6, <2>2, <3>1
  <2>3. QED
    BY <1>3, <2>1, <2>2 DEF Coming
<1>8. ASSUME rows'[l] \in {Nothing, Of(l)},
             \A j \in DOMAIN reads : j # k /\ reads[j].list = l =>
                 reads[j].late \/ reads[j].of = Of(l) \/ (j < k /\ r.list = l)
      PROVE  Arrived(l)'
  <2>1. ASSUME NEW i \in DOMAIN reads', reads'[i].list = l
        PROVE  reads'[i].late \/ reads'[i].of = Of(l)
    <3>1. ASSUME NEW j \in DOMAIN reads \ {k}, i = Moved(j, k)
          PROVE  reads'[i].late \/ reads'[i].of = Of(l)
      BY <1>5, <1>8, <2>1, <3>1
    <3>2. QED
      BY <1>5, <1>6, <2>1, <3>1
  <2>2. QED
    BY <1>3, <1>8, <2>1 DEF Arrived
<1>9. CASE r.list # l
  <2>1. l \in doubt => l \in doubt'
    BY <1>9 DEF EndRead, r
  <2>2. rows'[l] = rows[l]
    BY <1>1, <1>4, <1>9
  <2>3. Coming(l) => Coming(l)'
    BY <1>7, <1>9 DEF Coming, r
  <2>4. Arrived(l) => Arrived(l)'
    BY <1>8, <2>2 DEF Arrived
  <2>5. QED
    BY <2>1, <2>3, <2>4 DEF Settles
<1>10. ASSUME r.list = l, l \notin doubt' PROVE Coming(l)' \/ Arrived(l)'
  <2>1. /\ goesOn /\ ~r.late /\ of = r.of
        /\ \/ l \notin doubt
           \/ of = Of(l) /\ (\A j \in DOMAIN reads : j > k => reads[j].list # l)
    BY <1>10 DEF EndRead, r
  <2>2. rows'[l] = r.of
    BY <1>1, <1>4, <1>10, <2>1
  <2>3. CASE l \in doubt
    <3>1. Arrived(l)'
      BY <1>1, <1>8, <1>10, <2>1, <2>2, <2>3
    <3>2. QED
      BY <3>1
  <2>4. ASSUME l \notin doubt, Coming(l) PROVE Coming(l)' \/ Arrived(l)'
    <3>1. PICK a \in DOMAIN reads :
              /\ reads[a].list = l /\ reads[a].of = Of(l)
              /\ \A j \in DOMAIN reads :
                     j > a /\ reads[j].list = l => reads[j].late \/ reads[j].of = Of(l)
      BY <2>4 DEF Coming
    <3>2. CASE a > k
      BY <1>1, <1>7, <3>1, <3>2
    <3>3. CASE ~(a > k)
      <4>1. r.of = Of(l)
        BY <1>1, <1>10, <2>1, <3>1, <3>3 DEF r
      <4>2. \A j \in DOMAIN reads : j # k /\ reads[j].list = l =>
                reads[j].late \/ reads[j].of = Of(l) \/ (j < k /\ r.list = l)
        BY <1>1, <1>10, <3>1, <3>3
      <4>3. QED
        BY <1>8, <2>2, <4>1, <4>2
    <3>4. QED
      BY <3>2, <3>3
  <2>5. CASE Arrived(l)
    <3>1. r.of = Of(l)
      BY <1>10, <2>1, <2>5 DEF Arrived, r
    <3>2. QED
      BY <1>8, <2>2, <2>5, <3>1 DEF Arrived
  <2>6. QED
    BY <2>3, <2>4, <2>5 DEF Settles
<1>11. QED
  BY <1>9, <1>10 DEF Settles

(* So it is with the fields of a file, which come after its choices. *)
LEMMA FieldsStill ==
    ASSUME DialogsInv, NEW k \in DOMAIN reads, NEW of, NEW goesOn \in BOOLEAN,
           EndRead(k, of, goesOn), of = reads[k].of \/ of = Nothing \/ ~goesOn, FieldsSettle
    PROVE  FieldsSettle'
<1> DEFINE r == reads[k]
           n == Len(reads)
<1>1. /\ reads \in Seq(DialogReads) /\ n \in Nat /\ DOMAIN reads = 1..n /\ k \in 1..n
      /\ r.next \in Docs => r.list = "choices"
  BY DEF DialogsInv, ReadsInv
<1>2. r \in DialogReads
  BY <1>1
<1>3. UNCHANGED <<store, doc>> /\ Of("fields")' = Of("fields") /\ Of("fields") = doc
  BY DEF EndRead, placeVars, Of
<1>4. doc \in Docs
  BY DEF DialogsInv, DialogsTypeOK
<1>5. /\ \A j \in DOMAIN reads : j # k =>
             /\ Moved(j, k) \in DOMAIN reads'
             /\ reads'[Moved(j, k)].list = reads[j].list
             /\ reads'[Moved(j, k)].next = reads[j].next
             /\ reads'[Moved(j, k)].late = (reads[j].late \/ (j < k /\ reads[j].list = r.list))
      /\ \A i \in DOMAIN reads' :
             \/ \E j \in DOMAIN reads \ {k} : i = Moved(j, k)
             \/ /\ goesOn /\ r.next \in Docs
                /\ i = n /\ reads'[i] = NextRead(r)
      /\ goesOn /\ r.next \in Docs => n \in DOMAIN reads' /\ reads'[n] = NextRead(r)
  BY EndReadPlaces
<1>6. r.next \in Docs => /\ NextRead(r).list = "fields" /\ NextRead(r).of = r.next
                         /\ NextRead(r).late = r.late
  BY <1>2 DEF NextRead, DialogReads
<1>7. \A i \in DOMAIN reads' : ~(i > n)
  BY <1>1, <1>5 DEF Moved
<1> HIDE DEF r
<1>8. ASSUME \A j \in DOMAIN reads : j # k /\ reads[j].list = "choices" =>
                 reads[j].late \/ (j < k /\ r.list = "choices")
      PROVE  ChoicesLate'
  <2>1. ASSUME NEW i \in DOMAIN reads', reads'[i].list = "choices"
        PROVE  reads'[i].late
    <3>1. ASSUME NEW j \in DOMAIN reads \ {k}, i = Moved(j, k)
          PROVE  reads'[i].late
      BY <1>5, <1>8, <2>1, <3>1
    <3>2. QED
      BY <1>5, <1>6, <2>1, <3>1
  <2>2. QED
    BY <2>1 DEF ChoicesLate
<1>9. CASE ChoicesComing
  <2>1. PICK a \in DOMAIN reads :
            /\ reads[a].list = "choices" /\ reads[a].next = doc /\ ~reads[a].late
            /\ \A j \in DOMAIN reads : j > a => reads[j].list # "choices"
    BY <1>9 DEF ChoicesComing
  <2>2. CASE a # k
    <3>1. /\ Moved(a, k) \in DOMAIN reads' /\ reads'[Moved(a, k)].list = "choices"
          /\ reads'[Moved(a, k)].next = doc /\ ~reads'[Moved(a, k)].late
      BY <1>1, <1>5, <2>1, <2>2 DEF r
    <3>2. ASSUME NEW i \in DOMAIN reads', i > Moved(a, k)
          PROVE  reads'[i].list # "choices"
      <4>1. ASSUME NEW j \in DOMAIN reads \ {k}, i = Moved(j, k)
            PROVE  reads'[i].list # "choices"
        <5>1. j > a
          BY <1>1, <2>2, <3>2, <4>1 DEF Moved
        <5>2. QED
          BY <1>5, <2>1, <4>1, <5>1
      <4>2. QED
        BY <1>5, <1>6, <4>1
    <3>3. QED
      BY <1>3, <3>1, <3>2 DEF ChoicesComing, FieldsSettle
  <2>3. CASE a = k
    <3>1. r.next = doc /\ r.list = "choices" /\ ~r.late /\ r.next \in Docs
      BY <1>4, <2>1, <2>3 DEF r
    <3>2. ChoicesLate'
      BY <1>1, <1>8, <2>1, <2>3, <3>1
    <3>3. CASE goesOn
      <4>1. /\ n \in DOMAIN reads' /\ reads'[n].list = "fields" /\ reads'[n].of = doc
            /\ ~\E j \in DOMAIN reads' : j > n
        BY <1>5, <1>6, <1>7, <3>1, <3>3
      <4>2. Coming("fields")'
        BY <1>3, <4>1 DEF Coming
      <4>3. QED
        BY <3>2, <4>2 DEF FieldsSettle, Settles
    <3>4. CASE ~goesOn
      <4>1. "fields" \in doubt'
        BY <3>1, <3>4 DEF EndRead, r
      <4>2. QED
        BY <3>2, <4>1 DEF FieldsSettle, Settles
    <3>5. QED
      BY <3>3, <3>4
  <2>4. QED
    BY <2>2, <2>3
<1>10. CASE ChoicesLate /\ Settles("fields")
  <2>1. ChoicesLate'
    BY <1>8, <1>10 DEF ChoicesLate
  <2>2. r.next \in Docs => r.late
    BY <1>1, <1>10 DEF ChoicesLate, r
  <2>3. "fields" \in Lists
    BY DEF Lists
  <2>4. Settles("fields")'
    BY <1>10, <2>2, <2>3, SettlesStill DEF r
  <2>5. QED
    BY <2>1, <2>4 DEF FieldsSettle
<1>11. QED
  BY <1>9, <1>10 DEF FieldsSettle

LEMMA EndReadStep ==
    ASSUME DialogsInv, NEW k \in DOMAIN reads, ReadAnswered(k) \/ ReadRefused(k) \/ ReadThrows(k)
    PROVE  DialogsInv'
<1>1. PICK of \in Stores \cup Docs \cup {Nothing}, goesOn \in BOOLEAN :
          EndRead(k, of, goesOn) /\ (of = reads[k].of \/ of = Nothing \/ ~goesOn)
  <2>1. /\ reads[k] \in DialogReads
        /\ rows[reads[k].list] \in Stores \cup Docs \cup {Nothing}
    <3>1. reads[k] \in DialogReads
      BY DEF DialogsInv, ReadsInv
    <3>2. reads[k].list \in Lists
      BY <3>1 DEF DialogReads
    <3>3. QED
      BY <3>1, <3>2 DEF DialogsInv, DialogsTypeOK
  <2>2. reads[k].of \in Stores \cup Docs
    BY <2>1 DEF DialogReads
  <2>3. QED
    BY <2>1, <2>2 DEF ReadAnswered, ReadRefused, ReadThrows
<1>2. reads[k] \in DialogReads
  BY DEF DialogsInv, ReadsInv
<1>3. /\ UNCHANGED <<store, doc, dialog, opens, source, early, crashed>>
      /\ rows' = [rows EXCEPT ![reads[k].list] = of]
      /\ busy' \in {busy, "idle", "hung"} /\ doubt' \subseteq doubt \cup Lists
  BY <1>1, <1>2 DEF EndRead, placeVars, DialogReads, Lists
<1>4. DialogsTypeOK'
  BY <1>1, <1>2, <1>3 DEF DialogsInv, DialogsTypeOK, DialogReads
<1>5. ReadsInv'
  <2>1. reads' \in Seq(DialogReads)
    BY <1>1, EndReadPlaces
  <2>2. ASSUME NEW i \in DOMAIN reads', reads'[i].next \in Docs
        PROVE  reads'[i].list = "choices"
    <3>1. ASSUME NEW j \in DOMAIN reads \ {k}, i = Moved(j, k)
          PROVE  reads'[i].list = "choices"
      <4>1. reads'[i].next = reads[j].next /\ reads'[i].list = reads[j].list
        BY <1>1, <3>1, EndReadPlaces
      <4>2. QED
        BY <2>2, <4>1 DEF DialogsInv, ReadsInv
    <3>2. reads'[i] # NextRead(reads[k])
      <4>1. NextRead(reads[k]).next = Nothing
        BY <1>2 DEF NextRead, DialogReads
      <4>2. QED
        BY <2>2, <4>1, DialogAssumption
    <3>3. QED
      BY <1>1, <3>1, <3>2, EndReadPlaces
  <2>3. QED
    BY <2>1, <2>2 DEF ReadsInv
<1>6. ASSUME dialog' \in Dialogs \ {"file"} PROVE Settles(dialog)'
  <2>1. dialog \in Lists /\ dialog # "fields" /\ Settles(dialog) /\ dialog' = dialog
    BY <1>3, <1>6 DEF DialogsInv, Dialogs, Lists
  <2>2. PICK l \in Lists : l = dialog
    BY <2>1
  <2>3. Settles(l)'
    BY <1>1, <2>1, <2>2, SettlesStill
  <2>4. QED
    BY <2>1, <2>2, <2>3 DEF Settles, Coming, Arrived, Of
<1>7. dialog' = "file" => FieldsSettle'
  BY <1>1, <1>3, FieldsStill DEF DialogsInv
<1>8. OwnDataSent' /\ (dialog' = Nothing => source' = Nothing /\ busy' \notin Works)
  BY <1>3 DEF DialogsInv, OwnDataSent, Of, Works
<1>9. QED
  BY <1>4, <1>5, <1>6, <1>7, <1>8 DEF DialogsInv

(* What is asked for last is what counts. *)
LEMMA AskSound ==
    ASSUME DialogsInv, NEW r \in DialogReads, Ask(r), r.next \in Docs => r.list = "choices",
           UNCHANGED <<store, doc>>
    PROVE  /\ ReadsInv'
           /\ r.of = Of(r.list) => Coming(r.list)'
           /\ r.list = "choices" /\ r.next = doc /\ ~r.late => ChoicesComing'
           /\ r.list # "choices" /\ ChoicesLate => ChoicesLate'
           /\ r.list # "choices" /\ ChoicesComing => ChoicesComing'
<1> DEFINE n == Len(reads) + 1
<1>1. /\ reads \in Seq(DialogReads) /\ Len(reads) \in Nat /\ DOMAIN reads = 1..Len(reads)
      /\ reads' = Append(reads, r)
  BY DEF DialogsInv, ReadsInv, Ask
<1>2. /\ reads' \in Seq(DialogReads) /\ DOMAIN reads' = 1..n /\ reads'[n] = r
      /\ \A j \in DOMAIN reads : j \in DOMAIN reads' /\ reads'[j] = reads[j]
      /\ n \in DOMAIN reads' /\ ~\E j \in DOMAIN reads' : j > n
      /\ \A i \in DOMAIN reads' : i = n \/ i \in DOMAIN reads
  BY <1>1
<1> HIDE DEF n
<1>3. Of(r.list)' = Of(r.list)
  BY DEF Of
<1>4. ReadsInv'
  <2>1. \A i \in DOMAIN reads' : reads'[i].next \in Docs => reads'[i].list = "choices"
    BY <1>2 DEF DialogsInv, ReadsInv
  <2>2. QED
    BY <1>2, <2>1 DEF ReadsInv
<1>5. r.of = Of(r.list) => Coming(r.list)'
  BY <1>2, <1>3 DEF Coming
<1>6. r.list = "choices" /\ r.next = doc /\ ~r.late => ChoicesComing'
  BY <1>2 DEF ChoicesComing
<1>7. r.list # "choices" /\ ChoicesLate => ChoicesLate'
  BY <1>2 DEF ChoicesLate
<1>8. ASSUME r.list # "choices", ChoicesComing PROVE ChoicesComing'
  <2>1. PICK a \in DOMAIN reads :
            /\ reads[a].list = "choices" /\ reads[a].next = doc /\ ~reads[a].late
            /\ \A j \in DOMAIN reads : j > a => reads[j].list # "choices"
    BY <1>8 DEF ChoicesComing
  <2>2. \A j \in DOMAIN reads' : j > a => reads'[j].list # "choices"
    BY <1>2, <1>8, <2>1
  <2>3. QED
    BY <1>2, <2>1, <2>2 DEF ChoicesComing
<1>9. QED
  BY <1>4, <1>5, <1>6, <1>7, <1>8

LEMMA ShowStep ==
    ASSUME DialogsInv, ShowPermissions \/ ShowProperties \/ ShowColumns \/ ShowFile
    PROVE  DialogsInv'
<1>1. store \in Stores /\ doc \in Docs /\ doc # Nothing
  BY DialogAssumption DEF DialogsInv, DialogsTypeOK
<1>2. PICK d \in Dialogs, r \in DialogReads :
          /\ Show(d, r) /\ ~r.late
          /\ d # "file" => r.list = d /\ r.of = store /\ r.next = Nothing
          /\ d = "file" => r.list = "choices" /\ r.next = doc
  <2>1. ASSUME NEW d \in {"permissions", "properties", "columns"},
               Show(d, Read(d, store, Nothing))
        PROVE  \E e \in Dialogs, r \in DialogReads :
                   /\ Show(e, r) /\ ~r.late
                   /\ e # "file" => r.list = e /\ r.of = store /\ r.next = Nothing
                   /\ e = "file" => r.list = "choices" /\ r.next = doc
    <3>1. Read(d, store, Nothing) \in DialogReads /\ d \in Dialogs
      BY <1>1 DEF Read, DialogReads, Dialogs, Lists
    <3>2. QED
      BY <2>1, <3>1 DEF Read
  <2>2. CASE ShowFile
    <3>1. Read("choices", store, doc) \in DialogReads /\ "file" \in Dialogs
      BY <1>1 DEF Read, DialogReads, Dialogs, Lists
    <3>2. QED
      BY <2>2, <3>1 DEF ShowFile, Read
  <2>3. QED
    BY <2>1, <2>2 DEF ShowPermissions, ShowProperties, ShowColumns
<1>3. /\ Ask(r) /\ dialog' = d /\ source' = Nothing /\ early' = FALSE
      /\ opens < MaxOpens /\ opens' = opens + 1
      /\ UNCHANGED <<store, doc, rows, busy, doubt, crashed>>
  BY <1>2 DEF Show, placeVars
<1>4. r.next \in Docs => r.list = "choices"
  BY <1>2, DialogAssumption
<1>5. d # "file" => r.of = Of(r.list)
  BY <1>2 DEF Of, Dialogs
<1>6. /\ ReadsInv' /\ (d # "file" => Coming(d)') /\ (d = "file" => ChoicesComing')
  BY <1>2, <1>3, <1>4, <1>5, AskSound
<1>7. DialogsTypeOK'
  <2>1. opens' \in 0..MaxOpens
    BY <1>3, DialogAssumption DEF DialogsInv, DialogsTypeOK
  <2>2. QED
    BY <1>3, <2>1 DEF DialogsInv, DialogsTypeOK
<1>8. dialog' # "file" => Settles(dialog)'
  BY <1>3, <1>6 DEF Settles, Coming, Of
<1>9. dialog' # Nothing
  BY <1>3, DialogAssumption
<1>10. QED
  BY <1>3, <1>6, <1>7, <1>8, <1>9 DEF DialogsInv, FieldsSettle, OwnDataSent

(* Nothing of the lists and the dialog changes. *)
LEMMA ListsFrame ==
    ASSUME DialogsInv, UNCHANGED <<store, doc, dialog, rows, reads, doubt>>
    PROVE  /\ ReadsInv'
           /\ dialog' \in Dialogs \ {"file"} => Settles(dialog)'
           /\ dialog' = "file" => FieldsSettle'
  BY DEF DialogsInv, ReadsInv, Settles, FieldsSettle, Coming, Arrived, ChoicesComing,
         ChoicesLate, Of

(* Rows that are chosen when their list has settled are of what is open. *)
LEMMA ChosenRow ==
    ASSUME DialogsInv, NEW l \in Lists, ~Unsettled(l),
           l # "fields" => Settles(l), l = "fields" => FieldsSettle
    PROVE  rows[l] \in {Nothing, Of(l)}
<1>1. ~Pending(l) /\ l \notin doubt
  BY DEF Unsettled
<1>2. ~Coming(l) /\ (l = "fields" => ~ChoicesComing)
  BY <1>1 DEF Pending, Coming, ChoicesComing
<1>3. QED
  BY <1>1, <1>2 DEF FieldsSettle, Settles, Arrived

LEMMA WorkStep ==
    ASSUME DialogsInv,
           PermissionsDialog \/ PropertiesDialog \/ ColumnsDialog \/ FileDialog \/ WorkThrows
    PROVE  DialogsInv'
<1> USE DEF DialogsInv, DialogsTypeOK, Works, placeVars, Idle
<1>1. CASE AddPermission \/ AddProperty \/ AddColumn \/ SaveValue \/ WorkThrows
  <2>1. /\ UNCHANGED <<store, doc, dialog, opens, rows, reads, source, early, doubt, crashed>>
        /\ busy' \in Works \cup {"hung"} /\ (busy' \in Works => dialog \in Dialogs)
    BY <1>1 DEF Dialogs, AddPermission, AddProperty, AddColumn, Adding, SaveValue, WorkThrows
  <2>2. DialogsTypeOK'
    BY <2>1
  <2>3. OwnDataSent' /\ (dialog' = Nothing => source' = Nothing /\ busy' \notin Works)
    BY <2>1, DialogAssumption DEF OwnDataSent, Of
  <2>4. QED
    BY <2>1, <2>2, <2>3, ListsFrame
<1>2. CASE TypeValue
  <2>1. /\ UNCHANGED <<store, doc, dialog, opens, rows, reads, busy, early, doubt, crashed>>
        /\ source' = Nothing
    BY <1>2 DEF TypeValue
  <2>2. DialogsTypeOK'
    BY <2>1
  <2>3. OwnDataSent'
    BY <2>1 DEF OwnDataSent
  <2>4. QED
    BY <2>1, <2>2, <2>3, ListsFrame
<1>3. CASE DeletePermission \/ DeleteColumn
  <2>1. PICK d \in {"permissions", "columns"} : Deleting(d)
    BY <1>3 DEF DeletePermission, DeleteColumn
  <2>2. /\ UNCHANGED <<store, doc, dialog, opens, rows, reads, doubt, crashed>>
        /\ dialog = d /\ busy' = "delete" /\ source' = rows[d] /\ early' = Unsettled(d)
    BY <2>1 DEF Deleting
  <2>3. d \in Lists /\ d \in Dialogs \ {"file"} /\ d # "fields"
    BY DEF Lists, Dialogs
  <2>4. DialogsTypeOK'
    BY <2>2, <2>3 DEF Unsettled, Pending
  <2>5. dialog' # Nothing
    BY <2>2, <2>3, DialogAssumption
  <2>6. ASSUME ~early' PROVE source' \in {Nothing, Of(d)}
    BY <2>2, <2>3, <2>6, ChosenRow
  <2>7. OwnDataSent'
    BY <2>2, <2>3, <2>6 DEF OwnDataSent, Of
  <2>8. QED
    BY <2>2, <2>4, <2>5, <2>7, ListsFrame
<1>4. CASE PickColumn
  <2>1. /\ UNCHANGED <<store, doc, dialog, opens, rows, reads, busy, doubt>>
        /\ dialog = "file" /\ source' = rows["fields"] /\ early' = Unsettled("fields")
        /\ crashed' \in BOOLEAN
    BY <1>4 DEF PickColumn
  <2>2. "fields" \in Lists /\ "file" \in Dialogs
    BY DEF Lists, Dialogs
  <2>3. DialogsTypeOK'
    BY <2>1, <2>2 DEF Unsettled, Pending
  <2>4. dialog' # Nothing
    BY <2>1, <2>2, DialogAssumption
  <2>5. ASSUME ~early' PROVE source' \in {Nothing, Of("fields")}
    BY <2>1, <2>2, <2>5, ChosenRow
  <2>6. OwnDataSent'
    BY <2>1, <2>5 DEF OwnDataSent, Of
  <2>7. QED
    BY <2>1, <2>3, <2>4, <2>6, ListsFrame
<1>5. QED
  BY <1>1, <1>2, <1>3, <1>4 DEF PermissionsDialog, PropertiesDialog, ColumnsDialog, FileDialog

LEMMA WorkDoneStep == ASSUME DialogsInv, WorkDone PROVE DialogsInv'
<1> DEFINE l == IF dialog = "file" THEN "fields" ELSE dialog
           r == Read(l, Of(l), "work")
<1>1. /\ UNCHANGED <<store, doc, dialog, opens, rows, early, doubt, crashed>>
      /\ busy' = "listing" /\ Ask(r)
      /\ source' = IF dialog = "file" THEN source ELSE Nothing
  BY DEF WorkDone, placeVars
<1>2. store \in Stores /\ doc \in Docs
  BY DialogAssumption DEF DialogsInv, DialogsTypeOK
<1>3. dialog \in Dialogs
  BY DEF DialogsInv, DialogsTypeOK, WorkDone
<1>4. /\ l \in Lists /\ l # "choices" /\ Of(l) \in Stores \cup Docs
      /\ (dialog # "file" => l = dialog) /\ (dialog = "file" => l = "fields")
  BY <1>2, <1>3 DEF Dialogs, Lists, Of
<1>5. PICK m \in Lists, q \in DialogReads :
          m = l /\ q = r /\ q.list = m /\ q.of = Of(m) /\ q.next \notin Docs
  <2> HIDE DEF l
  <2>1. r \in DialogReads /\ r.list = l /\ r.of = Of(l) /\ r.next \notin Docs
    BY <1>4, DialogAssumption DEF Read, DialogReads
  <2> HIDE DEF r
  <2>2. QED
    BY <1>4, <2>1
<1>6. /\ ReadsInv' /\ Coming(m)' /\ (ChoicesLate => ChoicesLate')
      /\ (ChoicesComing => ChoicesComing')
  <2>1. Ask(q) /\ q.list # "choices"
    BY <1>1, <1>4, <1>5
  <2>2. /\ ReadsInv' /\ Coming(q.list)' /\ (ChoicesLate => ChoicesLate')
        /\ (ChoicesComing => ChoicesComing')
    BY <1>1, <1>5, <2>1, AskSound
  <2>3. QED
    BY <1>5, <2>2
<1>7. DialogsTypeOK'
  <2>1. busy' \in {"listing"} /\ source' \in Stores \cup Docs \cup {Nothing}
    BY <1>1 DEF DialogsInv, DialogsTypeOK
  <2>2. QED
    BY <1>1, <2>1 DEF DialogsInv, DialogsTypeOK
<1>8. ASSUME dialog' \in Dialogs \ {"file"} PROVE Settles(dialog)'
  <2>1. m = dialog' /\ Coming(m)'
    BY <1>1, <1>4, <1>5, <1>6, <1>8
  <2>2. QED
    BY <2>1 DEF Settles, Coming, Of
<1>9. ASSUME dialog' = "file" PROVE FieldsSettle'
  <2>1. FieldsSettle /\ m = "fields"
    BY <1>1, <1>4, <1>5, <1>9 DEF DialogsInv
  <2>2. Coming("fields")'
    BY <1>6, <2>1
  <2>3. QED
    BY <1>6, <2>1, <2>2 DEF FieldsSettle, Settles
<1>10. OwnDataSent' /\ dialog' # Nothing
  BY <1>1, <1>3, DialogAssumption DEF DialogsInv, OwnDataSent, Of
<1>11. QED
  BY <1>6, <1>7, <1>8, <1>9, <1>10 DEF DialogsInv

LEMMA DialogsInvariant == DialogsSpec => []DialogsInv
<1>1. DialogsInit => DialogsInv
  <2> SUFFICES ASSUME DialogsInit PROVE DialogsInv
    OBVIOUS
  <2>1. opens \in 0..MaxOpens /\ dialog = Nothing /\ reads \in Seq(DialogReads)
    BY DialogAssumption DEF DialogsInit
  <2>2. DialogsTypeOK
    BY <2>1 DEF DialogsInit, DialogsTypeOK
  <2>3. ReadsInv
    BY <2>1 DEF DialogsInit, ReadsInv
  <2>4. source = Nothing /\ busy \notin Works
    BY DEF DialogsInit, Works
  <2>5. QED
    BY <2>1, <2>2, <2>3, <2>4, DialogAssumption DEF DialogsInv, OwnDataSent, Dialogs
<1>2. DialogsInv /\ [DialogsNext]_dialogsVars => DialogsInv'
  <2> SUFFICES ASSUME DialogsInv, [DialogsNext]_dialogsVars
               PROVE  DialogsInv'
    OBVIOUS
  <2>1. ASSUME NEW f \in Docs, Choose(f)
        PROVE  DialogsInv'
    <3>1. /\ doc' = f /\ store' = StoreOf[f] /\ dialog = Nothing
          /\ UNCHANGED <<dialog, opens, rows, reads, busy, source, early, doubt, crashed>>
      BY <2>1 DEF Choose, workVars
    <3>2. DialogsTypeOK' /\ ReadsInv'
      BY <3>1 DEF DialogsInv, DialogsTypeOK, ReadsInv
    <3>3. QED
      BY <3>1, <3>2, DialogAssumption DEF DialogsInv, OwnDataSent, Dialogs
  <2>2. CASE CloseDialog
    <3>1. /\ dialog' = Nothing /\ source' = Nothing /\ early' = FALSE /\ busy = "idle"
          /\ UNCHANGED <<store, doc, opens, rows, reads, busy, doubt, crashed>>
      BY <2>2 DEF CloseDialog, placeVars
    <3>2. DialogsTypeOK' /\ ReadsInv'
      BY <3>1 DEF DialogsInv, DialogsTypeOK, ReadsInv
    <3>3. busy' \notin Works
      BY <3>1 DEF Works
    <3>4. QED
      BY <3>1, <3>2, <3>3, DialogAssumption DEF DialogsInv, OwnDataSent, Dialogs
  <2>3. CASE UNCHANGED dialogsVars
    <3>1. UNCHANGED <<store, doc, dialog, opens, rows, reads, busy, source, early, doubt, crashed>>
      BY <2>3 DEF dialogsVars, placeVars, workVars
    <3>2. DialogsTypeOK' /\ OwnDataSent'
      BY <3>1 DEF DialogsInv, DialogsTypeOK, OwnDataSent, Of
    <3>3. QED
      BY <3>1, <3>2, ListsFrame DEF DialogsInv
  <2>4. QED
    BY <2>1, <2>2, <2>3, ShowStep, EndReadStep, WorkStep, WorkDoneStep DEF DialogsNext
<1>3. QED
  BY <1>1, <1>2, PTL DEF DialogsSpec

(* All variables of SummitDialogs keep their types. *)
THEOREM DialogsTypes == DialogsSpec => []DialogsTypeOK
<1>1. DialogsInv => DialogsTypeOK
  BY DEF DialogsInv
<1>2. QED
  BY <1>1, DialogsInvariant, PTL

(* What is deleted or saved is of the container or the file of the dialog, *)
(* unless it was chosen before its list had settled                        *)
(* (ContainerPermissions.tsx:64-103, FileColumns.tsx:46-107).              *)
THEOREM OwnDataIsSent == DialogsSpec => []OwnDataSent
<1>1. DialogsInv => OwnDataSent
  BY DEF DialogsInv
<1>2. QED
  BY <1>1, DialogsInvariant, PTL
=============================================================================
