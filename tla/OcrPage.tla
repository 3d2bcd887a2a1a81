------------------------------ MODULE OcrPage -------------------------------
(***************************************************************************)
(* The web client of the OCR sample (spe-ocr-sample/src/components):       *)
(* Containers with the Files of the container that is chosen.  Files has   *)
(* no breadcrumb; crumbs tells where the user went last.  It lists the     *)
(* root again whenever Containers renders, for its effect depends on props *)
(* as a whole, and each handler goes on, to its last await, with the       *)
(* container and the folder of the render that it was made in.             *)
(***************************************************************************)
EXTENDS DrivePage

VARIABLES
    choices,            \* the containers in the dropdown
    createDialog,       \* whether the dialog for a new container is open
    creation,           \* its request: "none", "asked" or, without an end, "hung"
    folderId,
    newFolder,          \* the dialog for a new folder: "closed", "open",
                        \* "creating", "listing" or, with its spinner, "hung"
    target,             \* where the folder under creation goes
    promised,           \* history: where the user was when its dialog opened
    deleteDialog,       \* whether the dialog for deleting is open
    row,                \* the folder that is selected for it
    deletes,            \* requests to delete under way, with what to list then
    put,                \* the place each upload goes to, None before it is made
    uploading,          \* uploads whose request is under way
    aimed,              \* history: where the user was when each was made
    cameBack            \* history: a container was chosen again while folderId
                        \* was still a folder in it

creationVars == <<choices, createDialog, creation>>
folderVars == <<newFolder, target, promised>>
deleteVars == <<deleteDialog, row, deletes>>
uploadingVars == <<put, uploading, aimed>>
ocrVars == <<pageVars, creationVars, folderId, folderVars, deleteVars, uploadingVars, cameBack>>

(* From the first choice of a container on. *)
OcrInit ==
    /\ PageInit
    /\ choices \in {cs \in SUBSET Containers : container \in cs}
    /\ createDialog = FALSE /\ creation = "none"
    /\ folderId = Root
    /\ newFolder = "closed" /\ target = <<container, Root>> /\ promised = target
    /\ deleteDialog = FALSE /\ row = None /\ deletes = <<>>
    /\ put = [u \in Uploads |-> <<None, None>>] /\ uploading = {} /\ aimed = put
    /\ cameBack = FALSE

(* A click on the page; all dialogs are modal. *)
OcrClick == Click /\ ~createDialog /\ newFolder = "closed" /\ ~deleteDialog

-----------------------------------------------------------------------------
(* The container. *)

(* Mutant of ShowContainer: the root is not listed. *)
ShowContainerUnlisted(c) ==
    /\ container' = c /\ crumbs' = <<Root>>
    /\ UNCHANGED <<loads, causes>>
    /\ cameBack' = (cameBack \/ (folderId \in Folders /\ Home[folderId] = c))

(* Containers shows c, and Files lists its root. *)
ShowContainer(c) ==
    /\ container' = c /\ crumbs' = <<Root>>
    /\ LoadItems(<<c, Root>>, <<c, Root>>, "unexpected", None)
    /\ cameBack' = (cameBack \/ (folderId \in Folders /\ Home[folderId] = c))

OnContainerDropdownChange(c) ==
    /\ OcrClick /\ c \in choices \ {container}
    /\ ShowContainer(c)
    /\ UNCHANGED <<gone, shown, failures, creationVars, folderId, folderVars, deleteVars, uploadingVars>>

(* Containers renders: the dialog is opened or closed, or typed into.      *)
Rerender(isOpen) ==
    /\ Click /\ createDialog' = isOpen
    /\ LoadItems(<<container, Root>>, Here, "rerender", None)
    /\ UNCHANGED <<gone, container, crumbs, shown, failures, choices, creation, folderId, folderVars,
                   deleteVars, uploadingVars, cameBack>>

OpenCreateDialog == newFolder = "closed" /\ ~deleteDialog /\ ~createDialog /\ Rerender(TRUE)
TypeContainerName == createDialog /\ Rerender(TRUE)

(* Escape closes it although its container is under creation. *)
DismissCreateDialog == createDialog /\ Rerender(FALSE)

CreateContainerClick ==
    /\ createDialog /\ creation = "none"
    /\ creation' = "asked"
    /\ LoadItems(<<container, Root>>, Here, "rerender", None)
    /\ UNCHANGED <<gone, container, crumbs, shown, events, failures, choices, createDialog, folderId,
                   folderVars, deleteVars, uploadingVars, cameBack>>

(* The new container is shown, whatever the user does meanwhile.  Its      *)
(* folders are what others make in it.                                     *)
ContainerCreated(c) ==
    /\ creation = "asked" /\ c \notin choices
    /\ creation' = "none" /\ createDialog' = FALSE
    /\ choices' = choices \cup {c}
    /\ ShowContainer(c)
    /\ UNCHANGED <<gone, shown, events, failures, folderId, folderVars, deleteVars, uploadingVars>>

(* The API refuses: the dialog stays as it is, with its fields empty.      *)
ContainerRefused ==
    /\ creation = "asked" /\ Fails(FALSE)
    /\ creation' = "none"
    /\ LoadItems(<<container, Root>>, Here, "rerender", None)
    /\ UNCHANGED <<gone, container, crumbs, shown, events, choices, createDialog, folderId,
                   folderVars, deleteVars, uploadingVars, cameBack>>

(* The request throws: it is under creation for ever. *)
ContainerThrows ==
    /\ creation = "asked" /\ Fails(FALSE)
    /\ creation' = "hung"
    /\ UNCHANGED <<gone, container, crumbs, listVars, events, choices, createDialog, folderId,
                   folderVars, deleteVars, uploadingVars, cameBack>>

-----------------------------------------------------------------------------
(* Folders. *)

(* Mutant of FolderLink: the folder is listed alone. *)
FolderLinkOnly(f) ==
    /\ OcrClick /\ f \in Listed
    /\ crumbs' = <<Root, f>>
    /\ LoadItems(<<container, f>>, <<container, f>>, "unexpected", None)
    /\ UNCHANGED <<gone, container, shown, failures, creationVars, folderId, folderVars, deleteVars,
                   uploadingVars, cameBack>>

FolderLink(f) ==
    /\ OcrClick /\ f \in Listed
    /\ crumbs' = <<Root, f>>
    /\ LoadItems(<<container, f>>, <<container, f>>, "unexpected", None)
    /\ folderId' = f
    /\ UNCHANGED <<gone, container, shown, failures, creationVars, folderVars, deleteVars,
                   uploadingVars, cameBack>>

(* The end of loadItems; a dialog that waited for it closes either way.    *)
ItemsLoaded(k, s, cause) ==
    /\ shown' = s
    /\ loads' = Answered(k)
    /\ causes' = causes \cup cause \cup (IF loads[k].late THEN {"overtaken"} ELSE {})
    /\ newFolder' = IF loads[k].closing = "folder" THEN "closed" ELSE newFolder
    /\ deleteDialog' = (deleteDialog /\ loads[k].closing # "delete")
    /\ UNCHANGED <<gone, container, crumbs, events, creationVars, folderId, target, promised, row,
                   deletes, uploadingVars, cameBack>>

ItemsAnswered(k) ==
    /\ k \in DOMAIN loads /\ Valid(loads[k].place)
    /\ ItemsLoaded(k, loads[k].place, {})
    /\ UNCHANGED failures

(* The old list stays. *)
ItemsFail(k) ==
    /\ k \in DOMAIN loads /\ Fails(~Valid(loads[k].place))
    /\ ItemsLoaded(k, shown, {"loadFailed"})

OpenFolderDialog ==
    /\ OcrClick
    /\ newFolder' = "open" /\ promised' = Here
    /\ UNCHANGED <<gone, container, crumbs, listVars, failures, creationVars, folderId, target,
                   deleteVars, uploadingVars, cameBack>>

CancelFolderDialog ==
    /\ newFolder = "open"
    /\ newFolder' = "closed"
    /\ UNCHANGED <<pageVars, creationVars, folderId, target, promised, deleteVars, uploadingVars, cameBack>>

OnFolderCreateClick ==
    /\ newFolder = "open"
    /\ newFolder' = "creating" /\ target' = <<container, folderId>>
    /\ UNCHANGED <<pageVars, creationVars, folderId, promised, deleteVars, uploadingVars, cameBack>>

FolderMade ==
    /\ newFolder = "creating" /\ Valid(target)
    /\ newFolder' = "listing"
    /\ LoadItems(target, Here, "cameBack", "folder")
    /\ UNCHANGED <<gone, container, crumbs, shown, events, failures, creationVars, folderId, target,
                   promised, deleteVars, uploadingVars, cameBack>>

(* The await throws, and nothing ends the spinner. *)
FolderThrows ==
    /\ newFolder = "creating" /\ Fails(~Valid(target))
    /\ newFolder' = "hung"
    /\ UNCHANGED <<gone, container, crumbs, listVars, events, creationVars, folderId, target, promised,
                   deleteVars, uploadingVars, cameBack>>

-----------------------------------------------------------------------------
(* Deleting. *)

(* The click on the button in a row selects the row as well. *)
OpenDeleteDialog(f) ==
    /\ OcrClick /\ f \in Listed
    /\ deleteDialog' = TRUE /\ row' = f
    /\ UNCHANGED <<gone, container, crumbs, listVars, failures, creationVars, folderId, folderVars,
                   deletes, uploadingVars, cameBack>>

(* Escape, and Cancel first, only replace the selection by a row that is   *)
(* not there; then Cancel closes the dialog.                               *)
DismissDeleteDialog(isOpen) ==
    /\ deleteDialog
    /\ deleteDialog' = isOpen /\ row' = None
    /\ UNCHANGED <<pageVars, creationVars, folderId, folderVars, deletes, uploadingVars, cameBack>>

(* Nothing keeps the user from pressing the button again. *)
OnDeleteItemClick ==
    /\ Click /\ deleteDialog
    /\ deletes' = Append(deletes, [at |-> <<container, row>>, then |-> <<container, folderId>>])
    /\ UNCHANGED <<gone, container, crumbs, listVars, failures, creationVars, folderId, folderVars,
                   deleteDialog, row, uploadingVars, cameBack>>

ItemRemoved(k) ==
    /\ k \in DOMAIN deletes /\ Valid(deletes[k].at)
    /\ gone' = gone \cup {deletes[k].at[2]}
    /\ deletes' = RemoveAt(deletes, k)
    /\ LoadItems(deletes[k].then, Here, "cameBack", "delete")
    /\ UNCHANGED <<container, crumbs, shown, events, failures, creationVars, folderId, folderVars,
                   deleteDialog, row, uploadingVars, cameBack>>

(* Nobody catches it: the dialog stays. *)
DeleteThrows(k) ==
    /\ k \in DOMAIN deletes /\ Fails(~Valid(deletes[k].at))
    /\ deletes' = RemoveAt(deletes, k)
    /\ UNCHANGED <<gone, container, crumbs, listVars, events, creationVars, folderId, folderVars,
                   deleteDialog, row, uploadingVars, cameBack>>

-----------------------------------------------------------------------------
(* Uploads. *)

OnUploadFileSelected(u) ==
    /\ OcrClick /\ put[u] = <<None, None>>
    /\ put' = [put EXCEPT ![u] = <<container, folderId>>]
    /\ aimed' = [aimed EXCEPT ![u] = Here]
    /\ uploading' = uploading \cup {u}
    /\ UNCHANGED <<gone, container, crumbs, listVars, failures, creationVars, folderId, folderVars,
                   deleteVars, cameBack>>

(* The page lists the place of the upload, wherever it is by now. *)
Uploaded(u) ==
    /\ u \in uploading /\ Valid(put[u])
    /\ uploading' = uploading \ {u}
    /\ LoadItems(put[u], Here, "upload", None)
    /\ UNCHANGED <<gone, container, crumbs, shown, events, failures, creationVars, folderId, folderVars,
                   deleteVars, put, aimed, cameBack>>

NotUploaded(u) ==
    /\ u \in uploading /\ Fails(~Valid(put[u]))
    /\ uploading' = uploading \ {u}
    /\ UNCHANGED <<gone, container, crumbs, listVars, events, creationVars, folderId, folderVars,
                   deleteVars, put, aimed, cameBack>>

-----------------------------------------------------------------------------
ContainersStep ==
    \/ \E c \in Containers : OnContainerDropdownChange(c) \/ ContainerCreated(c)
    \/ OpenCreateDialog \/ TypeContainerName \/ DismissCreateDialog \/ CreateContainerClick
    \/ ContainerRefused \/ ContainerThrows

OcrNext ==
    \/ ContainersStep
    \/ \E f \in Folders : FolderLink(f) \/ OpenDeleteDialog(f)
    \/ \E k \in DOMAIN loads : ItemsAnswered(k) \/ ItemsFail(k)
    \/ OpenFolderDialog \/ CancelFolderDialog \/ OnFolderCreateClick \/ FolderMade \/ FolderThrows
    \/ \E isOpen \in BOOLEAN : DismissDeleteDialog(isOpen)
    \/ OnDeleteItemClick
    \/ \E k \in DOMAIN deletes : ItemRemoved(k) \/ DeleteThrows(k)
    \/ \E u \in Uploads : OnUploadFileSelected(u) \/ Uploaded(u) \/ NotUploaded(u)

OcrSpec == OcrInit /\ [][OcrNext]_ocrVars
-----------------------------------------------------------------------------
OcrTypeOK ==
    /\ PageTypeOK
    /\ choices \subseteq Containers /\ container \in choices
    /\ createDialog \in BOOLEAN /\ creation \in {"none", "asked", "hung"}
    /\ folderId \in Folders \cup {Root}
    /\ newFolder \in {"closed", "open", "creating", "listing", "hung"}
    /\ target \in Places /\ promised \in Places
    /\ deleteDialog \in BOOLEAN /\ row \in Folders \cup {None}
    /\ deletes \in Seq([at : Containers \X (Folders \cup {None}), then : Places])
    /\ put \in [Uploads -> Places \cup {<<None, None>>}]
    /\ aimed \in [Uploads -> Places \cup {<<None, None>>}] /\ uploading \subseteq Uploads
    /\ \A u \in uploading : put[u] \in Places /\ aimed[u] \in Places
    /\ cameBack \in BOOLEAN

(* What the user makes lands where the user went last, or is refused,      *)
(* unless a container was chosen again while folderId was still a folder   *)
(* in it; or, for a new folder, unless a container whose creation the user *)
(* had dismissed was shown under the open dialog (files.tsx:70-83,         *)
(* 110-127, 147-165, 200-203; containers.tsx:78-99).                       *)
LandsWhereLast ==
    ~cameBack =>
        /\ \A u \in uploading : InContainer(put[u]) => put[u] = aimed[u]
        /\ newFolder = "creating" /\ InContainer(target) /\ target[1] = promised[1]
               => target = promised

(* With no listing under way Files shows where the user went last.  What   *)
(* may break this until that is listed again: a render of Containers, an   *)
(* answer that was overtaken or failed, and the listing after a folder, an *)
(* upload or a delete made elsewhere (files.tsx:70-99, 123, 137, 156).     *)
OcrShown == loads = <<>> /\ causes = {} => shown = Here
=============================================================================
