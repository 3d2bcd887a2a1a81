-------------------------- MODULE SummitContainer ---------------------------
(***************************************************************************)
(* The Container component of the DevSummit sample (sample-app/03- and     *)
(* 04-checkpoint/src/components/Container.tsx), with the Containers        *)
(* component above it.  It is a function component: a handler goes on, to  *)
(* its last await, with the container and the folder of the render that it *)
(* was made in.  A new container resets the breadcrumb, but not folderId.  *)
(***************************************************************************)
EXTENDS DrivePage

CONSTANTS
    RowPrefix,      \* whether row ids are prefixed, as in 04-checkpoint
    Undefined       \* the folderId after a click on the root's crumb

ASSUME SummitAssumption == RowPrefix \in BOOLEAN /\ Undefined \notin Folders \cup {Root, None}

VARIABLES
    folderId,
    newFolder,      \* the New Folder dialog: "closed", "open", "creating",
                    \* "listing" or, with its spinner for ever, "hung"
    deleteDialog,   \* the Delete dialog, likewise
    row,            \* the folder whose row has the Delete button pressed
    target,         \* where the folder under creation goes
    put,            \* the place each upload goes to, None before it is made
    uploading,      \* uploads whose request is under way
    aimed,          \* history: the place that was shown when each was made
    cameBack        \* history: a container was chosen again while folderId
                    \* was still a folder in it

dialogVars == <<newFolder, deleteDialog, row, target>>
putVars == <<put, uploading, aimed>>
summitVars == <<pageVars, folderId, dialogVars, putVars, cameBack>>

SummitInit ==
    /\ PageInit
    /\ folderId = Root
    /\ newFolder = "closed" /\ deleteDialog = "closed"
    /\ row = None /\ target = <<container, Root>>
    /\ put = [u \in Uploads |-> <<None, None>>] /\ uploading = {}
    /\ aimed = [u \in Uploads |-> <<None, None>>]
    /\ cameBack = FALSE

(* A click on the page; the dialogs are modal. *)
SummitClick == Click /\ newFolder = "closed" /\ deleteDialog = "closed"

(* folderId || 'root' *)
FolderOrRoot == IF folderId = Undefined THEN Root ELSE folderId

-----------------------------------------------------------------------------
(* Where the page is. *)

(* Mutant of ContainerChange: the effect does not list. *)
ContainerChangeUnlisted(c) ==
    /\ SummitClick /\ c # container
    /\ container' = c /\ crumbs' = <<Root>>
    /\ cameBack' = (cameBack \/ (folderId \in Folders /\ Home[folderId] = c))
    /\ UNCHANGED <<gone, listVars, failures, folderId, dialogVars, putVars>>

(* The effect for a new container, from the dropdown or the search. *)
ContainerChange(c) ==
    /\ SummitClick /\ c # container
    /\ container' = c /\ crumbs' = <<Root>>
    /\ LoadItems(<<c, Root>>, <<c, Root>>, "unexpected", None)
    /\ cameBack' = (cameBack \/ (folderId \in Folders /\ Home[folderId] = c))
    /\ UNCHANGED <<gone, shown, failures, folderId, dialogVars, putVars>>

(* A folder's link; one that is in the path already trims it.              *)
NavigateToFolder(f) ==
    /\ SummitClick /\ f \in Listed
    /\ LET k == SelectInSeq(crumbs, LAMBDA g : g = f)
           path == IF k = 0 THEN Append(crumbs, f) ELSE SubSeq(crumbs, 1, k)
       IN  /\ crumbs' = path
           /\ LoadItems(<<container, f>>, <<container, f>>, "unexpected", None)
    /\ folderId' = f
    /\ UNCHANGED <<gone, container, shown, failures, dialogVars, putVars, cameBack>>

(* Mutant of CrumbClick: folderId stays. *)
CrumbClickOnly(k) ==
    /\ SummitClick /\ k \in DOMAIN crumbs
    /\ crumbs' = SubSeq(crumbs, 1, k)
    /\ LoadItems(<<container, crumbs[k]>>, <<container, crumbs[k]>>, "unexpected", None)
    /\ UNCHANGED <<gone, container, shown, failures, folderId, dialogVars, putVars, cameBack>>

(* navigateToFolder again, and the path is cut.  The root's crumb is the   *)
(* string 'root', which has no id.                                         *)
CrumbClick(k) ==
    /\ SummitClick /\ k \in DOMAIN crumbs
    /\ crumbs' = SubSeq(crumbs, 1, k)
    /\ LoadItems(<<container, crumbs[k]>>, <<container, crumbs[k]>>, "unexpected", None)
    /\ folderId' = IF crumbs[k] = Root THEN Undefined ELSE crumbs[k]
    /\ UNCHANGED <<gone, container, shown, failures, dialogVars, putVars, cameBack>>

-----------------------------------------------------------------------------
(* The end of loadItems; a dialog that waited for it closes either way. *)
EndListing(k, s, cause) ==
    /\ shown' = s
    /\ loads' = Answered(k)
    /\ causes' = causes \cup cause \cup (IF loads[k].late THEN {"overtaken"} ELSE {})
    /\ newFolder' = IF loads[k].closing = "folder" THEN "closed" ELSE newFolder
    /\ deleteDialog' = IF loads[k].closing = "delete" THEN "closed" ELSE deleteDialog
    /\ UNCHANGED <<gone, container, crumbs, events, folderId, row, target, putVars, cameBack>>

ListingAnswered(k) ==
    /\ k \in DOMAIN loads /\ Valid(loads[k].place)
    /\ EndListing(k, loads[k].place, {})
    /\ UNCHANGED failures

(* The old list stays. *)
ListingFails(k) ==
    /\ k \in DOMAIN loads /\ Fails(~Valid(loads[k].place))
    /\ EndListing(k, shown, {"loadFailed"})

-----------------------------------------------------------------------------
(* New folders. *)

OpenNewFolder ==
    /\ SummitClick
    /\ newFolder' = "open"
    /\ UNCHANGED <<gone, container, crumbs, listVars, failures, folderId, deleteDialog, row,
                   target, putVars, cameBack>>

CancelNewFolder ==
    /\ newFolder = "open"
    /\ newFolder' = "closed"
    /\ UNCHANGED <<pageVars, folderId, deleteDialog, row, target, putVars, cameBack>>

OnCreateFolder ==
    /\ newFolder = "open"
    /\ newFolder' = "creating"
    /\ target' = <<container, folderId>>
    /\ UNCHANGED <<pageVars, folderId, deleteDialog, row, putVars, cameBack>>

(* Mutant of FolderCreated: nothing waits for the listing. *)
FolderCreatedOpen ==
    /\ newFolder = "creating" /\ Valid(target)
    /\ newFolder' = "listing"
    /\ LoadItems(target, Here, "cameBack", None)
    /\ UNCHANGED <<gone, container, crumbs, shown, events, failures, folderId, deleteDialog,
                   row, target, putVars, cameBack>>

FolderCreated ==
    /\ newFolder = "creating" /\ Valid(target)
    /\ newFolder' = "listing"
    /\ LoadItems(target, Here, "cameBack", "folder")
    /\ UNCHANGED <<gone, container, crumbs, shown, events, failures, folderId, deleteDialog,
                   row, target, putVars, cameBack>>

(* A folder 'undefined', or one of another container, is refused.  The     *)
(* await throws, and the dialog never closes.                              *)
FolderRefused ==
    /\ newFolder = "creating" /\ Fails(~Valid(target))
    /\ newFolder' = "hung"
    /\ UNCHANGED <<gone, container, crumbs, listVars, events, folderId, deleteDialog, row,
                   target, putVars, cameBack>>

-----------------------------------------------------------------------------
(* Uploads. *)

OnUploadFileSelected(u) ==
    /\ SummitClick /\ put[u] = <<None, None>>
    /\ put' = [put EXCEPT ![u] = <<container, FolderOrRoot>>]
    /\ aimed' = [aimed EXCEPT ![u] = Here]
    /\ uploading' = uploading \cup {u}
    /\ UNCHANGED <<gone, container, crumbs, listVars, failures, folderId, dialogVars, cameBack>>

(* The page lists the place of the upload, wherever it is by now. *)
PutDone(u) ==
    /\ u \in uploading /\ Valid(put[u])
    /\ uploading' = uploading \ {u}
    /\ LoadItems(put[u], Here, "upload", None)
    /\ UNCHANGED <<gone, container, crumbs, shown, events, failures, folderId, dialogVars, put,
                   aimed, cameBack>>

PutFails(u) ==
    /\ u \in uploading /\ Fails(~Valid(put[u]))
    /\ uploading' = uploading \ {u}
    /\ put' = [put EXCEPT ![u] = <<"failed", Root>>]
    /\ UNCHANGED <<gone, container, crumbs, listVars, events, folderId, dialogVars, aimed, cameBack>>

-----------------------------------------------------------------------------
(* Deleting. *)

(* The click on the button in a row selects the row as well. *)
OpenDelete(f) ==
    /\ SummitClick /\ f \in Listed
    /\ deleteDialog' = "open" /\ row' = f
    /\ UNCHANGED <<gone, container, crumbs, listVars, failures, folderId, newFolder, target,
                   putVars, cameBack>>

CancelDelete ==
    /\ deleteDialog = "open"
    /\ deleteDialog' = "closed"
    /\ UNCHANGED <<pageVars, folderId, newFolder, row, target, putVars, cameBack>>

OnDeleteItemClick ==
    /\ deleteDialog = "open"
    /\ deleteDialog' = "deleting"
    /\ UNCHANGED <<pageVars, folderId, newFolder, row, target, putVars, cameBack>>

(* The request names the row.  With a prefix Graph knows no such item.     *)
ItemKnown == ~RowPrefix /\ Valid(<<container, row>>)

ItemDeleted ==
    /\ deleteDialog = "deleting" /\ ItemKnown
    /\ gone' = gone \cup {row}
    /\ deleteDialog' = "listing"
    /\ LoadItems(<<container, FolderOrRoot>>, Here, "cameBack", "delete")
    /\ UNCHANGED <<container, crumbs, shown, events, failures, folderId, newFolder, row, target,
                   putVars, cameBack>>

DeleteRefused ==
    /\ deleteDialog = "deleting" /\ Fails(~ItemKnown)
    /\ deleteDialog' = "hung"
    /\ UNCHANGED <<gone, container, crumbs, listVars, events, folderId, newFolder, row, target,
                   putVars, cameBack>>

-----------------------------------------------------------------------------
DialogAnswered == FolderCreated \/ FolderRefused \/ ItemDeleted \/ DeleteRefused
ListingStep == \E k \in DOMAIN loads : ListingAnswered(k) \/ ListingFails(k)

SummitNext ==
    \/ \E c \in Containers : ContainerChange(c)
    \/ \E f \in Folders : NavigateToFolder(f) \/ OpenDelete(f)
    \/ \E k \in DOMAIN crumbs : CrumbClick(k)
    \/ \E u \in Uploads : OnUploadFileSelected(u) \/ PutDone(u) \/ PutFails(u)
    \/ OpenNewFolder \/ CancelNewFolder \/ OnCreateFolder
    \/ CancelDelete \/ OnDeleteItemClick
    \/ DialogAnswered \/ ListingStep

(* Every request is answered. *)
SummitFairness == WF_summitVars(DialogAnswered) /\ WF_summitVars(ListingStep)

SummitSpec == SummitInit /\ [][SummitNext]_summitVars
SummitFairSpec == SummitSpec /\ SummitFairness
-----------------------------------------------------------------------------
SummitTypeOK ==
    /\ PageTypeOK
    /\ folderId \in Folders \cup {Root, Undefined}
    /\ newFolder \in {"closed", "open", "creating", "listing", "hung"}
    /\ deleteDialog \in {"closed", "open", "deleting", "listing", "hung"}
    /\ row \in Folders \cup {None} /\ target \in Containers \X (Folders \cup {Root, Undefined})
    /\ put \in [Uploads -> Places \cup {<<None, None>>, <<"failed", Root>>}]
    /\ aimed \in [Uploads -> Places \cup {<<None, None>>}] /\ uploading \subseteq Uploads
    /\ \A u \in uploading : put[u] \in Places /\ aimed[u] \in Places
    /\ cameBack \in BOOLEAN

(* An upload goes where the breadcrumb said when it was chosen, or fails,  *)
(* unless the user came back to a container of which folderId still is a   *)
(* folder (Container.tsx:78-84, 117-125, 146-166).                         *)
LandsWhereShown ==
    ~cameBack => \A u \in uploading : InContainer(put[u]) => put[u] = aimed[u]

(* With no listing under way the page shows its place.  What may break     *)
(* this until it lists its place again: an answer that was overtaken or    *)
(* failed, the listing after an upload made elsewhere, and a folderId that *)
(* came back (Container.tsx:78-178).                                       *)
SummitShown ==
    loads = <<>> /\ causes \cap {"overtaken", "loadFailed", "upload", "cameBack"} = {}
        => shown = Here

(* A dialog that is at work closes, or its request was refused and it      *)
(* never does (Container.tsx:127-144, 168-178).                            *)
DialogsEnd ==
    /\ newFolder \in {"creating", "listing"} ~> newFolder \in {"closed", "hung"}
    /\ deleteDialog \in {"deleting", "listing"} ~> deleteDialog \in {"closed", "hung"}

(* "After a moment, the dialog will disappear and the file will no longer  *)
(* be present" (hands-on-labs/03-office-collab.md:299).                    *)
DeleteEnds == deleteDialog = "deleting" ~> deleteDialog = "closed"
=============================================================================
