---------------------------- MODULE FileSharing -----------------------------
(***************************************************************************)
(* What the Files component of the SPA sample does with one file           *)
(* (spa-azurefunction/packages/client-app/src/components/files.js): links  *)
(* to it, the permissions it has, and its preview.  FilesPage has the      *)
(* rest of the component; of its listings it matters here that every one   *)
(* that is answered deselects the row.                                     *)
(*                                                                         *)
(* A dialog covers the page, but it opens with an answer: until then the   *)
(* user can select another row.  Graph serves a request when its answer    *)
(* arrives, or although the answer is lost.                                *)
(***************************************************************************)
EXTENDS Naturals

CONSTANTS
    SharedFiles,
    NoFile,             \* no row is selected
    LinkTypes,          \* links to edit, or to view
    MaxSharingClicks    \* bound on what the user does

ASSUME SharingAssumption == NoFile \notin SharedFiles /\ MaxSharingClicks \in Nat

VARIABLES
    picked,             \* the file whose row is selected
    granted,            \* the links that Graph knows
    asks,               \* requests for permissions under way
    revokes,            \* requests to delete one
    isDriveItemPermissionDialogOpen,
    driveItemPermissions,   \* the links in that dialog
    linkCalls,          \* requests for a link
    shareDialog,
    shareLink,
    linkShown,          \* what the text field of the dialog shows
    clipboard,
    previews,           \* requests for a preview
    previewDialog,
    sharingClicks,      \* counts what the user did
    crossed,            \* history: when the dialog opened, the row of another
                        \* file was selected
    relinked,           \* history: a link came while the dialog was open
    copiedFrom          \* history: what the dialog showed when it was copied

permissionVars == <<asks, revokes, isDriveItemPermissionDialogOpen, driveItemPermissions, crossed>>
linkDialogVars == <<linkCalls, shareDialog, shareLink, linkShown, relinked>>
clipboardVars == <<clipboard, copiedFrom>>
previewVars == <<previews, previewDialog>>
sharingVars == <<picked, granted, permissionVars, linkDialogVars, clipboardVars, previewVars,
                 sharingClicks>>

Links == SharedFiles \X LinkTypes
NoLink == <<>>

SharingInit ==
    /\ picked = NoFile /\ granted = {}
    /\ asks = {} /\ revokes = {} /\ crossed = FALSE
    /\ isDriveItemPermissionDialogOpen = FALSE /\ driveItemPermissions = {}
    /\ linkCalls = {} /\ shareDialog = FALSE /\ shareLink = NoLink /\ linkShown = NoLink
    /\ relinked = FALSE /\ clipboard = NoLink /\ copiedFrom = NoLink
    /\ previews = 0 /\ previewDialog = FALSE /\ sharingClicks = 0

SharingClick == sharingClicks < MaxSharingClicks /\ sharingClicks' = sharingClicks + 1

RowClick ==
    SharingClick /\ ~(isDriveItemPermissionDialogOpen \/ shareDialog \/ previewDialog)

-----------------------------------------------------------------------------
(* The list. *)

(* Mutant of Pick: the list is not covered. *)
PickBehind(f) ==
    /\ SharingClick /\ picked' = f
    /\ UNCHANGED <<granted, permissionVars, linkDialogVars, clipboardVars, previewVars>>

(* A second click deselects the row. *)
Pick(f) ==
    /\ RowClick /\ picked' = f
    /\ UNCHANGED <<granted, permissionVars, linkDialogVars, clipboardVars, previewVars>>

ItemsReplaced ==
    /\ picked' = NoFile
    /\ UNCHANGED <<granted, permissionVars, linkDialogVars, clipboardVars, previewVars,
                   sharingClicks>>

-----------------------------------------------------------------------------
(* The permissions of a file. *)

ShowDriveItemPermissions ==
    /\ RowClick /\ picked # NoFile
    /\ asks' = asks \cup {[item |-> picked, at |-> sharingClicks]}
    /\ UNCHANGED <<picked, granted, revokes, isDriveItemPermissionDialogOpen,
                   driveItemPermissions, crossed, linkDialogVars, clipboardVars, previewVars>>

PermissionsAnswered(a) ==
    /\ a \in asks /\ asks' = asks \ {a}
    /\ isDriveItemPermissionDialogOpen' = TRUE
    /\ driveItemPermissions' = {l \in granted : l[1] = a.item}
    /\ crossed' = (picked \notin {a.item, NoFile})
    /\ UNCHANGED <<picked, granted, revokes, linkDialogVars, clipboardVars, previewVars,
                   sharingClicks>>

PermissionsFail(a) ==
    /\ a \in asks /\ asks' = asks \ {a}
    /\ UNCHANGED <<picked, granted, revokes, isDriveItemPermissionDialogOpen,
                   driveItemPermissions, crossed, linkDialogVars, clipboardVars, previewVars,
                   sharingClicks>>

(* It asks for the file whose row is selected now; with none it throws.    *)
DeleteDriveItemPermission(l) ==
    /\ SharingClick /\ isDriveItemPermissionDialogOpen
    /\ l \in driveItemPermissions /\ picked # NoFile
    /\ revokes' = revokes \cup {[item |-> picked, link |-> l, crossed |-> crossed]}
    /\ UNCHANGED <<picked, granted, asks, isDriveItemPermissionDialogOpen, driveItemPermissions,
                   crossed, linkDialogVars, clipboardVars, previewVars>>

(* Graph has the link, and has it for this file. *)
Revocable(r) == r.link \in granted /\ r.link[1] = r.item

(* It closes the dialog, whatever is in it by now. *)
RevokeAnswered(r) ==
    /\ r \in revokes /\ revokes' = revokes \ {r}
    /\ Revocable(r) /\ granted' = granted \ {r.link}
    /\ isDriveItemPermissionDialogOpen' = FALSE
    /\ UNCHANGED <<picked, asks, driveItemPermissions, crossed, linkDialogVars, clipboardVars,
                   previewVars, sharingClicks>>

RevokeFails(r) ==
    /\ r \in revokes /\ revokes' = revokes \ {r}
    /\ \/ UNCHANGED granted
       \/ Revocable(r) /\ granted' = granted \ {r.link}
    /\ UNCHANGED <<picked, asks, isDriveItemPermissionDialogOpen, driveItemPermissions, crossed,
                   linkDialogVars, clipboardVars, previewVars, sharingClicks>>

HideDriveItemPermissionsDialog ==
    /\ SharingClick /\ isDriveItemPermissionDialogOpen
    /\ isDriveItemPermissionDialogOpen' = FALSE
    /\ UNCHANGED <<picked, granted, asks, revokes, driveItemPermissions, crossed, linkDialogVars,
                   clipboardVars, previewVars>>

-----------------------------------------------------------------------------
(* Links. *)

ShareItem(permType) ==
    /\ RowClick /\ picked # NoFile
    /\ linkCalls' = linkCalls \cup {[link |-> <<picked, permType>>, at |-> sharingClicks]}
    /\ UNCHANGED <<picked, granted, permissionVars, shareDialog, shareLink, linkShown, relinked,
                   clipboardVars, previewVars>>

(* The text field keeps its first value while the dialog is open.          *)
ShareAnswered(s) ==
    /\ s \in linkCalls /\ linkCalls' = linkCalls \ {s}
    /\ granted' = granted \cup {s.link}
    /\ shareDialog' = TRUE /\ shareLink' = s.link
    /\ IF shareDialog THEN relinked' = TRUE /\ UNCHANGED linkShown
                      ELSE linkShown' = s.link /\ UNCHANGED relinked
    /\ UNCHANGED <<picked, permissionVars, clipboardVars, previewVars, sharingClicks>>

ShareFails(s) ==
    /\ s \in linkCalls /\ linkCalls' = linkCalls \ {s}
    /\ granted' \in {granted, granted \cup {s.link}}
    /\ UNCHANGED <<picked, permissionVars, shareDialog, shareLink, linkShown, relinked,
                   clipboardVars, previewVars, sharingClicks>>

(* Escape in the dialog of a preview does this too, and leaves that dialog *)
(* open.                                                                   *)
HideShareDialog ==
    /\ SharingClick /\ (shareDialog \/ previewDialog)
    /\ shareDialog' = FALSE /\ shareLink' = NoLink /\ linkShown' = NoLink
    /\ UNCHANGED <<picked, granted, permissionVars, linkCalls, relinked, clipboardVars,
                   previewVars>>

AddShareLinkToClipboard ==
    /\ SharingClick /\ shareDialog
    /\ clipboard' = shareLink /\ copiedFrom' = linkShown
    /\ UNCHANGED <<picked, granted, permissionVars, linkDialogVars, previewVars>>

-----------------------------------------------------------------------------
(* Previews: a link in the row, that needs no selection. *)

PreviewItem ==
    /\ RowClick /\ previewDialog' = TRUE /\ previews' = previews + 1
    /\ UNCHANGED <<picked, granted, permissionVars, linkDialogVars, clipboardVars>>

PreviewAnswered ==
    /\ previews > 0 /\ previews' = previews - 1 /\ previewDialog' = FALSE
    /\ UNCHANGED <<picked, granted, permissionVars, linkDialogVars, clipboardVars, sharingClicks>>

PreviewFails ==
    /\ previews > 0 /\ previews' = previews - 1
    /\ UNCHANGED <<picked, granted, permissionVars, linkDialogVars, clipboardVars, previewDialog,
                   sharingClicks>>

HidePreviewDialog ==
    /\ SharingClick /\ previewDialog /\ previewDialog' = FALSE
    /\ UNCHANGED <<picked, granted, permissionVars, linkDialogVars, clipboardVars, previews>>

SharingNext ==
    \/ \E f \in SharedFiles \cup {NoFile} : Pick(f)
    \/ \E a \in asks : PermissionsAnswered(a) \/ PermissionsFail(a)
    \/ \E l \in driveItemPermissions : DeleteDriveItemPermission(l)
    \/ \E r \in revokes : RevokeAnswered(r) \/ RevokeFails(r)
    \/ \E permType \in LinkTypes : ShareItem(permType)
    \/ \E s \in linkCalls : ShareAnswered(s) \/ ShareFails(s)
    \/ ItemsReplaced \/ ShowDriveItemPermissions \/ HideDriveItemPermissionsDialog
    \/ HideShareDialog \/ AddShareLinkToClipboard
    \/ PreviewItem \/ PreviewAnswered \/ PreviewFails \/ HidePreviewDialog

SharingSpec == SharingInit /\ [][SharingNext]_sharingVars
-----------------------------------------------------------------------------
SharingTypeOK ==
    /\ picked \in SharedFiles \cup {NoFile}
    /\ granted \subseteq Links /\ driveItemPermissions \subseteq Links
    /\ asks \subseteq [item : SharedFiles, at : Nat]
    /\ revokes \subseteq [item : SharedFiles, link : Links, crossed : BOOLEAN]
    /\ linkCalls \subseteq [link : Links, at : Nat]
    /\ isDriveItemPermissionDialogOpen \in BOOLEAN /\ shareDialog \in BOOLEAN
    /\ previewDialog \in BOOLEAN /\ crossed \in BOOLEAN /\ relinked \in BOOLEAN
    /\ {shareLink, linkShown, clipboard, copiedFrom} \subseteq Links \cup {NoLink}
    /\ previews \in Nat /\ sharingClicks \in 0..MaxSharingClicks

(* A link is revoked of the file it leads to, unless another row was       *)
(* selected while the permissions were asked for: the request names the    *)
(* file that is selected by then.  What is copied is what the dialog       *)
(* showed, unless another link came while it was open (files.js:652-665,   *)
(* 685-705, 805-807).                                                      *)
DialogsActAsShown ==
    /\ \A r \in revokes : ~r.crossed => r.item = r.link[1]
    /\ ~relinked => clipboard = copiedFrom
=============================================================================
