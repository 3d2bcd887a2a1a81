--------------------------- MODULE SpaPermissions ---------------------------
(***************************************************************************)
(* The Containers component of the SPA sample and the Permissions view     *)
(* that Files shows in it (client-app/src/components/containers.js and     *)
(* permissions.js).  The view lists the permissions of its container when  *)
(* it opens and whenever Containers renders, for the handler that it is    *)
(* given is then a new one.  What it asks for goes on, to its last await,  *)
(* with the container of the render that it was made in.                   *)
(*                                                                         *)
(* A permission is told by the container whose list showed it.  Listings   *)
(* of one container that a handler asks for in a row count as one, and the *)
(* first page of an answer, all that the code reads, as the whole of it.   *)
(***************************************************************************)
EXTENDS SpaApi, Naturals, Sequences, SequencesExt

CONSTANTS
    Vaults,         \* containers
    NoVault,        \* none
    MaxListings,    \* bound on listings under way
    MaxCalls,       \* bound on additions and deletions under way
    MaxCreations,   \* bound on containers under creation
    MaxClicks       \* bound on what the user does

ASSUME VaultAssumption ==
    /\ NoVault \notin Vaults
    /\ MaxListings \in Nat /\ MaxCalls \in Nat /\ MaxCreations \in Nat /\ MaxClicks \in Nat

VARIABLES
    firstVaults,        \* the containers there were when the page opened
    asking,             \* whether these are still being listed
    containers,         \* the state of Containers
    selectedContainer,
    hideDialog,         \* of the dialog for a new container
    creations,          \* counts the containers under creation
    showPermissions,    \* the state of Files: whether the view is there
    permissions,        \* the container whose permissions it shows
    selectedPermission, \* the container of the row to delete
    hasty,              \* history: it was chosen while the list was not settled,
                        \* or another container came under the dialog
    showAddDialog,
    showDeleteDialog,
    listings,           \* listings under way, in the order of their requests
    calls,              \* additions and deletions under way
    unsure,             \* history: what may come or has come last is not the
                        \* list of this container
    clicks              \* counts what the user did

containerVars == <<firstVaults, asking, containers, selectedContainer, hideDialog, creations>>
rowVars == <<selectedPermission, hasty, showDeleteDialog>>
viewVars == <<showPermissions, permissions, showAddDialog, rowVars>>
spaVars == <<containerVars, viewVars, listings, calls, unsure, clicks>>

SpaInit ==
    /\ firstVaults \in SUBSET Vaults /\ asking = TRUE /\ containers = {}
    /\ selectedContainer = NoVault /\ hideDialog = TRUE /\ creations = 0
    /\ showPermissions = FALSE /\ permissions = NoVault
    /\ selectedPermission = NoVault /\ hasty = FALSE
    /\ showAddDialog = FALSE /\ showDeleteDialog = FALSE
    /\ listings = <<>> /\ calls = <<>> /\ unsure = FALSE /\ clicks = 0

SpaClick == clicks < MaxClicks /\ clicks' = clicks + 1

(* The dialogs are modal. *)
NoDialog == hideDialog /\ ~showAddDialog /\ ~showDeleteDialog

Settled == listings = <<>> /\ ~unsure

Listing(c) == [of |-> c, late |-> FALSE]

(* The view, over container here, asks for the permissions of cs in turn.  *)
LoadPermissions(cs, here) ==
    /\ Len(listings) + Len(cs) <= MaxListings
    /\ listings' = listings \o [j \in DOMAIN cs |-> Listing(cs[j])]
    /\ unsure' = (Last(cs) # here)

(* Mutant of Render: the view lists its container once, when it opens. *)
RenderUnlisted(cs) == UNCHANGED <<listings, unsure>>

(* Containers renders with each of cs in turn. *)
Render(cs) ==
    IF showPermissions THEN LoadPermissions(cs, Last(cs)) ELSE UNCHANGED <<listings, unsure>>

-----------------------------------------------------------------------------
(* Containers. *)

(* Graph may have listed some of what was created by now, or none.  What   *)
(* comes replaces the rest.                                                *)
VaultsListed ==
    /\ asking /\ listContainers(TRUE, TRUE) = "value"
    /\ asking' = FALSE
    /\ \E more \in SUBSET containers : containers' = firstVaults \cup more
    /\ Render(<<selectedContainer>>)
    /\ UNCHANGED <<firstVaults, selectedContainer, hideDialog, creations, viewVars, calls, clicks>>

(* Reading the list of null throws. *)
VaultsNotListed ==
    /\ asking /\ \E token, graph \in BOOLEAN : listContainers(token, graph) = "null"
    /\ asking' = FALSE
    /\ UNCHANGED <<firstVaults, containers, selectedContainer, hideDialog, creations, viewVars,
                   listings, calls, unsure, clicks>>

SelectContainer(c) ==
    /\ SpaClick /\ NoDialog /\ c \in containers \ {selectedContainer}
    /\ selectedContainer' = c
    /\ Render(<<c>>)
    /\ UNCHANGED <<firstVaults, asking, containers, hideDialog, creations, viewVars, calls>>

(* The dialog is opened, or closed although a container is under creation. *)
ToggleDialog ==
    /\ SpaClick /\ (NoDialog \/ ~hideDialog)
    /\ hideDialog' = ~hideDialog
    /\ Render(<<selectedContainer>>)
    /\ UNCHANGED <<firstVaults, asking, containers, selectedContainer, creations, viewVars, calls>>

TypeName ==
    /\ SpaClick /\ ~hideDialog
    /\ Render(<<selectedContainer>>)
    /\ UNCHANGED <<containerVars, viewVars, calls>>

(* Nothing keeps the user from pressing the button again. *)
PressCreate ==
    /\ SpaClick /\ ~hideDialog /\ creations < MaxCreations
    /\ creations' = creations + 1
    /\ Render(<<selectedContainer>>)
    /\ UNCHANGED <<firstVaults, asking, containers, selectedContainer, hideDialog, viewVars, calls>>

(* toggleHideDialog opens a dialog that was closed meanwhile. *)
VaultCreated(c) ==
    /\ creations > 0 /\ createContainer(TRUE, TRUE, TRUE) = "value"
    /\ c \notin firstVaults \cup containers \cup {selectedContainer}
    /\ creations' = creations - 1
    /\ containers' = containers \cup {c} /\ selectedContainer' = c
    /\ hideDialog' = ~hideDialog
    /\ Render(<<selectedContainer, c>>)
    /\ hasty' = (hasty \/ showDeleteDialog)
    /\ UNCHANGED <<firstVaults, asking, showPermissions, permissions, selectedPermission,
                   showAddDialog, showDeleteDialog, calls, clicks>>

(* The fields are emptied, and the dialog stays as it is. *)
CreationRefused ==
    /\ creations > 0
    /\ \E named, token, graph \in BOOLEAN : createContainer(named, token, graph) = "null"
    /\ creations' = creations - 1
    /\ Render(<<selectedContainer>>)
    /\ UNCHANGED <<firstVaults, asking, containers, selectedContainer, hideDialog, viewVars,
                   calls, clicks>>

-----------------------------------------------------------------------------
(* The view. *)

OpenPermissionsView ==
    /\ SpaClick /\ NoDialog /\ selectedContainer # NoVault /\ ~showPermissions
    /\ showPermissions' = TRUE
    /\ LoadPermissions(<<selectedContainer>>, selectedContainer)
    /\ UNCHANGED <<containerVars, permissions, showAddDialog, rowVars, calls>>

(* What is under way goes on, but its answers reach nobody. *)
ClosePermissionsView ==
    /\ SpaClick /\ NoDialog /\ showPermissions
    /\ showPermissions' = FALSE /\ permissions' = NoVault
    /\ selectedPermission' = NoVault /\ hasty' = FALSE
    /\ listings' = <<>> /\ unsure' = FALSE
    /\ calls' = [j \in DOMAIN calls |-> [calls[j] EXCEPT !.mounted = FALSE]]
    /\ UNCHANGED <<containerVars, showAddDialog, showDeleteDialog>>

(* Listing k is over; those asked for earlier have been overtaken. *)
EndRows(k, isUnsure) ==
    /\ listings' = RemoveAt([j \in DOMAIN listings |->
                       IF j < k THEN [listings[j] EXCEPT !.late = TRUE] ELSE listings[j]], k)
    /\ unsure' = (unsure \/ isUnsure)
    /\ UNCHANGED <<containerVars, showPermissions, showAddDialog, rowVars, calls, clicks>>

PermissionsListed(k) ==
    /\ k \in DOMAIN listings /\ listContainerPermissions(TRUE, TRUE) = "value"
    /\ permissions' = listings[k].of
    /\ EndRows(k, listings[k].late)

(* Null leaves no row. *)
PermissionsRefused(k) ==
    /\ k \in DOMAIN listings
    /\ \E token, graph \in BOOLEAN : listContainerPermissions(token, graph) = "null"
    /\ permissions' = NoVault
    /\ EndRows(k, listings[k].late)

(* The old list stays, under the spinner. *)
PermissionsThrow(k) ==
    /\ k \in DOMAIN listings
    /\ EndRows(k, TRUE)
    /\ UNCHANGED permissions

ShowAddDialog(isShown) ==
    /\ SpaClick /\ showPermissions /\ showAddDialog = ~isShown /\ (isShown => NoDialog)
    /\ showAddDialog' = isShown
    /\ UNCHANGED <<containerVars, showPermissions, permissions, rowVars, listings, calls, unsure>>

(* The icon in a row. *)
ShowDeleteDialog ==
    /\ SpaClick /\ NoDialog /\ permissions # NoVault
    /\ showDeleteDialog' = TRUE
    /\ selectedPermission' = permissions /\ hasty' = ~Settled
    /\ UNCHANGED <<containerVars, showPermissions, permissions, showAddDialog, listings, calls, unsure>>

HandleCloseDeletePermissionDialog ==
    /\ SpaClick /\ showDeleteDialog
    /\ showDeleteDialog' = FALSE
    /\ UNCHANGED <<containerVars, showPermissions, permissions, showAddDialog, selectedPermission,
                   hasty, listings, calls, unsure>>

Call(c, of, isEarly) ==
    /\ Len(calls) < MaxCalls
    /\ calls' = Append(calls, [at |-> c, of |-> of, hasty |-> isEarly, mounted |-> TRUE])

(* The new permission is told by the container that it is added to. *)
HandleAddPermission ==
    /\ SpaClick /\ showAddDialog
    /\ showAddDialog' = FALSE
    /\ Call(selectedContainer, selectedContainer, FALSE)
    /\ UNCHANGED <<containerVars, showPermissions, permissions, rowVars, listings, unsure>>

(* The request names the container of the render and the id of the row.    *)
HandleDeletePermission ==
    /\ SpaClick /\ showDeleteDialog
    /\ showDeleteDialog' = FALSE
    /\ Call(selectedContainer, selectedPermission, hasty)
    /\ UNCHANGED <<containerVars, showPermissions, permissions, showAddDialog, selectedPermission,
                   hasty, listings, unsure>>

(* Whatever came of it, the container of the call is listed again. *)
CallDone(k) ==
    /\ k \in DOMAIN calls
    /\ \E token, rootSite, graph \in BOOLEAN :
           \/ addContainerPermission(token, rootSite, graph) \in {"value", "null"}
           \/ deleteContainerPermissionById(token, graph) \in {"undefined", "null"}
    /\ calls' = RemoveAt(calls, k)
    /\ IF calls[k].mounted THEN LoadPermissions(<<calls[k].at>>, selectedContainer)
       ELSE UNCHANGED <<listings, unsure>>
    /\ UNCHANGED <<containerVars, viewVars, clicks>>

CallThrows(k) ==
    /\ k \in DOMAIN calls
    /\ calls' = RemoveAt(calls, k)
    /\ UNCHANGED <<containerVars, viewVars, listings, unsure, clicks>>

-----------------------------------------------------------------------------
SpaNext ==
    \/ VaultsListed \/ VaultsNotListed
    \/ \E c \in Vaults : SelectContainer(c) \/ VaultCreated(c)
    \/ ToggleDialog \/ TypeName \/ PressCreate \/ CreationRefused
    \/ OpenPermissionsView \/ ClosePermissionsView
    \/ \E k \in DOMAIN listings : PermissionsListed(k) \/ PermissionsRefused(k) \/ PermissionsThrow(k)
    \/ \E isShown \in BOOLEAN : ShowAddDialog(isShown)
    \/ ShowDeleteDialog \/ HandleCloseDeletePermissionDialog
    \/ HandleAddPermission \/ HandleDeletePermission
    \/ \E k \in DOMAIN calls : CallDone(k) \/ CallThrows(k)

SpaSpec == SpaInit /\ [][SpaNext]_spaVars
-----------------------------------------------------------------------------
SpaTypeOK ==
    /\ firstVaults \subseteq Vaults /\ asking \in BOOLEAN /\ containers \subseteq Vaults
    /\ selectedContainer \in Vaults \cup {NoVault}
    /\ hideDialog \in BOOLEAN /\ creations \in 0..MaxCreations
    /\ showPermissions \in BOOLEAN /\ permissions \in Vaults \cup {NoVault}
    /\ selectedPermission \in Vaults \cup {NoVault} /\ hasty \in BOOLEAN
    /\ showAddDialog \in BOOLEAN /\ showDeleteDialog \in BOOLEAN
    /\ listings \in Seq([of : Vaults, late : BOOLEAN])
    /\ calls \in Seq([at : Vaults, of : Vaults, hasty : BOOLEAN, mounted : BOOLEAN])
    /\ unsure \in BOOLEAN /\ clicks \in 0..MaxClicks

(* A permission is deleted in the container whose list showed it, unless   *)
(* its row was chosen before the list had settled, or a container whose    *)
(* creation the user had dismissed came under the dialog                   *)
(* (permissions.js:74-106, 123-128; containers.js:21-43).                  *)
DeletesOwn == \A k \in DOMAIN calls : ~calls[k].hasty => calls[k].of = calls[k].at
=============================================================================
