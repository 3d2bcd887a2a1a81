-------------------------- MODULE SummitContainers --------------------------
(***************************************************************************)
(* The Containers component of the DevSummit sample and its two dialogs    *)
(* (04-checkpoint/src/components/Containers.tsx, dialogs/Search.tsx and    *)
(* NewContainer.tsx).  The containers are listed once, when the page       *)
(* opens; what the page creates is added, and what others create is known  *)
(* to the search alone.  Both dialogs are modal and cannot be closed while *)
(* they work.  The first page of Graph's list, which is all that the code  *)
(* reads, here has all containers.                                         *)
(***************************************************************************)
EXTENDS SummitApi, Naturals, FiniteSets

CONSTANTS
    Drives,         \* containers
    NoDrive,        \* none selected
    Failure         \* a failure of the API that was taken for a container

ASSUME ContainersAssumption ==
    NoDrive \notin Drives /\ Failure \notin Drives /\ Failure # NoDrive

VARIABLES
    existing,       \* containers of the tenant
    listing,        \* the listing: "asked", "listed" by Graph, "over"
    listed,         \* what Graph listed
    known,          \* containers, the state of the component
    current,        \* selectedContainer
    creating,       \* the creation dialog: "closed", "open", "asked",
                    \* "done" by Graph, or "hung"
    made,           \* what Graph created
    search,         \* the search dialog: "closed", "open", "working", "hung"
    byContainer,    \* modeSearchContainer
    found,          \* containers among the search results
    forgot          \* history: containers that the listing took away again

listingVars == <<existing, listing, listed>>
createVars == <<creating, made>>
searchDialogVars == <<search, byContainer, found>>
containersVars == <<listingVars, known, current, createVars, searchDialogVars, forgot>>

ContainersInit ==
    /\ existing \in SUBSET Drives /\ listing = "asked" /\ listed = {}
    /\ known = {} /\ current = NoDrive
    /\ creating = "closed" /\ made = NoDrive
    /\ search = "closed" /\ byContainer = TRUE /\ found = {}
    /\ forgot = {}

ModalClosed == creating = "closed" /\ search = "closed"

-----------------------------------------------------------------------------
OthersCreate(d) ==
    /\ d \notin existing /\ existing' = existing \cup {d}
    /\ UNCHANGED <<listing, listed, known, current, createVars, searchDialogVars, forgot>>

GraphLists ==
    /\ listing = "asked" /\ ListContainers(TRUE, TRUE) = "value"
    /\ listing' = "listed" /\ listed' = existing
    /\ UNCHANGED <<existing, known, current, createVars, searchDialogVars, forgot>>

(* setContainers replaces what was created while the listing was under way. *)
ListAnswered ==
    /\ listing = "listed"
    /\ listing' = "over" /\ known' = listed
    /\ forgot' = known \ listed
    /\ UNCHANGED <<existing, listed, current, createVars, searchDialogVars>>

ListRefused ==
    /\ listing = "asked" /\ \E token, graph \in BOOLEAN : ListContainers(token, graph) = "undefined"
    /\ listing' = "over"
    /\ UNCHANGED <<existing, listed, known, current, createVars, searchDialogVars, forgot>>

(* A failure has no id by which it would be found. *)
SelectDrive(d) ==
    /\ ModalClosed /\ d \in known
    /\ current' = IF d = Failure THEN NoDrive ELSE d
    /\ UNCHANGED <<listingVars, known, createVars, searchDialogVars, forgot>>

-----------------------------------------------------------------------------
(* Creating a container. *)

OpenCreation ==
    /\ ModalClosed /\ creating' = "open"
    /\ UNCHANGED <<listingVars, known, current, made, searchDialogVars, forgot>>

CancelCreation ==
    /\ creating = "open" /\ creating' = "closed"
    /\ UNCHANGED <<listingVars, known, current, made, searchDialogVars, forgot>>

OnContainerCreateClick ==
    /\ creating = "open" /\ creating' = "asked"
    /\ UNCHANGED <<listingVars, known, current, made, searchDialogVars, forgot>>

GraphCreates(d) ==
    /\ creating = "asked" /\ CreateContainer(TRUE, TRUE) = "value" /\ d \notin existing
    /\ existing' = existing \cup {d} /\ creating' = "done" /\ made' = d
    /\ UNCHANGED <<listing, listed, known, current, searchDialogVars, forgot>>

CreateAnswered ==
    /\ creating = "done" /\ creating' = "closed"
    /\ known' = known \cup {made} /\ current' = made
    /\ UNCHANGED <<listingVars, made, searchDialogVars, forgot>>

(* The API refuses, which closes the dialog without a word. *)
CreateRefused ==
    /\ creating = "asked"
    /\ \E token, graph \in BOOLEAN : CreateContainer(token, graph) = "undefined"
    /\ creating' = "closed"
    /\ UNCHANGED <<listingVars, known, current, made, searchDialogVars, forgot>>

(* The failure to exchange the token becomes a container, and is shown. *)
CreateFails ==
    /\ creating = "asked"
    /\ \E token, graph \in BOOLEAN : CreateContainer(token, graph) = "failure"
    /\ creating' = "closed"
    /\ known' = known \cup {Failure} /\ current' = Failure
    /\ UNCHANGED <<listingVars, made, searchDialogVars, forgot>>

(* No answer at all: the dialog keeps its spinner. *)
CreateThrows ==
    /\ creating \in {"asked", "done"} /\ creating' = "hung"
    /\ UNCHANGED <<listingVars, known, current, made, searchDialogVars, forgot>>

-----------------------------------------------------------------------------
(* Searching. *)

OpenSearch ==
    /\ ModalClosed
    /\ search' = "open" /\ byContainer' = (current = NoDrive \/ current = Failure) /\ found' = {}
    /\ UNCHANGED <<listingVars, known, current, createVars, forgot>>

SetSearchMode ==
    /\ search = "open"
    /\ byContainer' = ~byContainer
    /\ UNCHANGED <<listingVars, known, current, createVars, search, found, forgot>>

ExecuteSearch ==
    /\ search = "open"
    /\ search' = "working" /\ found' = {}
    /\ UNCHANGED <<listingVars, known, current, createVars, byContainer, forgot>>

ResultsAnswered(ds) ==
    /\ search = "working" /\ search' = "open"
    /\ found' = IF byContainer THEN ds \cap existing ELSE {}
    /\ UNCHANGED <<listingVars, known, current, createVars, byContainer, forgot>>

SearchThrows ==
    /\ search = "working" /\ search' = "hung"
    /\ UNCHANGED <<listingVars, known, current, createVars, byContainer, found, forgot>>

(* Mutant of ViewContainer: the container itself is selected. *)
ViewAny(d) ==
    /\ search = "open" /\ d \in found
    /\ search' = "closed" /\ current' = d
    /\ UNCHANGED <<listingVars, known, createVars, byContainer, found, forgot>>

(* onClose looks the container up in those that the page knows; one that   *)
(* it does not know is undefined, and nothing is selected.                 *)
ViewContainer(d) ==
    /\ search = "open" /\ d \in found
    /\ search' = "closed"
    /\ current' = IF d \in known THEN d ELSE NoDrive
    /\ UNCHANGED <<listingVars, known, createVars, byContainer, found, forgot>>

CloseSearchDialog ==
    /\ search = "open" /\ search' = "closed"
    /\ UNCHANGED <<listingVars, known, current, createVars, byContainer, found, forgot>>

ContainersNext ==
    \/ \E d \in Drives : OthersCreate(d) \/ GraphCreates(d) \/ ViewContainer(d)
    \/ \E d \in known : SelectDrive(d)
    \/ GraphLists \/ ListAnswered \/ ListRefused
    \/ OpenCreation \/ CancelCreation \/ OnContainerCreateClick
    \/ CreateAnswered \/ CreateRefused \/ CreateFails \/ CreateThrows
    \/ OpenSearch \/ SetSearchMode \/ ExecuteSearch \/ SearchThrows \/ CloseSearchDialog
    \/ \E ds \in SUBSET Drives : ResultsAnswered(ds)

ContainersSpec == ContainersInit /\ [][ContainersNext]_containersVars
-----------------------------------------------------------------------------
ContainersTypeOK ==
    /\ existing \subseteq Drives /\ listed \subseteq Drives
    /\ known \subseteq Drives \cup {Failure} /\ current \in Drives \cup {NoDrive, Failure}
    /\ made \in Drives \cup {NoDrive}
    /\ listing \in {"asked", "listed", "over"}
    /\ creating \in {"closed", "open", "asked", "done", "hung"}
    /\ creating = "done" => made \in Drives
    /\ search \in {"closed", "open", "working", "hung"} /\ byContainer \in BOOLEAN
    /\ found \subseteq Drives /\ forgot \subseteq Drives \cup {Failure}

(* The container that is shown is in the list to choose from, unless it    *)
(* was created before the listing answered, which did not have it yet      *)
(* (Containers.tsx:61-91, 128-136).                                        *)
ShownIsKnown == current # NoDrive => current \in known \cup forgot
=============================================================================
