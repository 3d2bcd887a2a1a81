-------------------------- MODULE ContainerBrowser --------------------------
(***************************************************************************)
(* The page of one container in the React client of the Azure Functions    *)
(* sample (react-client/src/components/ContainerBrowser.tsx): the folder   *)
(* it shows, the listings it asks Graph for, the sockets that make it ask  *)
(* again, and the preview of a file.  ContainerActionBar adds the toolbar. *)
(*                                                                         *)
(* An item is a drive item by its id: it is created at most once, and an   *)
(* id that was deleted never comes back.  Names are left out.  Of a        *)
(* listing the code reads Graph's first page, which here has all items.    *)
(***************************************************************************)
EXTENDS Naturals, Sequences, SequencesExt

CONSTANTS
    Folders, Files,     \* drive items
    Start,              \* where each item is when the page is opened
    MaxLoads,           \* bound on listings under way
    MaxEvents,          \* bound on what users do, and on requests that fail
    Root,               \* 'root'
    Unborn, Gone,       \* where an item is before and after it exists
    None

Items == Folders \cup Files
Places == Folders \cup {Root}

ASSUME BrowserAssumption ==
    /\ Folders \cap Files = {}
    /\ {Root, Unborn, Gone, None} \cap Items = {}
    /\ Root \notin {Unborn, Gone, None}
    /\ Start \in [Items -> Places \cup {Unborn, Gone}]
    /\ MaxLoads \in Nat /\ MaxEvents \in Nat

VARIABLES
    where,          \* the drive: the folder that each item is in
    parentId,       \* the folder that the page is at
    folderPath,     \* its breadcrumb
    driveItems,     \* the listing on the screen
    selectedItem,
    loads,          \* listings under way, in the order of their requests
    sockets,        \* the folders that the open sockets will list
    previewFile,    \* the file in the preview, None when it is closed
    previewUrl,     \* the file that the url in the preview is of
    asks,           \* requests for a preview url under way, per file
    alive,          \* FALSE once the route shows the error page
    events,         \* counts what users did and what failed
    causes,         \* history: what may have left the screen out of date
    left            \* history: the preview was closed before an answer

listVars == <<driveItems, loads, sockets, causes>>
placeVars == <<parentId, folderPath, selectedItem>>
previewVars == <<previewFile, previewUrl, asks, left>>
browserVars == <<where, listVars, placeVars, previewVars, alive, events>>

Causes == {"overtaken", "listingFailed", "olderSocket", "elsewhere", "replyLost"}

Contents(f) == {i \in Items : where[i] = f}

(* An item exists if it and every folder above it does. *)
Exists[i \in Items \cup {Root}] ==
    IF i = Root THEN TRUE ELSE IF where[i] \in Places THEN Exists[where[i]] ELSE FALSE

-----------------------------------------------------------------------------
(* filesApi.listItems, of what Graph has now or when it answers. *)
ListItems(f) ==
    /\ Len(loads) < MaxLoads
    /\ loads' = Append(loads, [folder |-> f, seen |-> Contents(f), late |-> FALSE])

(* The effect, for the container, parentId p and the time of a refresh: it *)
(* lists p, and opens one more socket, which will list p for ever.  A url  *)
(* that cannot be had is a socket whose notifications all get lost.        *)
RunEffect(p) ==
    /\ ListItems(p)
    /\ sockets' = sockets \cup {p}
    /\ causes' = {}
    /\ UNCHANGED driveItems

(* refresh, which the toolbar calls.  Two in one millisecond are one: the  *)
(* listing that the first asks for is read after both changes.             *)
Refresh == RunEffect(parentId)

BrowserInit ==
    /\ where = Start /\ parentId = Root /\ folderPath = <<>>
    /\ driveItems = {} /\ selectedItem = None
    /\ loads = <<[folder |-> Root, seen |-> {i \in Items : Start[i] = Root}, late |-> FALSE]>>
    /\ sockets = {Root} /\ causes = {}
    /\ previewFile = None /\ previewUrl = None
    /\ asks = [f \in Files |-> 0] /\ left = FALSE
    /\ alive = TRUE /\ events = 0

Event == events < MaxEvents /\ events' = events + 1
Click == alive /\ Event

(* A request fails, because it may or because it must. *)
Fails(must) == IF must THEN UNCHANGED events ELSE Event

(* A click on the page: the preview covers it. *)
PageClick == previewFile = None /\ Click

-----------------------------------------------------------------------------
(* Where the page is. *)

(* Only a new folder moves the page; the caller may have cut the path.     *)
SetLocation(path) ==
    LET p == IF path = <<>> THEN Root ELSE Last(path)
    IN  \/ /\ p # parentId
           /\ folderPath' = path /\ parentId' = p
           /\ selectedItem' = None
           /\ RunEffect(p)
        \/ p = parentId /\ UNCHANGED <<placeVars, listVars>>

OnFolderClicked(f) ==
    /\ PageClick /\ f \in driveItems \cap Folders
    /\ SetLocation(Append(folderPath, f))
    /\ UNCHANGED <<where, previewVars, alive>>

ContainerCrumb ==
    /\ PageClick
    /\ SetLocation(<<>>)
    /\ UNCHANGED <<where, previewVars, alive>>

(* The loop that pops the path down to the last entry that is f. *)
CutTo(path, f) == SubSeq(path, 1, SelectLastInSeq(path, LAMBDA g : g = f))

OnBreadcrumbClick(f) ==
    /\ PageClick /\ f \in ToSet(folderPath)
    /\ SetLocation(CutTo(folderPath, f))
    /\ UNCHANGED <<where, previewVars, alive>>

(* One row is selected, or the selected one is cleared. *)
OnSelectionChange(i) ==
    /\ PageClick /\ i \in driveItems
    /\ selectedItem' = IF i = selectedItem THEN None ELSE i
    /\ UNCHANGED <<where, parentId, folderPath, listVars, previewVars, alive>>

-----------------------------------------------------------------------------
(* The answers of listings, and the sockets. *)

(* setDriveItems, whatever folder the page is at by then. *)
AnswerList(k) ==
    /\ alive /\ k \in DOMAIN loads /\ Exists[loads[k].folder]
    /\ driveItems' \in {loads[k].seen, Contents(loads[k].folder)}
    /\ loads' = RemoveAt([j \in DOMAIN loads |->
                             IF j < k THEN [loads[j] EXCEPT !.late = TRUE] ELSE loads[j]], k)
    /\ causes' = causes \cup (IF loads[k].late THEN {"overtaken"} ELSE {})
    /\ UNCHANGED <<where, placeVars, sockets, previewVars, alive, events>>

(* A failure goes to the console, and the old listing stays. *)
ListFails(k) ==
    /\ alive /\ k \in DOMAIN loads
    /\ Fails(~Exists[loads[k].folder])
    /\ loads' = RemoveAt(loads, k)
    /\ causes' = causes \cup (IF k = Len(loads) /\ ~loads[k].late THEN {"listingFailed"} ELSE {})
    /\ UNCHANGED <<where, placeVars, driveItems, sockets, previewVars, alive>>

(* A socket tells of a change: refreshDriveItems of the render that opened *)
(* it, f being the folder that the page was at then.  It may tell of what  *)
(* nobody sees and miss what one would, so it may fire at any time.        *)
Notified(f) ==
    /\ alive /\ f \in sockets
    /\ ListItems(f)
    /\ causes' = IF f = parentId THEN {} ELSE causes \cup {"olderSocket"}
    /\ UNCHANGED <<where, placeVars, driveItems, sockets, previewVars, alive, events>>

Place(i, p) == where' = [where EXCEPT ![i] = p]

(* Another user deletes an item or moves a file. *)
OtherUser(i) ==
    /\ Click /\ Exists[i]
    /\ \E p \in {Gone} \cup {f \in Places : i \in Files /\ Exists[f]} : p # where[i] /\ Place(i, p)
    /\ causes' = causes \cup {"elsewhere"}
    /\ UNCHANGED <<driveItems, loads, sockets, placeVars, previewVars, alive>>

-----------------------------------------------------------------------------
(* The preview. *)

OnFilePreviewSelected(f) ==
    /\ PageClick /\ f \in (driveItems \cup {selectedItem}) \cap Files
    /\ previewFile' = f
    /\ asks' = [asks EXCEPT ![f] = @ + 1]
    /\ UNCHANGED <<where, listVars, placeVars, previewUrl, alive, left>>

AnswerPreview(f) ==
    /\ alive /\ asks[f] > 0 /\ Exists[f]
    /\ asks' = [asks EXCEPT ![f] = @ - 1]
    /\ previewUrl' = f
    /\ UNCHANGED <<where, listVars, placeVars, previewFile, alive, events, left>>

PreviewFails(f) ==
    /\ asks[f] > 0 /\ Fails(~Exists[f])
    /\ asks' = [asks EXCEPT ![f] = @ - 1]
    /\ UNCHANGED <<where, listVars, placeVars, previewFile, previewUrl, alive, left>>

(* Mutant of ClosePreview: the url is kept. *)
ClosePreviewOnly ==
    /\ alive /\ previewFile # None
    /\ previewFile' = None
    /\ left' = (\E f \in Files : asks[f] > 0)
    /\ UNCHANGED <<where, listVars, placeVars, previewUrl, asks, alive, events>>

ClosePreview ==
    /\ alive /\ previewFile # None
    /\ previewFile' = None /\ previewUrl' = None
    /\ left' = (\E f \in Files : asks[f] > 0)
    /\ UNCHANGED <<where, listVars, placeVars, asks, alive, events>>

-----------------------------------------------------------------------------
BrowserClick ==
    \/ ContainerCrumb
    \/ \E f \in Folders : OnFolderClicked(f) \/ OnBreadcrumbClick(f)
    \/ \E i \in Items : OnSelectionChange(i)
    \/ \E f \in Files : OnFilePreviewSelected(f)

AnswerLists == \E k \in DOMAIN loads : AnswerList(k) \/ ListFails(k)

BrowserStep ==
    \/ AnswerLists \/ ClosePreview
    \/ \E f \in Places : Notified(f)
    \/ \E i \in Items : OtherUser(i)
    \/ \E f \in Files : AnswerPreview(f) \/ PreviewFails(f)

-----------------------------------------------------------------------------
BrowserTypeOK ==
    /\ where \in [Items -> Places \cup {Unborn, Gone}]
    /\ parentId \in Places /\ folderPath \in Seq(Folders)
    /\ driveItems \subseteq Items /\ selectedItem \in Items \cup {None}
    /\ loads \in Seq([folder : Places, seen : SUBSET Items, late : BOOLEAN])
    /\ sockets \subseteq Places
    /\ previewFile \in Files \cup {None} /\ previewUrl \in Files \cup {None}
    /\ asks \in [Files -> Nat]
    /\ alive \in BOOLEAN /\ events \in 0..MaxEvents
    /\ causes \subseteq Causes /\ left \in BOOLEAN

(* The folder of uploads, new folders and listings is the one that the     *)
(* breadcrumb ends with, although a click cuts the path in place and       *)
(* setLocation may then return early (ContainerBrowser.tsx:95-121).        *)
PathEndsAtFolder == parentId = IF folderPath = <<>> THEN Root ELSE Last(folderPath)

(* The url in the preview, which is also the one that a click opens, is of *)
(* the file it names, unless the preview before it was closed while urls   *)
(* were awaited (ContainerBrowser.tsx:136-156).                            *)
PreviewHonest == ~left => previewUrl \in {None, previewFile}
=============================================================================
