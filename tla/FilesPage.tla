----------------------------- MODULE FilesPage ------------------------------
(***************************************************************************)
(* The Files component of the SPA sample (spa-azurefunction/packages/      *)
(* client-app/src/components/files.js), with the containers page above it. *)
(* The class reads this.state when an answer arrives, so that what a       *)
(* handler does depends on what the user did meanwhile.                    *)
(***************************************************************************)
EXTENDS DrivePage

CONSTANT Batches        \* file selections, in their order: 1..n

ASSUME FilesAssumption == Batches \subseteq Nat \ {0}

VARIABLES
    itemId,             \* the folder of the page
    loadingFiles,
    selected,           \* the folder whose row is selected
    dialogs,            \* the operations whose dialog is open
    requests,           \* their requests under way
    searchInProgress,
    searchQueryInProgress,
    searches,           \* searches under way
    batch,              \* the selection that a file is of, 0 if of none
    place,              \* the place that a selection goes to
    counter,            \* the pendingUploads of the closure of a selection
    sent,               \* files whose request is under way
    unread,             \* files that could not be read
    failed,             \* files whose request failed
    pendingUploads,
    overlapped          \* history: a selection was made before the last ended

opVars == <<selected, dialogs, requests>>
searchVars == <<searchInProgress, searchQueryInProgress, searches>>
uploadVars == <<batch, place, counter, sent, unread, failed, pendingUploads, overlapped>>
filesVars == <<pageVars, itemId, loadingFiles, opVars, searchVars, uploadVars>>

Ops == {"folder", "delete", "rename"}

FilesInit ==
    /\ PageInit
    /\ itemId = Root /\ loadingFiles = TRUE
    /\ selected = None /\ dialogs = {} /\ requests = <<>>
    /\ searchInProgress = FALSE /\ searchQueryInProgress = FALSE /\ searches = 0
    /\ batch = [u \in Uploads |-> 0] /\ place = [b \in Batches |-> <<container, Root>>]
    /\ counter = [b \in Batches |-> 0]
    /\ sent = {} /\ unread = {} /\ failed = {} /\ pendingUploads = 0 /\ overlapped = FALSE

(* A click on the page: no dialog is open.  With a row selected, the       *)
(* command bar has the commands for that row instead of its own.           *)
PageClick == Click /\ dialogs = {}
BarClick == PageClick /\ selected = None

Load(f, cause) ==
    LoadItems(<<container, f>>, Here, cause, None) /\ loadingFiles' = TRUE

-----------------------------------------------------------------------------
(* Where the page is. *)

GoTo(c, f, path) ==
    /\ container' = c /\ itemId' = f /\ crumbs' = path
    /\ shown' = <<"nothing">> /\ selected' = None
    /\ LoadItems(<<c, f>>, <<c, Last(path)>>, "unexpected", None) /\ loadingFiles' = TRUE
    /\ UNCHANGED <<gone, failures, dialogs, requests, uploadVars>>

(* A new container: the search and what is under way go on. *)
ComponentDidUpdate(c) ==
    /\ PageClick /\ c # container
    /\ GoTo(c, Root, <<Root>>)
    /\ UNCHANGED searchVars

OnFileClick(f) ==
    /\ PageClick /\ f \in Listed
    /\ GoTo(container, f, Append(crumbs, f))
    /\ searchInProgress' = FALSE
    /\ UNCHANGED <<searchQueryInProgress, searches>>

(* The path up to the first entry with the key that was clicked. *)
OnBreadcrumbClick(k) ==
    /\ PageClick /\ ~searchInProgress
    /\ k \in DOMAIN crumbs
    /\ GoTo(container, crumbs[k], SubSeq(crumbs, 1, SelectInSeq(crumbs, LAMBDA f : f = crumbs[k])))
    /\ UNCHANGED searchVars

(* The refresh button: loadItems() lists the root, wherever the page is.   *)
Refresh ==
    /\ BarClick /\ ~searchInProgress
    /\ Load(Root, "refresh")
    /\ UNCHANGED <<gone, container, crumbs, shown, failures, itemId, opVars, searchVars, uploadVars>>

-----------------------------------------------------------------------------
(* The end of loadItems: the list that came, or an empty one.  The spinner *)
(* is hidden even if other listings are under way; the list forgets which  *)
(* row was selected.                                                       *)
EndLoad(k, s, cause) ==
    /\ shown' = s /\ selected' = None
    /\ loads' = Answered(k)
    /\ loadingFiles' = FALSE
    /\ causes' = causes \cup cause \cup (IF loads[k].late THEN {"overtaken"} ELSE {})
    /\ UNCHANGED <<gone, container, crumbs, events, itemId, dialogs, requests,
                   searchVars, uploadVars>>

LoadAnswered(k) ==
    /\ k \in DOMAIN loads /\ Valid(loads[k].place)
    /\ EndLoad(k, loads[k].place, {})
    /\ UNCHANGED failures

LoadFails(k) ==
    /\ k \in DOMAIN loads /\ Fails(~Valid(loads[k].place))
    /\ EndLoad(k, <<"nothing">>, {"loadFailed"})

-----------------------------------------------------------------------------
(* The dialogs for new folders, deleting and renaming. *)

(* A row of the listing is selected. *)
Select(f) ==
    /\ dialogs = {} /\ selected = None /\ f \in Listed
    /\ selected' = f
    /\ UNCHANGED <<pageVars, itemId, loadingFiles, dialogs, requests, searchVars, uploadVars>>

OpenDialog(o) ==
    /\ PageClick
    /\ IF o = "folder" THEN selected = None /\ ~searchInProgress ELSE selected # None
    /\ dialogs' = {o}
    /\ UNCHANGED <<gone, container, crumbs, listVars, failures, itemId, loadingFiles, selected,
                   requests, searchVars, uploadVars>>

CancelDialog(o) ==
    /\ o \in dialogs
    /\ dialogs' = dialogs \ {o}
    /\ UNCHANGED <<pageVars, itemId, loadingFiles, selected, requests, searchVars, uploadVars>>

(* Nothing keeps the user from pressing the button again.  Without a       *)
(* selection the handler throws before it asks for anything.               *)
Press(o) ==
    /\ Click /\ o \in dialogs /\ (o = "folder" \/ selected # None)
    /\ requests' = Append(requests,
           [op |-> o, done |-> FALSE,
            at |-> <<container, IF o = "folder" THEN itemId ELSE selected>>])
    /\ UNCHANGED <<gone, container, crumbs, listVars, failures, itemId, loadingFiles, selected,
                   dialogs, searchVars, uploadVars>>

(* Graph creates, deletes or renames. *)
Serve(k) ==
    /\ k \in DOMAIN requests /\ ~requests[k].done /\ Valid(requests[k].at)
    /\ requests' = [requests EXCEPT ![k].done = TRUE]
    /\ gone' = IF requests[k].op = "delete" THEN gone \cup {requests[k].at[2]} ELSE gone
    /\ UNCHANGED <<container, crumbs, listVars, events, failures, itemId, loadingFiles, selected,
                   dialogs, searchVars, uploadVars>>

(* createFolder, deleteItem, renameItem after their await: the folder      *)
(* dialog is toggled, whatever it is, the others are hidden; and the page  *)
(* lists the folder that it is at by now.                                  *)
OpDone(k) ==
    /\ k \in DOMAIN requests /\ requests[k].done
    /\ requests' = RemoveAt(requests, k)
    /\ LET o == requests[k].op
       IN  dialogs' = IF o = "folder" /\ o \notin dialogs THEN dialogs \cup {o} ELSE dialogs \ {o}
    /\ Load(itemId, "unexpected")
    /\ UNCHANGED <<gone, container, crumbs, shown, events, failures, itemId, selected,
                   searchVars, uploadVars>>

(* Nobody catches it: the dialog stays as it is. *)
OpFails(k) ==
    /\ k \in DOMAIN requests /\ Fails(~requests[k].done /\ ~Valid(requests[k].at))
    /\ requests' = RemoveAt(requests, k)
    /\ UNCHANGED <<gone, container, crumbs, listVars, events, itemId, loadingFiles, selected,
                   dialogs, searchVars, uploadVars>>

-----------------------------------------------------------------------------
(* The search. *)

HandleSearch ==
    /\ BarClick
    /\ searchInProgress' = TRUE /\ searchQueryInProgress' = TRUE
    /\ searches' = searches + 1
    /\ UNCHANGED <<gone, container, crumbs, listVars, failures, itemId, loadingFiles, opVars,
                   uploadVars>>

(* The results replace the list, although the search may be over. *)
SearchAnswered ==
    /\ searches > 0
    /\ searches' = searches - 1
    /\ shown' = <<"results">> /\ selected' = None
    /\ searchQueryInProgress' = FALSE
    /\ causes' = IF searchInProgress THEN causes ELSE causes \cup {"lateResults"}
    /\ UNCHANGED <<gone, container, crumbs, loads, events, failures, itemId, loadingFiles,
                   dialogs, requests, searchInProgress, uploadVars>>

(* Nobody catches it: "Searching files..." stays. *)
SearchFails ==
    /\ searches > 0 /\ Fails(FALSE)
    /\ searches' = searches - 1
    /\ UNCHANGED <<gone, container, crumbs, listVars, events, itemId, loadingFiles, opVars,
                   searchInProgress, searchQueryInProgress, uploadVars>>

(* Mutant of HandleCancelSearch: the folder is not listed again. *)
CancelSearchOnly ==
    /\ BarClick /\ searchInProgress
    /\ searchInProgress' = FALSE
    /\ UNCHANGED <<gone, container, crumbs, listVars, failures, itemId, loadingFiles, opVars,
                   searchQueryInProgress, searches, uploadVars>>

HandleCancelSearch ==
    /\ BarClick /\ searchInProgress
    /\ searchInProgress' = FALSE
    /\ Load(itemId, "unexpected")
    /\ UNCHANGED <<gone, container, crumbs, shown, failures, itemId, opVars,
                   searchQueryInProgress, searches, uploadVars>>

-----------------------------------------------------------------------------
(* Uploads. *)

OnFilesSelected(b, us) ==
    /\ BarClick /\ ~searchInProgress
    /\ us # {} /\ (\A u \in us : batch[u] = 0) /\ (\A u \in Uploads : batch[u] < b)
    /\ batch' = [u \in Uploads |-> IF u \in us THEN b ELSE batch[u]]
    /\ place' = [place EXCEPT ![b] = <<container, itemId>>]
    /\ counter' = [counter EXCEPT ![b] = Cardinality(us)]
    /\ pendingUploads' = Cardinality(us)
    /\ overlapped' = (overlapped \/ sent # {} \/ unread # {})
    /\ sent' = sent \cup us
    /\ UNCHANGED <<gone, container, crumbs, listVars, failures, itemId, loadingFiles, opVars,
                   searchVars, unread, failed>>

(* The error event of the reader, before loadend, which sends all the same. *)
ReadFails(u) ==
    /\ u \in sent \ unread /\ Fails(FALSE)
    /\ unread' = unread \cup {u}
    /\ pendingUploads' = pendingUploads - 1
    /\ UNCHANGED <<gone, container, crumbs, listVars, events, itemId, loadingFiles, opVars,
                   searchVars, batch, place, counter, sent, failed, overlapped>>

(* Mutant of UploadDone: the state is decremented, as on a failure, and    *)
(* again from the count.                                                   *)
UploadDoneTwice(u) ==
    /\ u \in sent
    /\ sent' = sent \ {u}
    /\ LET n == counter[batch[u]] - 1
       IN  /\ counter' = [counter EXCEPT ![batch[u]] = n]
           /\ pendingUploads' = n - 1
           /\ IF n = 0 THEN Load(place[batch[u]][2], "upload") ELSE UNCHANGED <<loads, causes, loadingFiles>>
    /\ UNCHANGED <<gone, container, crumbs, shown, events, failures, itemId, opVars, searchVars,
                   batch, place, unread, failed, overlapped>>

(* The state is set from the count of the selection, which knows nothing   *)
(* of failures.  With its last file the page lists the folder of the       *)
(* upload, in the container that it is at by now.                          *)
UploadDone(u) ==
    /\ u \in sent
    /\ sent' = sent \ {u}
    /\ LET n == counter[batch[u]] - 1
       IN  /\ counter' = [counter EXCEPT ![batch[u]] = n]
           /\ pendingUploads' = n
           /\ IF n = 0 THEN Load(place[batch[u]][2], "upload") ELSE UNCHANGED <<loads, causes, loadingFiles>>
    /\ UNCHANGED <<gone, container, crumbs, shown, events, failures, itemId, opVars, searchVars,
                   batch, place, unread, failed, overlapped>>

UploadFails(u) ==
    /\ u \in sent /\ Fails(~Valid(place[batch[u]]))
    /\ sent' = sent \ {u} /\ failed' = failed \cup {u}
    /\ pendingUploads' = pendingUploads - 1
    /\ UNCHANGED <<gone, container, crumbs, listVars, events, itemId, loadingFiles, opVars,
                   searchVars, batch, place, counter, unread, overlapped>>

-----------------------------------------------------------------------------
FilesNext ==
    \/ \E c \in Containers : ComponentDidUpdate(c)
    \/ \E f \in Folders : OnFileClick(f) \/ Select(f)
    \/ \E k \in DOMAIN crumbs : OnBreadcrumbClick(k)
    \/ \E k \in DOMAIN loads : LoadAnswered(k) \/ LoadFails(k)
    \/ \E o \in Ops : OpenDialog(o) \/ CancelDialog(o) \/ Press(o)
    \/ \E k \in DOMAIN requests : Serve(k) \/ OpDone(k) \/ OpFails(k)
    \/ \E b \in Batches, us \in SUBSET Uploads : OnFilesSelected(b, us)
    \/ \E u \in Uploads : ReadFails(u) \/ UploadDone(u) \/ UploadFails(u)
    \/ Refresh \/ HandleSearch \/ SearchAnswered \/ SearchFails \/ HandleCancelSearch

FilesSpec == FilesInit /\ [][FilesNext]_filesVars
-----------------------------------------------------------------------------
(* Only a new folder may be asked for at the root. *)
OpRequests == {r \in [op : Ops, done : BOOLEAN, at : Places] : r.op # "folder" => r.at[2] \in Folders}

FilesTypeOK ==
    /\ PageTypeOK
    /\ itemId \in Folders \cup {Root} /\ loadingFiles \in BOOLEAN
    /\ selected \in Folders \cup {None} /\ dialogs \subseteq Ops
    /\ requests \in Seq(OpRequests)
    /\ searchInProgress \in BOOLEAN /\ searchQueryInProgress \in BOOLEAN /\ searches \in Nat
    /\ batch \in [Uploads -> Batches \cup {0}] /\ place \in [Batches -> Places]
    /\ counter \in [Batches -> Int] /\ sent \subseteq Uploads
    /\ unread \subseteq Uploads /\ failed \subseteq Uploads
    /\ pendingUploads \in Int /\ overlapped \in BOOLEAN

(* The folder of uploads and of new folders is the one that the breadcrumb *)
(* ends with (files.js:404-416, 580-613).                                  *)
CrumbMatchesFolder == itemId = Last(crumbs)

(* While selections do not overlap, the count on the page is at least the  *)
(* uploads under way less those that could not be read, and exceeds them   *)
(* by no more than those that failed: a success sets it from a count that  *)
(* has not heard of them (files.js:816-846).                               *)
UploadsCounted ==
    ~overlapped =>
        /\ pendingUploads >= Cardinality(sent) - Cardinality(unread)
        /\ pendingUploads <= Cardinality(sent) + Cardinality(failed)

(* With no listing under way and no search the page shows its place.  What *)
(* may break this until the next listing of that place: an answer that was *)
(* overtaken, a listing that failed, the refresh button, the listing after *)
(* an upload, results of a search that is over (files.js:527-613, 631-643, *)
(* 724-846).                                                               *)
FilesShown ==
    loads = <<>> /\ ~searchInProgress
        /\ causes \cap {"overtaken", "loadFailed", "refresh", "upload", "lateResults"} = {}
    => shown = Here
=============================================================================
