------------------------- MODULE ContainerActionBar -------------------------
(***************************************************************************)
(* The toolbar of the container page (components/ContainerActionBar.tsx)   *)
(* on top of the page itself: uploads, new documents, the dialogs that     *)
(* create, rename and delete, and the switch for receipt processing.  What *)
(* it changes makes the page list again: onItemsUpdated is the page's      *)
(* refresh, and a revalidation of the route gives the page a new container *)
(* object, which runs its effect once more.                                *)
(***************************************************************************)
EXTENDS ContainerBrowser, FiniteSets

CONSTANT Batches        \* file selections, in their order; 0 is not one

ASSUME BarAssumption == Batches \subseteq Nat \ {0}

VARIABLES
    state,          \* of the upload of each file
    batch,          \* the selection that it is of, 0 for a new document
    dest,           \* the folder that it goes to
    captured,       \* the Map of the render in which a selection was made
    uploads,        \* the Map of the last render
    mixed,          \* history: two selections overlapped
    dialog,         \* the dialog that is open
    request,        \* how far the request of its button is
    target,         \* the item that the request is about
    calls,          \* calls of the switch that are awaited
    rejected,       \* how many were rejected, which the function may yet serve
    processingEnabled, \* what the switch shows
    prop,           \* whether the loaded container has the property
    subscribed,     \* whether the container has it by now
    revalidating,
    crossed,        \* history: the switch was used, or the function served a
                    \* rejected call, before the switch had settled
    behind          \* history: a rejected call was served since the container
                    \* was loaded

uploadVars == <<state, batch, dest, captured, uploads, mixed>>
dialogVars == <<dialog, request, target>>
switchVars == <<calls, rejected, processingEnabled, prop, subscribed, revalidating, crossed,
                behind>>
vars == <<browserVars, uploadVars, dialogVars, switchVars>>

Dialogs == {"newFolder", "rename", "delete"}

Init ==
    /\ BrowserInit
    /\ state = [f \in Files |-> "none"] /\ batch = [f \in Files |-> 0]
    /\ dest = [f \in Files |-> Root]
    /\ captured = [b \in Batches |-> {}] /\ uploads = {} /\ mixed = FALSE
    /\ dialog = None /\ request = "no" /\ target = None
    /\ calls = <<>> /\ rejected = [on \in BOOLEAN |-> 0] /\ prop \in BOOLEAN
    /\ processingEnabled = prop /\ subscribed = prop
    /\ revalidating = FALSE /\ crossed = FALSE /\ behind = FALSE

(* A click on the toolbar: neither a preview nor a dialog covers it. *)
BarClick == PageClick /\ dialog = None

-----------------------------------------------------------------------------
(* Uploads. *)

New == {f \in Files : where[f] = Unborn /\ state[f] = "none"}
Pending == {f \in Files : state[f] \in {"sent", "stored"}}

(* An upload that failed may be tried again, in its folder: in another one *)
(* the Map has another key for it.  If only the reply was lost, the file   *)
(* is there, and no upload of it is made here any more.                    *)
Again == {f \in Files : where[f] = Unborn /\ state[f] = "failed" /\ batch[f] # 0
                          /\ dest[f] = parentId}

Send(fs, b) ==
    /\ state' = [f \in Files |-> IF f \in fs THEN "sent" ELSE state[f]]
    /\ batch' = [f \in Files |-> IF f \in fs THEN b ELSE batch[f]]
    /\ dest' = [f \in Files |-> IF f \in fs THEN parentId ELSE dest[f]]

(* The files go into the Map of the present render, which their callbacks  *)
(* keep; the next render has a copy of it.                                 *)
OnUploadFileSelected(b, fs) ==
    /\ BarClick /\ fs # {} /\ captured[b] = {} /\ \A f \in Files : batch[f] < b
    /\ Send(fs, b)
    /\ captured' = [captured EXCEPT ![b] = uploads \cup fs]
    /\ uploads' = uploads \cup fs
    /\ mixed' = (mixed \/ \E f \in Pending : batch[f] # 0)
    /\ UNCHANGED <<where, listVars, placeVars, previewVars, alive, dialogVars, switchVars>>

OnNewDocument(f) ==
    /\ BarClick
    /\ Send({f}, 0)
    /\ UNCHANGED <<where, listVars, placeVars, previewVars, alive, captured, uploads,
                   mixed, dialogVars, switchVars>>

StoreFile(f) ==
    /\ state[f] = "sent" /\ Exists[dest[f]]
    /\ Place(f, dest[f])
    /\ state' = [state EXCEPT ![f] = "stored"]
    /\ UNCHANGED <<listVars, placeVars, previewVars, alive, events, batch, dest, captured,
                   uploads, mixed, dialogVars, switchVars>>

(* Mutant of UploadDone: the next render does not hear of it. *)
UploadDoneUnseen(f) ==
    /\ alive /\ state[f] = "stored"
    /\ state' = [state EXCEPT ![f] = "done"]
    /\ captured' = [captured EXCEPT ![batch[f]] = @ \ {f}]
    /\ IF captured'[batch[f]] = {} THEN Refresh ELSE UNCHANGED listVars
    /\ UNCHANGED <<where, placeVars, previewVars, alive, events, batch, dest, uploads,
                   mixed, dialogVars, switchVars>>

(* The file leaves the Map of its selection, a copy of which is rendered;  *)
(* when that is empty, the page lists again.                               *)
UploadDone(f) ==
    /\ alive /\ state[f] = "stored" /\ batch[f] # 0
    /\ state' = [state EXCEPT ![f] = "done"]
    /\ LET others == captured[batch[f]] \ {f}
       IN  /\ captured' = [captured EXCEPT ![batch[f]] = others]
           /\ uploads' = others
           /\ IF others = {} THEN Refresh ELSE UNCHANGED listVars
    /\ UNCHANGED <<where, placeVars, previewVars, alive, events, batch, dest, mixed,
                   dialogVars, switchVars>>

DocumentDone(f) ==
    /\ alive /\ state[f] = "stored" /\ batch[f] = 0
    /\ state' = [state EXCEPT ![f] = "done"]
    /\ Refresh
    /\ UNCHANGED <<where, placeVars, previewVars, alive, events, batch, dest, captured,
                   uploads, mixed, dialogVars, switchVars>>

(* Nobody catches it: the file stays in the Map.  It may be in the drive,  *)
(* if only the reply was lost, or the reading failed, which rejects but    *)
(* fires loadend too.                                                      *)
UploadFails(f) ==
    /\ state[f] = "sent"
    /\ Fails(~Exists[dest[f]])
    /\ \/ UNCHANGED <<where, causes>>
       \/ /\ Exists[dest[f]] /\ Place(f, dest[f])
          /\ causes' = causes \cup {"replyLost"}
    /\ state' = [state EXCEPT ![f] = "failed"]
    /\ UNCHANGED <<driveItems, loads, sockets, placeVars, previewVars, alive, batch, dest,
                   captured, uploads, mixed, dialogVars, switchVars>>

-----------------------------------------------------------------------------
(* The dialogs; the spinner has neither a button nor a way out. *)

OpenDialog(d) ==
    /\ BarClick /\ (d = "newFolder" \/ selectedItem # None)
    /\ dialog' = d
    /\ UNCHANGED <<where, listVars, placeVars, previewVars, alive, uploadVars, request,
                   target, switchVars>>

CancelDialog ==
    /\ alive /\ dialog # None /\ request = "no"
    /\ dialog' = None
    /\ UNCHANGED <<browserVars, uploadVars, request, target, switchVars>>

(* createNewFolder, renameItem, onDelete. *)
Submit(i) ==
    /\ alive /\ dialog # None /\ request = "no"
    /\ IF dialog = "newFolder" THEN i \in Folders /\ where[i] = Unborn ELSE i = selectedItem
    /\ request' = "sent" /\ target' = i
    /\ UNCHANGED <<browserVars, uploadVars, dialog, switchVars>>

(* Graph does it, or refuses: the item or the folder is not there. *)
Possible == Exists[IF dialog = "newFolder" THEN parentId ELSE target]

Serve ==
    /\ request = "sent" /\ Possible
    /\ CASE dialog = "newFolder" -> Place(target, parentId)
         [] dialog = "rename" -> UNCHANGED where
         [] dialog = "delete" -> Place(target, Gone)
    /\ request' = "stored"
    /\ UNCHANGED <<listVars, placeVars, previewVars, alive, events, uploadVars, dialog, target,
                   switchVars>>

(* Mutant of RequestDone: the page is not told. *)
RequestDoneUntold ==
    /\ alive /\ request = "stored"
    /\ dialog' = None /\ request' = "no" /\ target' = None
    /\ UNCHANGED <<browserVars, uploadVars, switchVars>>

RequestDone ==
    /\ alive /\ request = "stored"
    /\ dialog' = None /\ request' = "no" /\ target' = None
    /\ Refresh
    /\ UNCHANGED <<where, placeVars, previewVars, alive, events, uploadVars, switchVars>>

(* A rejected await: the lines after it never run, and the spinner stays.  *)
RequestFails ==
    /\ \/ request = "sent" /\ Fails(~Possible) /\ UNCHANGED causes
       \/ request = "stored" /\ Event /\ causes' = causes \cup {"replyLost"}
    /\ request' = "failed"
    /\ UNCHANGED <<where, placeVars, driveItems, loads, sockets, previewVars, alive,
                   uploadVars, dialog, target, switchVars>>

-----------------------------------------------------------------------------
(* The switch. *)

(* Whether the page still waits for what the switch was used for. *)
Busy == calls # <<>> \/ revalidating

Toggle ==
    /\ BarClick
    /\ calls' = Append(calls, [on |-> ~processingEnabled, done |-> FALSE])
    /\ processingEnabled' = ~processingEnabled
    /\ crossed' = (crossed \/ Busy)
    /\ UNCHANGED <<where, listVars, placeVars, previewVars, alive, uploadVars, dialogVars,
                   rejected, prop, subscribed, revalidating, behind>>

(* The function enables or disables. *)
ServeCall(k) ==
    /\ k \in DOMAIN calls /\ ~calls[k].done
    /\ calls' = [calls EXCEPT ![k].done = TRUE]
    /\ subscribed' = calls[k].on
    /\ UNCHANGED <<browserVars, uploadVars, dialogVars, rejected, processingEnabled, prop,
                   revalidating, crossed, behind>>

(* It may still do what the client was told had failed. *)
ServeRejected(on) ==
    /\ rejected[on] > 0
    /\ rejected' = [rejected EXCEPT ![on] = @ - 1]
    /\ subscribed' = on
    /\ behind' = TRUE
    /\ crossed' = (crossed \/ Busy)
    /\ UNCHANGED <<browserVars, uploadVars, dialogVars, calls, processingEnabled, prop,
                   revalidating>>

CallAnswered(k) ==
    /\ alive /\ k \in DOMAIN calls /\ calls[k].done
    /\ calls' = RemoveAt(calls, k)
    /\ revalidating' = TRUE
    /\ UNCHANGED <<browserVars, uploadVars, dialogVars, rejected, processingEnabled, prop,
                   subscribed, crossed, behind>>

(* A call that was not served yet may be served later, or never. *)
Rejected(k) ==
    /\ Event /\ alive /\ k \in DOMAIN calls
    /\ calls' = RemoveAt(calls, k)
    /\ rejected' = IF calls[k].done THEN rejected ELSE [rejected EXCEPT ![calls[k].on] = @ + 1]
    /\ revalidating' = TRUE
    /\ UNCHANGED <<where, listVars, placeVars, previewVars, alive, uploadVars, dialogVars, prop,
                   subscribed, crossed, behind>>

(* Mutant of CallRejected: the switch stays as the user left it. *)
CallRejectedOptimistic(k) == Rejected(k) /\ UNCHANGED processingEnabled

(* The catch puts the switch back, whether or not the function did it. *)
CallRejected(k) == Rejected(k) /\ processingEnabled' = ~calls[k].on

(* The loader has got the container, of which a later revalidation cancels *)
(* an earlier one.  The property is an object, another one with each       *)
(* answer: the bar's effect runs unless it was and is undefined.           *)
Revalidated ==
    /\ alive /\ revalidating
    /\ revalidating' = FALSE /\ behind' = FALSE
    /\ prop' = subscribed
    /\ processingEnabled' = IF prop \/ subscribed THEN subscribed ELSE processingEnabled
    /\ RunEffect(parentId)
    /\ UNCHANGED <<where, placeVars, previewVars, alive, events, uploadVars, dialogVars,
                   calls, rejected, subscribed, crossed>>

RevalidateFails ==
    /\ Event /\ alive /\ revalidating
    /\ alive' = FALSE /\ revalidating' = FALSE
    /\ UNCHANGED <<where, listVars, placeVars, previewVars, uploadVars, dialogVars,
                   calls, rejected, processingEnabled, prop, subscribed, crossed, behind>>

-----------------------------------------------------------------------------
UploadStep(f) == StoreFile(f) \/ UploadDone(f) \/ DocumentDone(f) \/ UploadFails(f)
DialogStep == Serve \/ RequestDone \/ RequestFails
SwitchStep ==
    \/ \E k \in DOMAIN calls : ServeCall(k) \/ CallAnswered(k) \/ CallRejected(k)
    \/ \E on \in BOOLEAN : ServeRejected(on)
    \/ Revalidated \/ RevalidateFails

BarStep ==
    \/ \E b \in Batches, fs \in SUBSET (New \cup Again) : OnUploadFileSelected(b, fs)
    \/ \E f \in New : OnNewDocument(f)
    \/ \E f \in Files : UploadStep(f)
    \/ \E d \in Dialogs : OpenDialog(d)
    \/ \E i \in Items : Submit(i)
    \/ CancelDialog \/ DialogStep \/ Toggle \/ SwitchStep

Next ==
    \/ dialog = None /\ BrowserClick /\ UNCHANGED <<uploadVars, dialogVars, switchVars>>
    \/ BrowserStep /\ UNCHANGED <<uploadVars, dialogVars, switchVars>>
    \/ BarStep

Spec == Init /\ [][Next]_vars
-----------------------------------------------------------------------------
TypeOK ==
    /\ BrowserTypeOK
    /\ state \in [Files -> {"none", "sent", "stored", "done", "failed"}]
    /\ batch \in [Files -> Batches \cup {0}] /\ dest \in [Files -> Places]
    /\ captured \in [Batches -> SUBSET Files] /\ uploads \subseteq Files
    /\ mixed \in BOOLEAN
    /\ dialog \in Dialogs \cup {None}
    /\ request \in {"no", "sent", "stored", "failed"}
    /\ target \in Items \cup {None}
    /\ calls \in Seq([on : BOOLEAN, done : BOOLEAN]) /\ rejected \in [BOOLEAN -> Nat]
    /\ processingEnabled \in BOOLEAN /\ prop \in BOOLEAN /\ subscribed \in BOOLEAN
    /\ revalidating \in BOOLEAN /\ crossed \in BOOLEAN /\ behind \in BOOLEAN

(* Once nothing is under way and the badge is gone, the screen shows what  *)
(* is in the folder.  What may break this until the next listing: an       *)
(* answer that overtook a later one, a listing or a reply that failed, a   *)
(* change that was not notified, and the socket of a folder shown earlier. *)
(* An upload that failed keeps its badge, and so may selections that       *)
(* overlapped: no listing follows what went with it                        *)
(* (ContainerBrowser.tsx:64-93, ContainerActionBar.tsx:112-212).           *)
Quiet == loads = <<>> /\ Pending = {} /\ uploads = {} /\ request \notin {"sent", "stored"}
ShownIsCurrent == alive /\ Quiet /\ causes = {} => driveItems = Contents(parentId)

(* Until selections overlap the badge has the uploads under way and those  *)
(* that failed, which stay until they are tried again: renders replace the *)
(* Map by copies, and the callbacks of a selection go on in theirs, which  *)
(* must still have what failed in an earlier selection                     *)
(* (ContainerActionBar.tsx:112-135).                                       *)
UploadsTold ==
    ~mixed => uploads = {f \in Files : batch[f] # 0 /\ state[f] \in {"sent", "stored", "failed"}}

(* Used one step at a time, the settled switch shows what the container    *)
(* has, although its catch guesses and its effect does not run while there *)
(* is no property; unless the function served a call that had been         *)
(* rejected, of which the page hears when the container is loaded again    *)
(* (ContainerActionBar.tsx:102-104, 137-155).                              *)
SwitchTold ==
    alive /\ ~Busy /\ ~crossed /\ ~behind => processingEnabled = subscribed
=============================================================================
