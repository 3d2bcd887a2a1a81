-------------------------- MODULE ReceiptProcessor --------------------------
(***************************************************************************)
(* The OCR server (Samples/spe-ocr-sample/server): every notification that *)
(* a drive has changed starts a processDrive that nobody waits for.  It    *)
(* asks Graph for the changes since the token in changeTokens, then makes  *)
(* a JSON file next to each supported file among them; that file is itself *)
(* a change, and the next notification.                                    *)
(*                                                                         *)
(* A delta token is represented by the set of items whose last change it   *)
(* has not delivered: a change adds its item to every token there is, no   *)
(* token is the set of all items, and the next link of a page is what the  *)
(* page leaves over.  Pages follow the order of the changes.  One drive,   *)
(* one folder.                                                             *)
(***************************************************************************)
EXTENDS Naturals, FiniteSets

CONSTANTS
    Files,          \* files that users upload, replace and delete
    Supported,      \* those with an extension in SUPPORTED_FILE_EXTENSIONS
    Stems,          \* file names up to their first dot
    Stem,           \* Files -> Stems: getFileDisplayName
    Runs,           \* processDrive calls that may be under way at once
    MaxUploads,     \* bound on the uploads of one file
    Faulty,         \* whether calls fail, tokens expire, the server restarts
    NoItem

ASSUME ReceiptAssumption ==
    /\ Supported \subseteq Files
    /\ Stem \in [Files -> Stems]
    /\ Files \cap Stems = {}
    /\ NoItem \notin Files \cup Stems \cup [file : Files, version : Nat]
    /\ MaxUploads \in Nat /\ Faulty \in BOOLEAN

VARIABLES
    present,    \* files that are in the drive
    uploads,    \* times each file was uploaded: the version of its content
    json,       \* the JSON file of each stem: [file, version] or NoItem
    before,     \* the pairs of items whose first one changed last before the second
    dirty,      \* a change is due to be notified
    client,     \* GraphProvider.graphClient: "none", "good" or "expired"
    token,      \* changeTokens.get(driveId), see above
    pc,         \* control state of each run
    request,    \* the token sent with a run's request; then the one it gets back
    page,       \* response.value
    more,       \* whether the response has a next link
    changed,    \* changedItems of each run that are still to be done
    item,       \* the item that the run is at
    stream,     \* the version that it downloaded
    settled     \* history: files whose last version was extracted or given up

driveVars == <<present, uploads, json, before, dirty>>
runVars == <<pc, request, page, more, changed, item, stream>>
vars == <<driveVars, client, token, runVars, settled>>

(* The items of the drive: files, and by its stem each JSON file. *)
Items == Files \cup Stems
Existing == present \cup {s \in Stems : json[s] # NoItem}

Extract == [file : Files, version : 0..MaxUploads]

Init ==
    /\ present = {} /\ uploads = [f \in Files |-> 0]
    /\ json = [s \in Stems |-> NoItem]
    /\ before = {} /\ dirty = FALSE
    /\ client = "good"
    /\ token = {}
    /\ pc = [r \in Runs |-> "idle"]
    /\ request = [r \in Runs |-> {}]
    /\ page = [r \in Runs |-> {}]
    /\ more = [r \in Runs |-> FALSE]
    /\ changed = [r \in Runs |-> {}]
    /\ item = [r \in Runs |-> NoItem]
    /\ stream = [r \in Runs |-> 0]
    /\ settled = {}

-----------------------------------------------------------------------------
(* The drive. *)

(* Item i changes: every token is behind by i, a notification is due. *)
Asking(r) == pc[r] \in {"sent", "reply"}
Change(i) ==
    /\ dirty' = TRUE
    /\ before' = {b \in before : b[1] # i} \cup {<<j, i>> : j \in Items \ {i}}
    /\ token' = token \cup {i}
    /\ request' = [r \in Runs |-> request[r] \cup (IF Asking(r) THEN {i} ELSE {})]

Upload(f) ==
    /\ uploads[f] < MaxUploads
    /\ uploads' = [uploads EXCEPT ![f] = @ + 1]
    /\ present' = present \cup {f}
    /\ settled' = settled \ {f}
    /\ Change(f)
    /\ UNCHANGED <<json, client, pc, page, more, changed, item, stream>>

Delete(f) ==
    /\ f \in present
    /\ present' = present \ {f}
    /\ Change(f)
    /\ UNCHANGED <<uploads, json, client, pc, page, more, changed, item, stream, settled>>

-----------------------------------------------------------------------------
(* The server's Graph client. *)

(* setGraphClient, from listContainers or createContainer. *)
SetGraphClient ==
    /\ client # "good"
    /\ client' = "good"
    /\ UNCHANGED <<driveVars, token, runVars, settled>>

Expire ==
    /\ Faulty /\ client = "good"
    /\ client' = "expired"
    /\ UNCHANGED <<driveVars, token, runVars, settled>>

(* The process starts anew: no client, no token, no run. *)
Restart ==
    /\ Faulty
    /\ client' = "none"
    /\ token' = Existing
    /\ pc' = [r \in Runs |-> "idle"]
    /\ request' = [r \in Runs |-> {}]
    /\ page' = [r \in Runs |-> {}]
    /\ more' = [r \in Runs |-> FALSE]
    /\ changed' = [r \in Runs |-> {}]
    /\ item' = [r \in Runs |-> NoItem]
    /\ stream' = [r \in Runs |-> 0]
    /\ UNCHANGED <<driveVars, settled>>

CallFails == Faulty \/ client # "good"
CallWorks == client = "good"

-----------------------------------------------------------------------------
(* onReceiptAdded: the run is started and the notification answered. *)
Notify(r) ==
    /\ dirty /\ pc[r] = "idle"
    /\ pc' = [pc EXCEPT ![r] = "fetch"]
    /\ dirty' \in {FALSE, Faulty}       \* Graph may notify twice
    /\ UNCHANGED <<present, uploads, json, before, client, token, request, page, more,
                   changed, item, stream, settled>>

(* A notification that does not reach the server. *)
LoseNotification ==
    /\ Faulty /\ dirty
    /\ dirty' = FALSE
    /\ UNCHANGED <<present, uploads, json, before, client, token, runVars, settled>>

-----------------------------------------------------------------------------
(* getDriveChanges. *)

(* Mutant of Fetch: a run ends at once while another one is under way. *)
FetchUnlessBusy(r) ==
    /\ pc[r] = "fetch"
    /\ IF \E q \in Runs \ {r} : pc[q] # "idle"
         THEN pc' = [pc EXCEPT ![r] = "idle"] /\ UNCHANGED request
         ELSE /\ request' = [request EXCEPT ![r] = token]
              /\ pc' = [pc EXCEPT ![r] = "sent"]
    /\ UNCHANGED <<driveVars, client, token, page, more, changed, item, stream, settled>>

(* The token is read and the request sent. *)
Fetch(r) ==
    /\ pc[r] = "fetch"
    /\ request' = [request EXCEPT ![r] = token]
    /\ pc' = [pc EXCEPT ![r] = "sent"]
    /\ UNCHANGED <<driveVars, client, token, page, more, changed, item, stream, settled>>

(* Graph answers with a page; deleted items are passed over later on. *)
Serve(r) ==
    /\ pc[r] = "sent" /\ CallWorks
    /\ \E p \in SUBSET request[r] :
          /\ p = {} => request[r] = {}
          /\ \A i \in p, j \in request[r] \ p : <<i, j>> \in before
          /\ page' = [page EXCEPT ![r] = p \cap Existing]
          /\ request' = [request EXCEPT ![r] = @ \ p]
          /\ more' = [more EXCEPT ![r] = p # request[r]]
    /\ pc' = [pc EXCEPT ![r] = "reply"]
    /\ UNCHANGED <<driveVars, client, token, changed, item, stream, settled>>

(* Mutant of FetchFails: an empty list is returned after an exception. *)
FetchFailsEmpty(r) ==
    /\ pc[r] = "sent" /\ CallFails
    /\ pc' = [pc EXCEPT ![r] = "items"]
    /\ request' = [request EXCEPT ![r] = {}]
    /\ changed' = [changed EXCEPT ![r] = {}]
    /\ UNCHANGED <<driveVars, client, token, page, more, item, stream, settled>>

(* The exception is logged; what was collected so far is returned. *)
FetchFails(r) ==
    /\ pc[r] = "sent" /\ CallFails
    /\ pc' = [pc EXCEPT ![r] = "items"]
    /\ request' = [request EXCEPT ![r] = {}]
    /\ UNCHANGED <<driveVars, client, token, page, more, changed, item, stream, settled>>

(* Mutant of Receive: a page replaces the ones before it. *)
ReceiveLastPage(r) ==
    /\ pc[r] = "reply"
    /\ changed' = [changed EXCEPT ![r] = page[r]]
    /\ token' = request[r]
    /\ pc' = [pc EXCEPT ![r] = IF more[r] THEN "fetch" ELSE "items"]
    /\ request' = [request EXCEPT ![r] = {}]
    /\ page' = [page EXCEPT ![r] = {}]
    /\ more' = [more EXCEPT ![r] = FALSE]
    /\ UNCHANGED <<driveVars, client, item, stream, settled>>

(* Mutant of Receive: the token of the response is not stored. *)
ReceiveUnstored(r) ==
    /\ pc[r] = "reply"
    /\ changed' = [changed EXCEPT ![r] = @ \cup page[r]]
    /\ pc' = [pc EXCEPT ![r] = IF more[r] THEN "fetch" ELSE "items"]
    /\ request' = [request EXCEPT ![r] = {}]
    /\ page' = [page EXCEPT ![r] = {}]
    /\ more' = [more EXCEPT ![r] = FALSE]
    /\ UNCHANGED <<driveVars, client, token, item, stream, settled>>

(* The page is collected and the token stored, over whatever is there now. *)
Receive(r) ==
    /\ pc[r] = "reply"
    /\ changed' = [changed EXCEPT ![r] = @ \cup page[r]]
    /\ token' = request[r]
    /\ pc' = [pc EXCEPT ![r] = IF more[r] THEN "fetch" ELSE "items"]
    /\ request' = [request EXCEPT ![r] = {}]
    /\ page' = [page EXCEPT ![r] = {}]
    /\ more' = [more EXCEPT ![r] = FALSE]
    /\ UNCHANGED <<driveVars, client, item, stream, settled>>

-----------------------------------------------------------------------------
(* The loop of processDrive. *)

(* getDriveItem, for an item that is there and supported. *)
GetDriveItem(r) ==
    /\ pc[r] = "items" /\ CallWorks
    /\ \E i \in changed[r] :
          /\ i \in Supported \cap present
          /\ changed' = [changed EXCEPT ![r] = @ \ {i}]
          /\ item' = [item EXCEPT ![r] = i]
    /\ pc' = [pc EXCEPT ![r] = "download"]
    /\ UNCHANGED <<driveVars, client, token, request, page, more, stream, settled>>

(* An item that is not supported or no longer there, or a call that fails: *)
(* on to the next.                                                         *)
PassOver(r) ==
    /\ pc[r] = "items"
    /\ \E i \in changed[r] :
          /\ i \notin Supported \cap present \/ CallFails
          /\ changed' = [changed EXCEPT ![r] = @ \ {i}]
          /\ settled' = settled \cup ({i} \cap Files)
    /\ UNCHANGED <<driveVars, client, token, pc, request, page, more, item, stream>>

(* getDriveItemStream and analyzeReceiptStream, of the present content. *)
Analyze(r) ==
    /\ pc[r] = "download" /\ CallWorks
    /\ item[r] \in present
    /\ stream' = [stream EXCEPT ![r] = uploads[item[r]]]
    /\ pc' = [pc EXCEPT ![r] = "put"]
    /\ UNCHANGED <<driveVars, client, token, request, page, more, changed, item, settled>>

(* The run is done with its item. *)
NextItem(r) ==
    /\ pc' = [pc EXCEPT ![r] = "items"]
    /\ item' = [item EXCEPT ![r] = NoItem]
    /\ stream' = [stream EXCEPT ![r] = 0]

(* An exception in the middle of an item: it is logged, the loop goes on.  *)
Abandon(r) ==
    /\ \/ pc[r] = "download" /\ (CallFails \/ item[r] \notin present)
       \/ pc[r] = "put" /\ CallFails
    /\ settled' = settled \cup {item[r]}
    /\ NextItem(r)
    /\ UNCHANGED <<driveVars, client, token, request, page, more, changed>>

(* addDriveItem: makes or replaces the JSON file of the item's stem. *)
AddDriveItem(r) ==
    /\ pc[r] = "put" /\ CallWorks
    /\ json' = [json EXCEPT ![Stem[item[r]]] = [file |-> item[r], version |-> stream[r]]]
    /\ settled' = settled \cup (IF stream[r] = uploads[item[r]] THEN {item[r]} ELSE {})
    /\ Change(Stem[item[r]])
    /\ NextItem(r)
    /\ UNCHANGED <<present, uploads, client, page, more, changed>>

EndRun(r) ==
    /\ pc[r] = "items" /\ changed[r] = {}
    /\ pc' = [pc EXCEPT ![r] = "idle"]
    /\ UNCHANGED <<driveVars, client, token, request, page, more, changed, item, stream, settled>>

ProcessDrive(r) ==
    \/ Fetch(r) \/ Serve(r) \/ FetchFails(r) \/ Receive(r)
    \/ GetDriveItem(r) \/ PassOver(r) \/ Analyze(r) \/ Abandon(r)
    \/ AddDriveItem(r) \/ EndRun(r)

-----------------------------------------------------------------------------
Next ==
    \/ \E f \in Files : Upload(f) \/ Delete(f)
    \/ SetGraphClient \/ Expire \/ Restart \/ LoseNotification
    \/ \E r \in Runs : Notify(r) \/ ProcessDrive(r)

(* Graph notifies of every change, and every await comes to an end. *)
Fairness ==
    /\ WF_vars(\E r \in Runs : Notify(r))
    /\ \A r \in Runs : WF_vars(ProcessDrive(r))

Spec == Init /\ [][Next]_vars
FairSpec == Spec /\ Fairness
-----------------------------------------------------------------------------
(* The type of every variable. *)
TypeOK ==
    /\ present \subseteq Files /\ settled \subseteq Files
    /\ uploads \in [Files -> 0..MaxUploads]
    /\ json \in [Stems -> Extract \cup {NoItem}]
    /\ before \subseteq Items \X Items
    /\ dirty \in BOOLEAN /\ client \in {"none", "good", "expired"}
    /\ token \subseteq Items
    /\ pc \in [Runs -> {"idle", "fetch", "sent", "reply", "items", "download", "put"}]
    /\ request \in [Runs -> SUBSET Items]
    /\ page \in [Runs -> SUBSET Items]
    /\ more \in [Runs -> BOOLEAN]
    /\ changed \in [Runs -> SUBSET Items]
    /\ item \in [Runs -> Supported \cup {NoItem}]
    /\ stream \in [Runs -> 0..MaxUploads]

(* Run r has the last version of file f in hand. *)
InHand(r, f) ==
    \/ f \in page[r] \cup changed[r]
    \/ item[r] = f /\ (pc[r] = "download" \/ stream[r] = uploads[f])

(* The last version of f was extracted or given up, or is in some hand. *)
Handled(f) == f \in settled \/ \E r \in Runs : InHand(r, f)

(* However the runs overlap, and although each stores its token over what  *)
(* is there: a supported file that the stored token will not deliver again *)
(* has been extracted or given up, or some run still has it in hand.       *)
TokenCovers == \A f \in (Supported \cap present) \ token : Handled(f)

(* The inductive invariant: a run has a page or an item only where its     *)
(* code has one, and what a run will store as the token covers as well.    *)
RunInv ==
    \A r \in Runs : /\ item[r] # NoItem <=> pc[r] \in {"download", "put"}
                    /\ page[r] # {} => pc[r] = "reply"
RequestCovers ==
    \A r \in Runs : Asking(r) =>
        \A f \in (Supported \cap present) \ request[r] : Handled(f)
IInv == TypeOK /\ RunInv /\ TokenCovers /\ RequestCovers

(* The JSON files that the server writes notify the server again: once the *)
(* users stop, so does this.                                               *)
FeedbackEnds == <>[](~dirty /\ \A r \in Runs : pc[r] = "idle")

(* A supported file that stays in the drive gets a JSON file. *)
SomeJson ==
    \A f \in Supported :
        <>[](f \in present) => <>[](json[Stem[f]] # NoItem /\ json[Stem[f]].file = f)

(* "If you add/update any file [...] in this container, you should see a   *)
(* new JSON file created and contains the fields extracted from file."     *)
(* (README.md:234): in the end the JSON file has the last version's fields.*)
LastVersionExtracted ==
    \A f \in Supported :
        <>[](f \in present) => <>[](json[Stem[f]] = [file |-> f, version |-> uploads[f]])

(* They keep it as long as no run starts while another is under way, and   *)
(* no two supported files share the JSON file of one stem.                 *)
OneAtATime == [](\A q, r \in Runs : pc[q] # "idle" /\ pc[r] # "idle" => q = r)
DistinctStems == \A f, g \in Supported : Stem[f] = Stem[g] => f = g
LastVersionUnlessOverlap == DistinctStems /\ OneAtATime => LastVersionExtracted
=============================================================================
