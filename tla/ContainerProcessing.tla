------------------------ MODULE ContainerProcessing ------------------------
(***************************************************************************)
(* Receipt processing of one container in the Azure Functions sample       *)
(* (Samples/spe-typescript-react-azurefunction/function-api): the switch,  *)
(* which enableContainerProcessing and disableContainerProcessing keep as  *)
(* a custom property of the container and a subscription in Graph, and the *)
(* runs of processDrive that the subscription's notifications start.       *)
(*                                                                         *)
(* A file is an item of the drive, by its id: it is uploaded, replaced and *)
(* deleted, and never comes back.  Whether it is processed is a column of  *)
(* its own, which a replacement of the content leaves as it is.            *)
(***************************************************************************)
EXTENDS Naturals

CONSTANTS
    Files,          \* items that users upload, replace and delete
    Supported,      \* those with an extension in SUPPORTED_FILE_EXTENSIONS
    MaxUploads,     \* bound on the uploads of one item
    Columns,        \* DocProcessingCompleted and the customTextColumns
    Subs,           \* subscription ids; their number bounds the calls of enable
    Calls,          \* calls of enable and disable that may be under way at once
    Runs,           \* processDrive calls that may be under way at once
    Faulty,         \* whether calls fail and notifications get lost
    None

ASSUME ProcessingAssumption ==
    /\ Supported \subseteq Files
    /\ MaxUploads \in Nat /\ Faulty \in BOOLEAN
    /\ None \notin Files \cup Subs

VARIABLES
    columns,    \* the container's columns
    live,       \* subscriptions to the drive
    used,       \* subscription ids that were given out
    prop,       \* docProcessingSubscriptionId, None when it is not set
    due,        \* subscriptions that have a notification under way
    cpc,        \* control state of each call
    left,       \* columns a call has still to add, subscriptions to remove
    sub,        \* the id that an enable gets if it gets one
    alone,      \* history: no other call was under way since this one began
    present,    \* items in the drive
    uploads,    \* times each item was uploaded: the version of its content
    done,       \* the version whose fields it has, 0 if it is not processed
    rpc,        \* control state of each run
    todo,       \* items that the run has still to process
    item,       \* the item that it is at
    stream,     \* the version that it extracted
    trouble     \* history: what has gone wrong

switchVars == <<columns, live, used, prop>>
callVars == <<cpc, left, sub, alone>>
driveVars == <<present, uploads, done>>
runVars == <<rpc, todo, item, stream>>
vars == <<switchVars, due, callVars, driveVars, runVars, trouble>>

(* What makes the switch unreliable, and what loses a run. *)
SwitchTrouble == {"overlap", "callFailed", "expired"}
Trouble == SwitchTrouble \cup {"runFailed"}

Init ==
    /\ columns = {} /\ live = {} /\ used = {} /\ prop = None /\ due = {}
    /\ cpc = [h \in Calls |-> "idle"]
    /\ left = [h \in Calls |-> {}]
    /\ sub = [h \in Calls |-> None]
    /\ alone = [h \in Calls |-> FALSE]
    /\ present = {}
    /\ uploads = [f \in Files |-> 0]
    /\ done = [f \in Files |-> 0]
    /\ rpc = [r \in Runs |-> "idle"]
    /\ todo = [r \in Runs |-> {}]
    /\ item = [r \in Runs |-> None]
    /\ stream = [r \in Runs |-> 0]
    /\ trouble = {}

-----------------------------------------------------------------------------
(* How a call begins, goes on and ends. *)

Begin(h, p) ==
    LET free == \A g \in Calls : cpc[g] = "idle"
    IN  /\ cpc[h] = "idle"
        /\ cpc' = [cpc EXCEPT ![h] = p]
        /\ alone' = IF free THEN [alone EXCEPT ![h] = TRUE] ELSE [g \in Calls |-> FALSE]
        /\ trouble' = trouble \cup (IF free THEN {} ELSE {"overlap"})
        /\ UNCHANGED left

End(h) ==
    /\ cpc' = [cpc EXCEPT ![h] = "idle"]
    /\ left' = [left EXCEPT ![h] = {}]
    /\ sub' = [sub EXCEPT ![h] = None]
    /\ alone' = [alone EXCEPT ![h] = FALSE]

(* An exception: the call answers 500, and leaves what it did as it is.    *)
Fail(h) == End(h) /\ trouble' = trouble \cup {"callFailed"}

Proceed(h, p, l) ==
    /\ cpc' = [cpc EXCEPT ![h] = p]
    /\ left' = [left EXCEPT ![h] = l]
    /\ UNCHANGED <<sub, alone, trouble>>

(* Graph has done what was asked; the reply arrives, or is lost. *)
Answer(h, p, l) == Proceed(h, p, l) \/ (Faulty /\ Fail(h))

(* A request fails without effect, or the function's host stops. *)
CallFails(h) ==
    /\ Faulty /\ cpc[h] # "idle"
    /\ Fail(h)
    /\ UNCHANGED <<switchVars, due, driveVars, runVars>>

-----------------------------------------------------------------------------
(* enableContainerProcessing. *)

Enable(h) ==
    /\ Begin(h, "enable")
    /\ \E s \in Subs \ used :
          /\ sub' = [sub EXCEPT ![h] = s]
          /\ used' = used \cup {s}
    /\ UNCHANGED <<columns, live, prop, due, driveVars, runVars>>

ReadColumns(h) ==
    /\ cpc[h] = "enable"
    /\ LET missing == Columns \ columns
       IN  Proceed(h, IF missing = {} THEN "subscribe" ELSE "columns", missing)
    /\ UNCHANGED <<switchVars, due, driveVars, runVars>>

(* The missing columns, one request each; which is first does not matter.  *)
(* Graph refuses a column that another call has added meanwhile.           *)
AddColumn(h) ==
    /\ cpc[h] = "columns"
    /\ \E c \in left[h] :
          \/ /\ c \notin columns
             /\ columns' = columns \cup {c}
             /\ Answer(h, IF left[h] = {c} THEN "subscribe" ELSE "columns", left[h] \ {c})
          \/ c \in columns /\ Fail(h) /\ UNCHANGED columns
    /\ UNCHANGED <<live, used, prop, due, driveVars, runVars>>

(* Before Graph subscribes it validates the url: onDriveChanged answers    *)
(* with the token, and starts a run as for any other request.              *)
ValidateUrl(h, r) ==
    /\ cpc[h] = "subscribe" /\ rpc[r] = "idle"
    /\ rpc' = [rpc EXCEPT ![r] = "list"]
    /\ Proceed(h, "activate", {})
    /\ UNCHANGED <<switchVars, due, driveVars, todo, item, stream>>

Subscribe(h) ==
    /\ cpc[h] = "activate"
    /\ live' = live \cup {sub[h]}
    /\ Answer(h, "store", {})
    /\ UNCHANGED <<columns, used, prop, due, driveVars, runVars>>

StoreId(h) ==
    /\ cpc[h] = "store"
    /\ prop' = sub[h]
    /\ \/ End(h) /\ UNCHANGED trouble
       \/ Faulty /\ Fail(h)
    /\ UNCHANGED <<columns, live, used, due, driveVars, runVars>>

-----------------------------------------------------------------------------
(* disableContainerProcessing. *)

Disable(h) ==
    /\ Begin(h, "disable")
    /\ UNCHANGED <<sub, switchVars, due, driveVars, runVars>>

(* Mutant of ListSubscriptions: only the one whose id is stored. *)
ListStored(h) ==
    /\ cpc[h] = "disable"
    /\ LET found == live \cap {prop}
       IN  Proceed(h, IF found = {} THEN "clear" ELSE "remove", found)
    /\ UNCHANGED <<switchVars, due, driveVars, runVars>>

(* All that there are, whichever call made them. *)
ListSubscriptions(h) ==
    /\ cpc[h] = "disable"
    /\ Proceed(h, IF live = {} THEN "clear" ELSE "remove", live)
    /\ UNCHANGED <<switchVars, due, driveVars, runVars>>

(* Graph answers 404 for one that is gone, and the call throws. *)
RemoveSubscription(h) ==
    /\ cpc[h] = "remove"
    /\ \E s \in left[h] :
          \/ /\ s \in live
             /\ live' = live \ {s}
             /\ Answer(h, IF left[h] = {s} THEN "clear" ELSE "remove", left[h] \ {s})
          \/ s \notin live /\ Fail(h) /\ UNCHANGED live
    /\ UNCHANGED <<columns, used, prop, due, driveVars, runVars>>

(* A disable that ran alone makes up for everything before it. *)
ClearId(h) ==
    /\ cpc[h] = "clear"
    /\ prop' = None
    /\ \/ /\ End(h)
          /\ trouble' = IF alone[h] THEN trouble \ SwitchTrouble ELSE trouble
       \/ Faulty /\ Fail(h)
    /\ UNCHANGED <<columns, live, used, due, driveVars, runVars>>

(* 4230 minutes have passed; nothing renews a subscription. *)
Expire(s) ==
    /\ s \in live
    /\ live' = live \ {s}
    /\ trouble' = trouble \cup {"expired"}
    /\ UNCHANGED <<columns, used, prop, due, callVars, driveVars, runVars>>

-----------------------------------------------------------------------------
(* The drive: every change is notified once for every subscription. *)

Upload(f) ==
    /\ uploads[f] < MaxUploads
    /\ uploads[f] = 0 \/ f \in present
    /\ uploads' = [uploads EXCEPT ![f] = @ + 1]
    /\ present' = present \cup {f}
    /\ due' = due \cup live
    /\ UNCHANGED <<switchVars, callVars, done, runVars, trouble>>

Delete(f) ==
    /\ f \in present
    /\ present' = present \ {f}
    /\ due' = due \cup live
    /\ UNCHANGED <<switchVars, callVars, uploads, done, runVars, trouble>>

(* Mutant of OnDriveChanged: no run is started while one is under way. *)
OnDriveChangedUnlessBusy(s, r) ==
    /\ s \in due /\ rpc[r] = "idle"
    /\ due' = due \ {s}
    /\ rpc' = IF \A q \in Runs : rpc[q] = "idle" THEN [rpc EXCEPT ![r] = "list"] ELSE rpc
    /\ UNCHANGED <<switchVars, callVars, driveVars, todo, item, stream, trouble>>

(* onDriveChanged: a run is started, and nobody waits for it. *)
OnDriveChanged(s, r) ==
    /\ s \in due /\ rpc[r] = "idle"
    /\ due' = due \ {s}
    /\ rpc' = [rpc EXCEPT ![r] = "list"]
    /\ UNCHANGED <<switchVars, callVars, driveVars, todo, item, stream, trouble>>

LoseNotification(s) ==
    /\ Faulty /\ s \in due
    /\ due' = due \ {s}
    /\ trouble' = trouble \cup {"runFailed"}
    /\ UNCHANGED <<switchVars, callVars, driveVars, runVars>>

-----------------------------------------------------------------------------
(* processDrive and processItem. *)

(* Mutant of GetUnprocessedItems: the filter is dropped. *)
GetAllItems(r) ==
    /\ rpc[r] = "list"
    /\ todo' = [todo EXCEPT ![r] = present]
    /\ rpc' = [rpc EXCEPT ![r] = "items"]
    /\ UNCHANGED <<switchVars, due, callVars, driveVars, item, stream, trouble>>

GetUnprocessedItems(r) ==
    /\ rpc[r] = "list"
    /\ todo' = [todo EXCEPT ![r] = {f \in present : done[f] = 0}]
    /\ rpc' = [rpc EXCEPT ![r] = "items"]
    /\ UNCHANGED <<switchVars, due, callVars, driveVars, item, stream, trouble>>

SkipItem(r) ==
    /\ rpc[r] = "items"
    /\ \E f \in todo[r] \ Supported : todo' = [todo EXCEPT ![r] = @ \ {f}]
    /\ UNCHANGED <<switchVars, due, callVars, driveVars, rpc, item, stream, trouble>>

TakeItem(r) ==
    /\ rpc[r] = "items"
    /\ \E f \in todo[r] \cap Supported :
          /\ todo' = [todo EXCEPT ![r] = @ \ {f}]
          /\ item' = [item EXCEPT ![r] = f]
    /\ rpc' = [rpc EXCEPT ![r] = "download"]
    /\ UNCHANGED <<switchVars, due, callVars, driveVars, stream, trouble>>

(* getDriveItemStream and extractReceiptFields, of the present content. *)
ExtractFields(r) ==
    /\ rpc[r] = "download" /\ item[r] \in present
    /\ stream' = [stream EXCEPT ![r] = uploads[item[r]]]
    /\ rpc' = [rpc EXCEPT ![r] = "write"]
    /\ UNCHANGED <<switchVars, due, callVars, driveVars, todo, item, trouble>>

NextItem(r) ==
    /\ rpc' = [rpc EXCEPT ![r] = "items"]
    /\ item' = [item EXCEPT ![r] = None]
    /\ stream' = [stream EXCEPT ![r] = 0]
    /\ UNCHANGED todo

(* The recogniser fails: it returns undefined, and the item is left.       *)
NoFields(r) ==
    /\ Faulty /\ rpc[r] = "download"
    /\ NextItem(r)
    /\ trouble' = trouble \cup {"runFailed"}
    /\ UNCHANGED <<switchVars, due, callVars, driveVars>>

EndRun(r) ==
    /\ rpc' = [rpc EXCEPT ![r] = "idle"]
    /\ todo' = [todo EXCEPT ![r] = {}]
    /\ item' = [item EXCEPT ![r] = None]
    /\ stream' = [stream EXCEPT ![r] = 0]

(* The fields are written, a change of the drive; the reply may be lost.   *)
SetDriveItemFields(r) ==
    /\ rpc[r] = "write" /\ item[r] \in present
    /\ done' = [done EXCEPT ![item[r]] = stream[r]]
    /\ due' = due \cup live
    /\ \/ NextItem(r) /\ UNCHANGED trouble
       \/ Faulty /\ EndRun(r) /\ trouble' = trouble \cup {"runFailed"}
    /\ UNCHANGED <<switchVars, callVars, present, uploads>>

(* "We'll abort the whole thing if one fails": the item was deleted.       *)
ItemGone(r) ==
    /\ rpc[r] \in {"download", "write"} /\ item[r] \notin present
    /\ EndRun(r)
    /\ UNCHANGED <<switchVars, due, callVars, driveVars, trouble>>

(* Any other exception. *)
RunFails(r) ==
    /\ Faulty /\ rpc[r] # "idle"
    /\ EndRun(r)
    /\ trouble' = trouble \cup {"runFailed"}
    /\ UNCHANGED <<switchVars, due, callVars, driveVars>>

AllProcessed(r) ==
    /\ rpc[r] = "items" /\ todo[r] = {}
    /\ EndRun(r)
    /\ UNCHANGED <<switchVars, due, callVars, driveVars, trouble>>

-----------------------------------------------------------------------------
CallStep(h) ==
    \/ ReadColumns(h) \/ AddColumn(h) \/ (\E r \in Runs : ValidateUrl(h, r))
    \/ Subscribe(h) \/ StoreId(h)
    \/ ListSubscriptions(h) \/ RemoveSubscription(h) \/ ClearId(h) \/ CallFails(h)

RunStep(r) ==
    \/ GetUnprocessedItems(r) \/ SkipItem(r) \/ TakeItem(r) \/ ExtractFields(r)
    \/ NoFields(r) \/ SetDriveItemFields(r) \/ ItemGone(r) \/ RunFails(r) \/ AllProcessed(r)

Next ==
    \/ \E h \in Calls : Enable(h) \/ Disable(h) \/ CallStep(h)
    \/ \E s \in Subs : Expire(s) \/ LoseNotification(s) \/ (\E r \in Runs : OnDriveChanged(s, r))
    \/ \E f \in Files : Upload(f) \/ Delete(f)
    \/ \E r \in Runs : RunStep(r)

(* Graph delivers what is due, and every await of a run comes to an end.   *)
Fairness ==
    /\ WF_vars(\E s \in Subs : \E r \in Runs : OnDriveChanged(s, r))
    /\ \A r \in Runs : WF_vars(RunStep(r))

Spec == Init /\ [][Next]_vars
FairSpec == Spec /\ Fairness
-----------------------------------------------------------------------------
(* The type of every variable. *)
TypeOK ==
    /\ columns \subseteq Columns /\ live \subseteq used /\ used \subseteq Subs
    /\ prop \in used \cup {None} /\ due \subseteq used
    /\ cpc \in [Calls -> {"idle", "enable", "columns", "subscribe", "activate", "store",
                         "disable", "remove", "clear"}]
    /\ left \in [Calls -> SUBSET (Columns \cup Subs)]
    /\ sub \in [Calls -> used \cup {None}]
    /\ alone \in [Calls -> BOOLEAN]
    /\ present \subseteq Files
    /\ uploads \in [Files -> 0..MaxUploads]
    /\ done \in [Files -> 0..MaxUploads]
    /\ rpc \in [Runs -> {"idle", "list", "items", "download", "write"}]
    /\ todo \in [Runs -> SUBSET Files]
    /\ item \in [Runs -> Supported \cup {None}]
    /\ stream \in [Runs -> 0..MaxUploads]
    /\ trouble \subseteq Trouble

(* The switch shows what there is: set to a living subscription, or not    *)
(* set and no subscription at all.                                         *)
Honest ==
    /\ prop = None => live = {}
    /\ prop # None => prop \in live

(* Between calls the switch is honest, however often enable was called, as *)
(* long as no calls overlapped, none failed and no subscription expired    *)
(* since the beginning, or since the last disable that ran alone.          *)
SwitchHonest ==
    trouble \cap SwitchTrouble = {} /\ (\A h \in Calls : cpc[h] = "idle") => Honest

(* The inductive invariant of the switch: what a call has in its locals,   *)
(* what a call that is alone knows of the subscriptions, and what holds of *)
(* them while nothing went wrong.                                          *)
Enabling == {"enable", "columns", "subscribe", "activate", "store"}
LocalsInv ==
    \A h \in Calls : /\ cpc[h] = "columns" => left[h] \subseteq Columns
                     /\ cpc[h] \in Enabling => sub[h] \in used
AloneInv ==
    /\ \A h \in Calls : alone[h] =>
          cpc[h] # "idle" /\ \A g \in Calls \ {h} : cpc[g] = "idle"
    /\ "overlap" \notin trouble => \A h \in Calls : cpc[h] # "idle" => alone[h]
RemoveInv ==
    \A h \in Calls : alone[h] =>
        /\ cpc[h] = "remove" => live \subseteq left[h]
        /\ cpc[h] = "clear" => live = {}
Undecided == {"idle", "enable", "columns", "subscribe", "activate", "disable"}
HonestInv ==
    trouble \cap SwitchTrouble = {} =>
        /\ (\A h \in Calls : cpc[h] \in Undecided) => Honest
        /\ \A h \in Calls : cpc[h] = "store" => sub[h] \in live
SwitchInv == LocalsInv /\ AloneInv /\ RemoveInv /\ HonestInv

(* The calls, one request at a time, implement the abstract switch: they   *)
(* store the id of a subscription that Graph has, clear it when there is   *)
(* none left, and only a disable that ran alone makes the switch reliable  *)
(* again (changeNotifications.ts:23-128, GraphProvider.ts:122-163).        *)
Doing ==
    IF \E h \in Calls : cpc[h] \in Enabling THEN "enable"
    ELSE IF \E h \in Calls : cpc[h] # "idle" THEN "disable" ELSE "nothing"
Switch == INSTANCE ProcessingSwitch WITH
    Ids <- Subs, NoId <- None, shown <- prop, serving <- live,
    reliable <- trouble \cap SwitchTrouble = {}, doing <- Doing
SwitchImplemented == Switch!Spec

(* A supported item that is there when a notification is under way gets    *)
(* its fields, although a run ends at the first item that is gone, unless  *)
(* it is deleted, processing is switched off, or a run fails.              *)
NotifiedIsProcessed ==
    \A f \in Supported :
        f \in present /\ due # {} ~>
            done[f] # 0 \/ f \notin present \/ live = {} \/ "runFailed" \in trouble

(* The fields that a run writes notify again, once for each subscription:  *)
(* once the users stop, so do the runs.                                    *)
ProcessingEnds == <>[](due = {} /\ \A r \in Runs : rpc[r] = "idle")
=============================================================================
