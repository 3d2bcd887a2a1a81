--------------------------- MODULE SummitDialogs ----------------------------
(***************************************************************************)
(* Four dialogs over the Container of the DevSummit sample                 *)
(* (04-checkpoint/src/components/dialogs): the permissions, properties and *)
(* columns of a container, and the column values of a file.  They stay     *)
(* mounted while they are closed, with what they listed last; opening one  *)
(* asks for its list again and shows the old one until the answer comes.   *)
(* They are modal, and cannot be closed while they work.  A list is the    *)
(* first page of Graph's answer; that it may be short is left out.         *)
(***************************************************************************)
EXTENDS SummitApi, Naturals, Sequences, SequencesExt

CONSTANTS
    Stores,         \* containers
    Docs,           \* files
    StoreOf,        \* the container of a file
    MaxReads,       \* bound on listings under way
    MaxOpens,       \* bound on the dialogs opened
    Nothing

Dialogs == {"permissions", "properties", "columns", "file"}

ASSUME DialogAssumption ==
    /\ StoreOf \in [Docs -> Stores] /\ Nothing \notin Stores \cup Docs \cup Dialogs
    /\ "work" \notin Docs      \* which is what a listing after work has in place of one
    /\ MaxReads \in Nat /\ MaxOpens \in Nat

(* What is listed; the file's dialog has the columns to choose from and    *)
(* the fields of the file.                                                 *)
Lists == {"permissions", "properties", "columns", "choices", "fields"}

VARIABLES
    store, doc,     \* the container of the page and its selected file
    dialog,         \* the open dialog, "file" or what it lists
    opens,          \* counts the dialogs opened
    rows,           \* whose each list is
    reads,          \* listings under way, in the order of their requests
    busy,           \* "idle", the request it waits for ("add", "delete" or
                    \* "save"), "listing" or, for ever, "hung"
    source,         \* whose the row to delete or the value to save is
    early,          \* history: it was chosen while its list was not settled
    doubt,          \* history: lists that failed, or that an answer to an
                    \* older request replaced, until the last one is answered
    crashed         \* the whole page is gone

placeVars == <<store, doc>>
workVars == <<busy, source, early>>
dialogsVars == <<placeVars, dialog, opens, rows, reads, workVars, doubt, crashed>>

Works == {"add", "delete", "save"}
Of(l) == IF l = "fields" THEN doc ELSE store

DialogsInit ==
    /\ doc \in Docs /\ store = StoreOf[doc]
    /\ dialog = Nothing /\ opens = 0 /\ rows = [l \in Lists |-> Nothing] /\ reads = <<>>
    /\ busy = "idle" /\ source = Nothing /\ early = FALSE
    /\ doubt = {} /\ crashed = FALSE

Read(l, of, next) == [list |-> l, of |-> of, next |-> next, late |-> FALSE]
NextRead(r) == [r EXCEPT !.list = "fields", !.of = r.next, !.next = Nothing]
Ask(r) == Len(reads) < MaxReads /\ reads' = Append(reads, r)
Pending(l) == \E k \in DOMAIN reads : reads[k].list = l \/ (l = "fields" /\ reads[k].next = doc)
Unsettled(l) == Pending(l) \/ l \in doubt

-----------------------------------------------------------------------------
Choose(f) ==
    /\ dialog = Nothing /\ ~crashed
    /\ doc' = f /\ store' = StoreOf[f]
    /\ UNCHANGED <<dialog, opens, rows, reads, workVars, doubt, crashed>>

(* Mutant of Show: only the first opening lists. *)
ShowOnce(d, r) ==
    /\ dialog = Nothing /\ ~crashed /\ opens < MaxOpens
    /\ dialog' = d /\ opens' = opens + 1
    /\ source' = Nothing /\ early' = FALSE
    /\ IF d # "file" /\ rows[d] # Nothing THEN UNCHANGED reads ELSE Ask(r)
    /\ UNCHANGED <<placeVars, rows, busy, doubt, crashed>>

(* Dialog d opens, its form is reset and r is asked for. *)
Show(d, r) ==
    /\ dialog = Nothing /\ ~crashed /\ opens < MaxOpens
    /\ dialog' = d /\ opens' = opens + 1
    /\ source' = Nothing /\ early' = FALSE
    /\ Ask(r)
    /\ UNCHANGED <<placeVars, rows, busy, doubt, crashed>>

ShowPermissions == Show("permissions", Read("permissions", store, Nothing))
ShowProperties == Show("properties", Read("properties", store, Nothing))
ShowColumns == Show("columns", Read("columns", store, Nothing))

(* For a file its columns, and then its fields. *)
ShowFile == Show("file", Read("choices", store, doc))

CloseDialog ==
    /\ dialog # Nothing /\ busy = "idle" /\ ~crashed
    /\ dialog' = Nothing /\ source' = Nothing /\ early' = FALSE
    /\ UNCHANGED <<placeVars, opens, rows, reads, busy, doubt, crashed>>

-----------------------------------------------------------------------------
(* Listing k is over and left its list of; what waits for it goes on.      *)
EndRead(k, of, goesOn) ==
    LET r == reads[k]
        rest == RemoveAt([j \in DOMAIN reads |-> IF j < k /\ reads[j].list = r.list
                                                 THEN [reads[j] EXCEPT !.late = TRUE]
                                                 ELSE reads[j]], k)
    IN  /\ rows' = [rows EXCEPT ![r.list] = of]
        /\ reads' = IF goesOn /\ r.next \in Docs THEN Append(rest, NextRead(r)) ELSE rest
        /\ doubt' = IF ~goesOn THEN doubt \cup {r.list, IF r.next \in Docs THEN "fields" ELSE r.list}
                    ELSE IF r.late \/ of # r.of THEN doubt \cup {r.list}
                    ELSE IF of = Of(r.list) /\ (\A j \in DOMAIN reads : j > k => reads[j].list # r.list)
                    THEN doubt \ {r.list} ELSE doubt
        /\ busy' = IF r.next # "work" THEN busy ELSE IF goesOn THEN "idle" ELSE "hung"
        /\ UNCHANGED <<placeVars, dialog, opens, source, early, crashed>>

(* What the listing of l returns; columns and fields come from Graph. *)
ListResult(l, token, graph) ==
    IF l = "permissions" THEN ListContainerPermissions(token, graph)
    ELSE IF l = "properties" THEN ListContainerProperties(token, graph)
    ELSE IF graph THEN "value" ELSE "throws"

ReadAnswered(k) ==
    /\ k \in DOMAIN reads
    /\ ListResult(reads[k].list, TRUE, TRUE) = "value" /\ EndRead(k, reads[k].of, TRUE)

(* The API has no list to give: there are no rows, or none to work with. *)
ReadRefused(k) ==
    /\ k \in DOMAIN reads
    /\ \E token, graph \in BOOLEAN :
           ListResult(reads[k].list, token, graph) \in {"undefined", "failure"}
    /\ EndRead(k, Nothing, TRUE)

(* A request that throws leaves the old rows, and a dialog at work hung.   *)
ReadThrows(k) ==
    /\ k \in DOMAIN reads
    /\ EndRead(k, rows[reads[k].list], FALSE)

-----------------------------------------------------------------------------
(* Work: the buttons of a dialog. *)

Idle(d) == dialog = d /\ busy = "idle" /\ ~crashed

Adding(d) ==
    /\ Idle(d)
    /\ busy' = "add"
    /\ UNCHANGED <<placeVars, dialog, opens, rows, reads, source, early, doubt, crashed>>

AddPermission == Adding("permissions")
AddProperty == Adding("properties")
AddColumn == Adding("columns")

(* The request names the container of the page and the row's id. *)
Deleting(d) ==
    /\ Idle(d) /\ rows[d] # Nothing
    /\ busy' = "delete"
    /\ source' = rows[d] /\ early' = Unsettled(d)
    /\ UNCHANGED <<placeVars, dialog, opens, rows, reads, doubt, crashed>>

DeletePermission == Deleting("permissions")
DeleteColumn == Deleting("columns")

(* Choosing another column puts the file's value into the input; with no   *)
(* fields yet the effect throws, and React takes the page away.  Columns   *)
(* have no names here: choosing the same one again changes nothing.        *)
PickColumn ==
    /\ Idle("file") /\ rows["choices"] # Nothing
    /\ source' = rows["fields"] /\ early' = Unsettled("fields")
    /\ crashed' = (rows["fields"] = Nothing)
    /\ UNCHANGED <<placeVars, dialog, opens, rows, reads, busy, doubt>>

TypeValue ==
    /\ Idle("file")
    /\ source' = Nothing
    /\ UNCHANGED <<placeVars, dialog, opens, rows, reads, busy, early, doubt, crashed>>

SaveValue ==
    /\ Idle("file") /\ rows["choices"] # Nothing /\ rows["fields"] # Nothing
    /\ busy' = "save"
    /\ UNCHANGED <<placeVars, dialog, opens, rows, reads, source, early, doubt, crashed>>

(* What the request of the work returns; columns and fields go to Graph.   *)
WorkResult(token, graph) ==
    IF dialog = "permissions"
    THEN IF busy = "add" THEN CreateContainerPermission(token, graph)
         ELSE DeleteContainerPermission(token, graph)
    ELSE IF dialog = "properties" THEN CreateContainerProperty("a name", token, graph)
    ELSE IF graph THEN "value" ELSE "throws"

(* Whatever the request returns is taken for done, unless it throws; that  *)
(* the API refuses every new property is not seen either.                  *)
WorkDone ==
    /\ busy \in Works
    /\ \E token, graph \in BOOLEAN : WorkResult(token, graph) # "throws"
    /\ busy' = "listing"
    /\ source' = IF dialog = "file" THEN source ELSE Nothing
    /\ LET l == IF dialog = "file" THEN "fields" ELSE dialog IN Ask(Read(l, Of(l), "work"))
    /\ UNCHANGED <<placeVars, dialog, opens, rows, early, doubt, crashed>>

WorkThrows ==
    /\ busy \in Works
    /\ busy' = "hung"
    /\ UNCHANGED <<placeVars, dialog, opens, rows, reads, source, early, doubt, crashed>>

-----------------------------------------------------------------------------
PermissionsDialog == AddPermission \/ DeletePermission
PropertiesDialog == AddProperty
ColumnsDialog == AddColumn \/ DeleteColumn
FileDialog == PickColumn \/ TypeValue \/ SaveValue

DialogsNext ==
    \/ \E f \in Docs : Choose(f)
    \/ ShowPermissions \/ ShowProperties \/ ShowColumns \/ ShowFile \/ CloseDialog
    \/ PermissionsDialog \/ PropertiesDialog \/ ColumnsDialog \/ FileDialog
    \/ \E k \in DOMAIN reads : ReadAnswered(k) \/ ReadRefused(k) \/ ReadThrows(k)
    \/ WorkDone \/ WorkThrows

DialogsSpec == DialogsInit /\ [][DialogsNext]_dialogsVars
-----------------------------------------------------------------------------
DialogsTypeOK ==
    /\ doc \in Docs /\ store = StoreOf[doc]
    /\ dialog \in Dialogs \cup {Nothing} /\ opens \in 0..MaxOpens
    /\ rows \in [Lists -> Stores \cup Docs \cup {Nothing}]
    /\ busy \in Works \cup {"idle", "listing", "hung"}
    /\ source \in Stores \cup Docs \cup {Nothing} /\ early \in BOOLEAN
    /\ doubt \subseteq Lists /\ crashed \in BOOLEAN

(* The row that is deleted, and the value that was filled in for saving,   *)
(* are the container's and the file's, unless they were chosen before the  *)
(* list was there, after it failed or after an older answer replaced it    *)
(* (ContainerPermissions.tsx:64-103, ContainerColumns.tsx:54-116,          *)
(* FileColumns.tsx:46-107).                                                *)
OwnDataSent ==
    source # Nothing /\ ~early => source = Of(IF dialog = "file" THEN "fields" ELSE dialog)
=============================================================================
