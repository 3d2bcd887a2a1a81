--------------------------- MODULE FolderSession ----------------------------
(***************************************************************************)
(* The drive and the path that asp.net-webservice keeps in the session of  *)
(* a browser (Controllers/ContainerController.cs).  Every tab of the       *)
(* browser has the same session.  A request reads it once, at its first    *)
(* use, and what it wrote is stored when it ends; the handlers wait for a  *)
(* token or for Graph in between.                                          *)
(*                                                                         *)
(* A tab that sends a request while another is under way drops the answer  *)
(* of the other, which goes on.  After an error page the user goes back.   *)
(***************************************************************************)
EXTENDS DriveTree

CONSTANTS
    Tabs,
    MaxRequests     \* bound on requests sent

ASSUME SessionAssumption == MaxRequests \in Nat

VARIABLES
    session,    \* [drive, path], or NoView before the first visit
    page,       \* what each tab shows: a session's view, and whether it is a
                \* folder's listing or search results
    running,    \* requests under way
    count,      \* counts requests
    latest,     \* the last request of each tab
    moved,      \* history: tabs whose page is not the session's any more
    astray      \* history: a folder was opened that is not in the last one

sessionVars == <<session, page, running, count, latest, moved, astray>>

NoView == [drive |-> None, path |-> <<>>]
View(d, p) == [drive |-> d, path |-> p]
NoPage == [view |-> NoView, results |-> FALSE]

SessionInit ==
    /\ session = NoView /\ page = [t \in Tabs |-> NoPage]
    /\ running = {} /\ count = 0 /\ latest = [t \in Tabs |-> 0]
    /\ moved = {} /\ astray = FALSE

-----------------------------------------------------------------------------
(* What the browser sends. *)

(* arg is a drive or a folder; what Delete, Duplicate and UploadFile do is *)
(* aimed at the page that they were sent from.                             *)
Send(t, kind, arg) ==
    /\ count < MaxRequests /\ count' = count + 1
    /\ latest' = [latest EXCEPT ![t] = count + 1]
    /\ running' = running \cup
           {[id |-> count + 1, tab |-> t, kind |-> kind, arg |-> arg, aimed |-> page[t].view,
             results |-> page[t].results, moved |-> t \in moved, read |-> FALSE, view |-> NoView]}
    /\ UNCHANGED <<session, page, moved, astray>>

OnPage(t) == page[t].view # NoView
OnListing(t) == OnPage(t) /\ ~page[t].results

OpenDrive(t, d) == Send(t, "drive", d)
ClickCrumb(t) == \E k \in DOMAIN page[t].view.path : OnListing(t) /\ Send(t, "crumb", page[t].view.path[k])
CloseSearch(t) == OnPage(t) /\ Send(t, "index", None)

(* A folder of the listing, or one that a search of the drive found.  The  *)
(* entry "/" is the folder itself.                                         *)
ClickFolder(t, f) ==
    /\ OnPage(t) /\ Home[f] = page[t].view.drive
    /\ page[t].results \/ Parent[f] = Last(page[t].view.path)
    /\ Send(t, "open", f)
ClickThis(t) == OnListing(t) /\ Send(t, "open", None)

(* UploadFile and CreateFolder; Delete and Duplicate. *)
SubmitHere(t) == OnListing(t) /\ Send(t, "put", None)
ClickItem(t) == OnPage(t) /\ Send(t, "item", None)

Submit(t) == OnPage(t) /\ Send(t, "search", page[t].view.drive)

-----------------------------------------------------------------------------
(* What the server does. *)

(* GetFolderPathForId: the path down to f, all of it if f is not there. *)
CutTo(p, f) == IF f \in ToSet(p) THEN SubSeq(p, 1, SelectInSeq(p, LAMBDA g : g = f)) ELSE p

(* The end of a request: the session is what it wrote, and it may have put *)
(* a page into its tab.                                                    *)
End(r, after, s, p, excused) ==
    /\ running' = (IF s = session THEN running \ {r}
                    ELSE {IF q.read THEN q ELSE [q EXCEPT !.moved = TRUE] : q \in running \ {r}})
                   \cup after
    /\ session' = s
    /\ page' = p
    /\ moved' = (IF s = session THEN moved ELSE Tabs) \ excused
    /\ UNCHANGED <<count, latest>>

(* The tab gets the page, if it still waits for it. *)
Waits(r) == latest[r.tab] = r.id
ServePage(r, s, v, res) ==
    IF Waits(r)
    THEN End(r, {}, s, [page EXCEPT ![r.tab] = [view |-> v, results |-> res]], {r.tab})
    ELSE End(r, {}, s, page, {})

(* RedirectToAction("Index"), which the tab follows if it still waits. *)
Redirected(r) == [r EXCEPT !.kind = "index", !.arg = None, !.moved = TRUE, !.read = FALSE, !.view = NoView]
Redirect(r, s) == End(r, IF Waits(r) THEN {Redirected(r)} ELSE {}, s, page, {})

(* The request's read of the session.  Index for a drive does not read it, *)
(* and Search does when it ends.                                           *)
ReadSession(r) ==
    /\ ~r.read /\ r.kind \notin {"drive", "search"}
    /\ running' = (running \ {r}) \cup
           {[r EXCEPT !.read = TRUE,
                      !.view = IF r.kind = "crumb" /\ session # NoView
                               THEN [session EXCEPT !.path = CutTo(@, r.arg)] ELSE session]}
    /\ UNCHANGED <<session, page, count, latest, moved, astray>>

(* Mutant of IndexDone: a cut path is not stored. *)
IndexDoneUnsaved(r) ==
    /\ r.kind \in {"drive", "crumb", "index"}
    /\ r.kind = "drive" \/ (r.read /\ r.view # NoView)
    /\ LET v == IF r.kind = "drive" THEN View(r.arg, <<Root>>) ELSE r.view
       IN  ServePage(r, IF r.kind = "drive" THEN v ELSE session, v, FALSE)
    /\ UNCHANGED astray

(* Index stores its view before it asks Graph for the items. *)
IndexDone(r) ==
    /\ r.kind \in {"drive", "crumb", "index"}
    /\ r.kind = "drive" \/ (r.read /\ r.view # NoView)
    /\ LET v == IF r.kind = "drive" THEN View(r.arg, <<Root>>) ELSE r.view
       IN  ServePage(r, v, v, FALSE)
    /\ UNCHANGED astray

(* Graph does not list the items: the view is stored all the same. *)
IndexFails(r) ==
    /\ r.kind \in {"drive", "crumb", "index"}
    /\ r.kind = "drive" \/ (r.read /\ r.view # NoView)
    /\ End(r, {}, IF r.kind = "drive" THEN View(r.arg, <<Root>>) ELSE r.view, page, {})
    /\ UNCHANGED astray

OpenFolder(r) ==
    /\ r.kind = "open" /\ r.read
    /\ IF r.view = NoView \/ r.arg = None
       THEN Redirect(r, session) /\ UNCHANGED astray
       ELSE /\ Redirect(r, [r.view EXCEPT !.path = Append(@, r.arg)])
            /\ astray' = (astray \/ r.results \/ r.moved)

(* UploadFile, CreateFolder, Delete and Duplicate act on the session's     *)
(* drive and folder and go back to Index.                                  *)
ActDone(r) ==
    /\ r.kind \in {"put", "item"} /\ r.read /\ r.view # NoView
    /\ Redirect(r, session)
    /\ UNCHANGED astray

(* The results carry the session's view, whatever was searched. *)
ResultsDone(r) ==
    /\ r.kind = "search" /\ session # NoView
    /\ ServePage(r, session, session, TRUE)
    /\ UNCHANGED astray

(* There is no session, no token, or Graph fails. *)
RequestFails(r) ==
    /\ r.kind \in {"put", "item", "search"} \/ r.view = NoView
    /\ End(r, {}, session, page, {})
    /\ UNCHANGED astray

ServerStep(r) ==
    \/ ReadSession(r) \/ IndexDone(r) \/ IndexFails(r) \/ OpenFolder(r)
    \/ ActDone(r) \/ ResultsDone(r) \/ RequestFails(r)

SessionNext ==
    \/ \E t \in Tabs :
           \/ \E d \in Containers : OpenDrive(t, d)
           \/ \E f \in Folders : ClickFolder(t, f)
           \/ ClickCrumb(t) \/ CloseSearch(t) \/ ClickThis(t)
           \/ SubmitHere(t) \/ ClickItem(t) \/ Submit(t)
    \/ \E r \in running : ServerStep(r)

SessionSpec == SessionInit /\ [][SessionNext]_sessionVars
-----------------------------------------------------------------------------
Views == [drive : Containers, path : Seq(Folders \cup {Root}) \ {<<>>}] \cup {NoView}

Requests ==
    [id : 1..count, tab : Tabs,
     kind : {"drive", "crumb", "index", "open", "put", "item", "search"},
     arg : Containers \cup Folders \cup {Root, None}, aimed : Views,
     results : BOOLEAN, moved : BOOLEAN, read : BOOLEAN, view : Views]

SessionTypeOK ==
    /\ session \in Views
    /\ page \in [Tabs -> [view : Views, results : BOOLEAN]]
    /\ running \subseteq Requests
    /\ \A r \in running : /\ r.kind = "drive" => r.arg \in Containers
                          /\ r.kind = "open" => r.arg \in Folders \cup {None}
    /\ count \in 0..MaxRequests /\ latest \in [Tabs -> 0..MaxRequests]
    /\ moved \subseteq Tabs /\ astray \in BOOLEAN

(* What a page asks for happens in the drive and the folder that it shows, *)
(* unless a request has written the session since the page was served and  *)
(* before this one read it (ContainerController.cs:61-113).                *)
ActsWhereShown ==
    \A r \in running : r.kind \in {"put", "item"} /\ r.read /\ ~r.moved => r.view = r.aimed

(* The path leads from the root of the drive, each folder in the one       *)
(* before it, unless a folder was opened from search results or from a     *)
(* page that is not the session's (ContainerController.cs:115-129,         *)
(* 199-262).                                                               *)
PathLeadsDown ==
    ~astray /\ session # NoView =>
        /\ session.path[1] = Root
        /\ \A k \in 2..Len(session.path) :
               session.path[k] # Root /\ Parent[session.path[k]] = session.path[k - 1]
=============================================================================
