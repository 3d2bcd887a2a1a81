----------------------------- MODULE DrivePage ------------------------------
(***************************************************************************)
(* What the file pages of three samples have in common: a container that   *)
(* is chosen above the page, a breadcrumb, and a list of items that every  *)
(* answered listing replaces.  FilesPage, SummitContainer and OcrPage      *)
(* extend it.                                                              *)
(*                                                                         *)
(* Containers have a fixed tree of folders, which may be deleted.  Other   *)
(* items are left out: what matters of a listing is whose it is.  The code *)
(* reads the first page of Graph's answer; that the rest of a long list is *)
(* missing is left out.                                                    *)
(***************************************************************************)
EXTENDS DriveTree

CONSTANTS
    Uploads,            \* files to upload
    MaxLoads,           \* bound on listings under way
    MaxEvents,          \* bound on what the user does
    MaxFailures         \* bound on requests that fail

ASSUME PageAssumption ==
    MaxLoads \in Nat /\ MaxEvents \in Nat /\ MaxFailures \in Nat /\ IsFiniteSet(Uploads)

VARIABLES
    gone,           \* the folders that were deleted
    container,      \* the container that the page is given
    crumbs,         \* the breadcrumb: the root and the folders down
    shown,          \* the place whose listing is on the screen, or
                    \* <<"nothing">>, <<"results">>
    loads,          \* listings under way, in the order of their requests
    causes,         \* history: why the screen may show another place
    events,         \* counts what the user did
    failures        \* counts what failed

listVars == <<shown, loads, causes>>
pageVars == <<gone, container, crumbs, listVars, events, failures>>

(* A folder exists if it and every folder above it does. *)
Exists[f \in Folders \cup {Root}] ==
    IF f = Root THEN TRUE ELSE IF f \in gone THEN FALSE ELSE Exists[Parent[f]]

(* What Graph finds: a folder of the container that was not deleted. *)
Valid(p) == InContainer(p) /\ Exists[p[2]]

(* The folders that are on the screen: search results are files. *)
Listed == {f \in Folders : <<Home[f], Parent[f]>> = shown}

Here == <<container, Last(crumbs)>>

Click == events < MaxEvents /\ events' = events + 1

(* A request fails, because it may or because it must. *)
Fails(must) ==
    IF must THEN UNCHANGED failures ELSE failures < MaxFailures /\ failures' = failures + 1

(* loadItems, for place p, of a page that is at here; closing is the       *)
(* dialog that waits for it.  If p is here, the listing makes up for what  *)
(* came before.                                                            *)
LoadItems(p, here, cause, closing) ==
    /\ Len(loads) < MaxLoads
    /\ loads' = Append(loads, [place |-> p, late |-> FALSE, closing |-> closing])
    /\ causes' = IF p = here THEN {} ELSE causes \cup {cause}

(* The listings that remain; those asked for earlier have been overtaken.  *)
Answered(k) ==
    RemoveAt([j \in DOMAIN loads |->
                 IF j < k THEN [loads[j] EXCEPT !.late = TRUE] ELSE loads[j]], k)

PageInit ==
    /\ gone = {} /\ container \in Containers /\ crumbs = <<Root>>
    /\ shown = <<"nothing">>
    /\ loads = << [place |-> <<container, Root>>, late |-> FALSE, closing |-> None] >>
    /\ causes = {} /\ events = 0 /\ failures = 0

PageTypeOK ==
    /\ gone \subseteq Folders /\ container \in Containers
    /\ crumbs \in Seq(Folders \cup {Root}) /\ crumbs # <<>>
    /\ shown \in Places \cup {<<"nothing">>, <<"results">>}
    /\ loads \in Seq([place : Places, late : BOOLEAN, closing : {None, "folder", "delete"}])
    /\ events \in 0..MaxEvents /\ failures \in 0..MaxFailures
=============================================================================
