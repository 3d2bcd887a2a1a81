--------------------------- MODULE ContainersRoute --------------------------
(***************************************************************************)
(* The page of the containers in the React client                          *)
(* (react-client/src/routes/Containers.tsx).  The router runs its loader   *)
(* and its action: a navigation that submits creates a container and lists *)
(* again, and each navigation interrupts the one before it, whose action   *)
(* goes on although nobody waits for it.  useSubmit returns nothing to     *)
(* wait for, so that the dialog closes at once and can be used again.      *)
(*                                                                         *)
(* The containers of the tenant are those that were there and those that   *)
(* this page creates.  The code reads the first page of Graph's list,      *)
(* which here has them all.                                                *)
(***************************************************************************)
EXTENDS SpeApi, Naturals

CONSTANTS
    RouteContainers,
    Nobody,             \* no container
    MaxRouteClicks      \* bound on what the user does

ASSUME RouteAssumption == Nobody \notin RouteContainers /\ MaxRouteClicks \in Nat

VARIABLES
    stored,             \* containers of the tenant
    posting,            \* containers whose creation was asked for
    awaited,            \* the one that the navigation waits for
    loading,            \* the loader: "no", "list" or "gets"
    toGet, got,         \* containers to be asked for one by one, and those
                        \* that were answered
    routeRows,          \* useLoaderData
    alive,              \* the page has not been replaced by the error page
    showCreateDialog,
    selectedItems,
    told,               \* ChatController.selectedContainers
    routeClicks,        \* counts what the user did
    interrupted,        \* history: containers whose creation was interrupted
    skipped             \* history: containers that could not be got

loaderVars == <<loading, toGet, got, skipped>>
selectionVars == <<selectedItems, told>>
routeVars == <<stored, posting, awaited, loaderVars, routeRows, alive, showCreateDialog,
               selectionVars, routeClicks, interrupted>>

RouteInit ==
    /\ stored \in SUBSET RouteContainers /\ posting = {} /\ awaited = Nobody
    /\ loading = "list" /\ toGet = {} /\ got = {} /\ skipped = {}
    /\ routeRows = {} /\ alive = TRUE /\ showCreateDialog = FALSE
    /\ selectedItems = {} /\ told = {} /\ routeClicks = 0 /\ interrupted = {}

RouteClick == alive /\ routeClicks < MaxRouteClicks /\ routeClicks' = routeClicks + 1

(* The dialog is modal. *)
GridClick == RouteClick /\ ~showCreateDialog

(* A navigation begins: nobody waits any more for what was created.        *)
Interrupt == interrupted' = interrupted \cup ({awaited} \ {Nobody})

-----------------------------------------------------------------------------
(* The loader. *)

LoaderLists ==
    /\ alive /\ loading = "list" /\ ApiList(GetToken(TRUE, FALSE), TRUE, TRUE) = "value"
    /\ loading' = "gets" /\ toGet' = stored /\ got' = {} /\ skipped' = {}
    /\ UNCHANGED <<stored, posting, awaited, routeRows, alive, showCreateDialog, selectionVars,
                   routeClicks, interrupted>>

(* The error page takes the place of the page. *)
LoaderThrows ==
    /\ alive /\ loading = "list"
    /\ \E silent, redirected, exchange, graph \in BOOLEAN :
           ApiList(GetToken(silent, redirected), exchange, graph) = "throws"
    /\ alive' = FALSE /\ loading' = "no"
    /\ UNCHANGED <<stored, posting, awaited, toGet, got, skipped, routeRows, showCreateDialog,
                   selectionVars, routeClicks, interrupted>>

LoaderGets(c) ==
    /\ alive /\ loading = "gets" /\ c \in toGet
    /\ ApiGet(GetToken(TRUE, FALSE), TRUE, TRUE, TRUE) = "value"
    /\ toGet' = toGet \ {c} /\ got' = got \cup {c}
    /\ UNCHANGED <<stored, posting, awaited, loading, skipped, routeRows, alive, showCreateDialog,
                   selectionVars, routeClicks, interrupted>>

(* Ignored: the user may have no access to it. *)
LoaderSkips(c) ==
    /\ alive /\ loading = "gets" /\ c \in toGet
    /\ \E silent, redirected, exchange, graph, columns \in BOOLEAN :
           ApiGet(GetToken(silent, redirected), exchange, graph, columns) = "throws"
    /\ toGet' = toGet \ {c} /\ skipped' = skipped \cup {c}
    /\ UNCHANGED <<stored, posting, awaited, loading, got, routeRows, alive, showCreateDialog,
                   selectionVars, routeClicks, interrupted>>

LoaderEnds ==
    /\ alive /\ loading = "gets" /\ toGet = {}
    /\ loading' = "no" /\ routeRows' = got
    /\ UNCHANGED <<stored, posting, awaited, toGet, got, skipped, alive, showCreateDialog,
                   selectionVars, routeClicks, interrupted>>

-----------------------------------------------------------------------------
(* The action. *)

ToggleCreateDialog ==
    /\ RouteClick /\ showCreateDialog' = ~showCreateDialog
    /\ UNCHANGED <<stored, posting, awaited, loaderVars, routeRows, alive, selectionVars,
                   interrupted>>

SubmitCreateContainer(c) ==
    /\ RouteClick /\ showCreateDialog /\ c \notin stored \cup posting
    /\ Interrupt /\ awaited' = c /\ posting' = posting \cup {c}
    /\ loading' = "no"
    /\ showCreateDialog' = FALSE
    /\ UNCHANGED <<stored, toGet, got, skipped, routeRows, alive, selectionVars>>

ContainerCreated(c) ==
    /\ c \in posting /\ stored' = stored \cup {c}
    /\ UNCHANGED <<posting, awaited, loaderVars, routeRows, alive, showCreateDialog, selectionVars,
                   routeClicks, interrupted>>

(* Mutant of ActionEnds: the router does not run the loader again. *)
ActionEndsUnlisted(c) ==
    /\ c \in posting \cap stored /\ ApiCreate(GetToken(TRUE, FALSE), TRUE, TRUE, TRUE) = "value"
    /\ posting' = posting \ {c}
    /\ IF awaited = c /\ alive THEN awaited' = Nobody ELSE UNCHANGED awaited
    /\ UNCHANGED <<stored, loaderVars, routeRows, alive, showCreateDialog, selectionVars,
                   routeClicks, interrupted>>

(* If it was interrupted, the router has no use for the answer. *)
ActionEnds(c) ==
    /\ c \in posting \cap stored /\ ApiCreate(GetToken(TRUE, FALSE), TRUE, TRUE, TRUE) = "value"
    /\ posting' = posting \ {c}
    /\ IF awaited = c THEN awaited' = Nobody /\ loading' = "list"
                      ELSE UNCHANGED <<awaited, loading>>
    /\ UNCHANGED <<stored, toGet, got, skipped, routeRows, alive, showCreateDialog, selectionVars,
                   routeClicks, interrupted>>

(* Refused, or the answer was lost. *)
ActionThrows(c) ==
    /\ c \in posting
    /\ \E silent, redirected, named, exchange, graph \in BOOLEAN :
           ApiCreate(GetToken(silent, redirected), named, exchange, graph) = "throws"
    /\ posting' = posting \ {c}
    /\ IF awaited = c THEN awaited' = Nobody /\ alive' = FALSE ELSE UNCHANGED <<awaited, alive>>
    /\ UNCHANGED <<stored, loaderVars, routeRows, showCreateDialog, selectionVars, routeClicks,
                   interrupted>>

-----------------------------------------------------------------------------
(* The rest of the page. *)

(* The breadcrumb navigates to where the page is. *)
ClickContainers ==
    /\ GridClick /\ Interrupt /\ awaited' = Nobody /\ loading' = "list"
    /\ UNCHANGED <<stored, posting, toGet, got, skipped, routeRows, alive, showCreateDialog,
                   selectionVars>>

(* The user opens a container and comes back: the chat has not heard of it. *)
LeaveAndReturn ==
    /\ GridClick /\ Interrupt /\ awaited' = Nobody /\ loading' = "list"
    /\ selectedItems' = {}
    /\ UNCHANGED <<stored, posting, toGet, got, skipped, routeRows, alive, showCreateDialog, told>>

(* Rows that are gone may still be among the selected. *)
OnSelectionChange(ids) ==
    /\ GridClick /\ ids \subseteq routeRows \cup selectedItems
    /\ selectedItems' = ids /\ told' = ids \cap routeRows
    /\ UNCHANGED <<stored, posting, awaited, loaderVars, routeRows, alive, showCreateDialog,
                   interrupted>>

RouteNext ==
    \/ \E c \in RouteContainers : LoaderGets(c) \/ LoaderSkips(c) \/ SubmitCreateContainer(c)
                                  \/ ContainerCreated(c) \/ ActionEnds(c) \/ ActionThrows(c)
    \/ \E ids \in SUBSET RouteContainers : OnSelectionChange(ids)
    \/ LoaderLists \/ LoaderThrows \/ LoaderEnds \/ ToggleCreateDialog \/ ClickContainers
    \/ LeaveAndReturn

RouteSpec == RouteInit /\ [][RouteNext]_routeVars
-----------------------------------------------------------------------------
RouteTypeOK ==
    /\ stored \subseteq RouteContainers /\ posting \subseteq RouteContainers
    /\ awaited \in RouteContainers \cup {Nobody}
    /\ loading \in {"no", "list", "gets"}
    /\ toGet \subseteq RouteContainers /\ got \subseteq RouteContainers
    /\ routeRows \subseteq RouteContainers
    /\ alive \in BOOLEAN /\ showCreateDialog \in BOOLEAN
    /\ selectedItems \subseteq RouteContainers /\ told \subseteq RouteContainers
    /\ routeClicks \in 0..MaxRouteClicks
    /\ interrupted \subseteq RouteContainers /\ skipped \subseteq RouteContainers

(* Once no navigation is under way, the page lists every container, unless *)
(* it could not be got or the navigation that created it was interrupted   *)
(* by another one (Containers.tsx:10-28, 50-60).                           *)
ContainersListed ==
    alive /\ loading = "no" /\ awaited = Nobody =>
        stored \ (skipped \cup interrupted) \subseteq routeRows
=============================================================================
