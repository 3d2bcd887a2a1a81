------------------------------ MODULE MCParts -------------------------------
(* Small instances of ten components that do not interact: a behaviour is  *)
(* one of one of them, while the variables of the others stand still.      *)
EXTENDS FilesPage, FolderSession, Onboarding, TokenGate, SummitDialogs, SummitContainers,
        SpaPermissions, ChatFrame, ContainersRoute, FileSharing

VARIABLE part

(* A container with a folder in a folder, and one with a folder. *)
MCHome == [f \in Folders |-> IF f = "z" THEN "c2" ELSE "c1"]
MCParent == [f \in Folders |-> IF f = "y" THEN "x" ELSE Root]
MCStoreOf == [d \in Docs |-> IF d = "f3" THEN "s2" ELSE "s1"]

Rest(p, vs) == IF part = p THEN TRUE ELSE UNCHANGED vs

MCInit ==
    /\ FilesInit /\ SessionInit /\ OnboardingInit /\ GateInit /\ DialogsInit /\ ContainersInit
    /\ SpaInit /\ ChatInit /\ RouteInit /\ SharingInit
    /\ part \in {"permissions", "files", "session", "onboarding", "gate", "dialogs", "containers",
                "chat", "route", "sharing"}
    /\ part # "files" => container = "c1"
    /\ part # "gate" => issued = "k1"
    /\ part # "dialogs" => doc = "f1"
    /\ part # "containers" => existing = {}
    /\ part # "permissions" => firstVaults = {}
    /\ part # "route" => stored = {}

MCNext ==
    /\ \/ part = "files" /\ FilesNext
       \/ part = "session" /\ SessionNext
       \/ part = "onboarding" /\ OnboardingNext
       \/ part = "gate" /\ GateNext
       \/ part = "dialogs" /\ DialogsNext
       \/ part = "containers" /\ ContainersNext
       \/ part = "permissions" /\ SpaNext
       \/ part = "chat" /\ ChatNext
       \/ part = "route" /\ RouteNext
       \/ part = "sharing" /\ SharingNext
    /\ Rest("files", filesVars) /\ Rest("session", sessionVars)
    /\ Rest("onboarding", onboardingVars) /\ Rest("gate", gateVars)
    /\ Rest("dialogs", dialogsVars) /\ Rest("containers", containersVars)
    /\ Rest("permissions", spaVars) /\ Rest("chat", chatVars)
    /\ Rest("route", routeVars) /\ Rest("sharing", sharingVars)
    /\ UNCHANGED part

MCSpec == MCInit /\ [][MCNext]_<<filesVars, sessionVars, onboardingVars, gateVars, dialogsVars,
                                containersVars, spaVars, chatVars, routeVars, sharingVars, part>>
=============================================================================
