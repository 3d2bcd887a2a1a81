----------------------------- MODULE SummitApi ------------------------------
(***************************************************************************)
(* The API of the DevSummit sample: the handlers of its server             *)
(* (04-checkpoint/server) and the functions of its client that call them   *)
(* (src/services/spembedded.ts).  SummitContainers and SummitDialogs work  *)
(* with what these functions return.                                       *)
(*                                                                         *)
(* token says whether the user's token can be exchanged for one of Graph,  *)
(* graph whether Graph then does what it is asked for.                     *)
(***************************************************************************)

(* What a handler sends first is what the client gets.  That the token     *)
(* could not be exchanged is sent as a body like any other, with status    *)
(* 200; all other failures have a status of their own.                     *)
Answer(complete, token, graph) ==
    IF ~complete THEN "refused"
    ELSE IF ~token THEN "failure"
    ELSE IF graph THEN "value" ELSE "refused"

(* What the client's functions make of a refusal. *)
OrUndefined(answer) == IF answer = "refused" THEN "undefined" ELSE answer

-----------------------------------------------------------------------------
(* The server; body is the set of fields that the request has. *)

OnListContainers(token, graph) == Answer(TRUE, token, graph)
OnListContainerPermissions(token, graph) == Answer(TRUE, token, graph)
OnListContainerProperties(token, graph) == Answer(TRUE, token, graph)

OnCreateContainer(body, token, graph) == Answer("displayName" \in body, token, graph)

OnCreateContainerPermission(body, token, graph) ==
    Answer({"role", "userPrincipalName"} \subseteq body, token, graph)

OnDeleteContainerPermission(body, token, graph) ==
    Answer("permissionId" \in body, token, graph)

OnCreateContainerProperty(body, token, graph) ==
    Answer({"propertyName", "propertyValue", "isSearchable"} \subseteq body, token, graph)

-----------------------------------------------------------------------------
(* The client.  A failure has no value, which is how lists are told.       *)

ListContainers(token, graph) ==
    LET a == OnListContainers(token, graph) IN IF a = "value" THEN a ELSE "undefined"

ListContainerPermissions(token, graph) ==
    LET a == OnListContainerPermissions(token, graph) IN IF a = "value" THEN a ELSE "undefined"

(* The fields of a failure are taken for properties. *)
ListContainerProperties(token, graph) == OrUndefined(OnListContainerProperties(token, graph))

(* A failure is taken for a container. *)
CreateContainer(token, graph) ==
    OrUndefined(OnCreateContainer({"displayName", "description"}, token, graph))

(* A failure has no user, and reading one throws. *)
CreateContainerPermission(token, graph) ==
    LET a == OnCreateContainerPermission({"role", "userPrincipalName"}, token, graph)
    IN  IF a = "failure" THEN "throws" ELSE OrUndefined(a)

DeleteContainerPermission(token, graph) ==
    OrUndefined(OnDeleteContainerPermission({"permissionId"}, token, graph))

(* The body has one field, which is named for the property. *)
CreateContainerProperty(name, token, graph) ==
    OrUndefined(OnCreateContainerProperty({name}, token, graph))
=============================================================================
