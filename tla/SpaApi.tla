------------------------------- MODULE SpaApi -------------------------------
(***************************************************************************)
(* The API of the SPA sample: its Azure functions, by whether they answer  *)
(* with success, and the functions of the client that call them            *)
(* (client-app/src/services/raas.js).  SpaPermissions works with what      *)
(* these return.                                                           *)
(*                                                                         *)
(* token says whether the user's token can be exchanged for one of Graph,  *)
(* graph whether Graph then does what it is asked for.                     *)
(***************************************************************************)

GetGraphToken(token) == token

ListContainersFunction(token, graph) == GetGraphToken(token) /\ graph
GetContainerPermissionsFunction(token, graph) == GetGraphToken(token) /\ graph
DeleteContainerPermissionByIdFunction(token, graph) == GetGraphToken(token) /\ graph

(* The name of the tenant comes first, from its root site. *)
AddContainerPermissionFunction(token, rootSite, graph) ==
    GetGraphToken(token) /\ rootSite /\ graph

(* named: the request has a display name. *)
CreateContainerFunction(named, token, graph) == named /\ GetGraphToken(token) /\ graph

-----------------------------------------------------------------------------
(* The client: what did not succeed is null, and a delete returns nothing. *)

OrNull(success) == IF success THEN "value" ELSE "null"

listContainers(token, graph) == OrNull(ListContainersFunction(token, graph))
listContainerPermissions(token, graph) == OrNull(GetContainerPermissionsFunction(token, graph))
createContainer(named, token, graph) == OrNull(CreateContainerFunction(named, token, graph))

addContainerPermission(token, rootSite, graph) ==
    OrNull(AddContainerPermissionFunction(token, rootSite, graph))

deleteContainerPermissionById(token, graph) ==
    IF DeleteContainerPermissionByIdFunction(token, graph) THEN "undefined" ELSE "null"
=============================================================================
