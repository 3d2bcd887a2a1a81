------------------------------- MODULE SpeApi -------------------------------
(***************************************************************************)
(* The containers API of the React sample: the handlers of                 *)
(* function-api/src/functions/containers.ts by what they answer, and the   *)
(* functions of the client that call them                                  *)
(* (react-client/src/providers/ContainersApiProvider.ts).  ContainersRoute *)
(* works with what these return.                                           *)
(*                                                                         *)
(* token is what the request carries: "none", a token that is "refused",   *)
(* or a "good" one, whose tenant is known; exchange says whether the API   *)
(* gets a token of its own for Graph, the rest whether Graph does what it  *)
(* is asked for.                                                           *)
(***************************************************************************)

(* CustomAppApiAuthProvider: the token that the active account gets        *)
(* silently, or that of the login the page comes back from; otherwise the  *)
(* page leaves for the login, and until it has left the token is empty.    *)
(* Where it throws, the caller sees no more than it does of a refusal.     *)
GetToken(silent, redirected) == IF silent \/ redirected THEN "good" ELSE "none"

FromAuthHeader(token) == token # "none"
Authorize(token) == token = "good"

GraphAnswer(exchange, done) == IF exchange /\ done THEN "value" ELSE "500"

HandleList(token, exchange, graph) ==
    IF FromAuthHeader(token) /\ Authorize(token) THEN GraphAnswer(exchange, graph) ELSE "403"

(* named: the request has a display name. *)
HandleCreate(token, named, exchange, graph) ==
    IF ~(FromAuthHeader(token) /\ Authorize(token)) THEN "403"
    ELSE IF named THEN GraphAnswer(exchange, graph) ELSE "400"

(* The columns are a request of their own. *)
HandleGet(token, exchange, graph, columns) ==
    IF FromAuthHeader(token) /\ Authorize(token) THEN GraphAnswer(exchange, graph /\ columns)
    ELSE "403"

-----------------------------------------------------------------------------
(* The client: _send throws whatever was refused. *)

SendRequest(answer) == IF answer = "value" THEN "value" ELSE "throws"

ApiList(token, exchange, graph) == SendRequest(HandleList(token, exchange, graph))
ApiCreate(token, named, exchange, graph) ==
    SendRequest(HandleCreate(token, named, exchange, graph))
ApiGet(token, exchange, graph, columns) ==
    SendRequest(HandleGet(token, exchange, graph, columns))
=============================================================================
