----------------------------- MODULE TokenGate ------------------------------
(***************************************************************************)
(* How a process of the Azure Functions API checks the tokens of its       *)
(* requests (function-api/src/providers/JwtProvider.ts).  The signing keys *)
(* are fetched by the first requests, which wait for them at the same time *)
(* and may get different sets: the issuer publishes a new key and takes an *)
(* old one back when it likes.  What one request fetched is added to what  *)
(* is there, and nothing is fetched again.                                 *)
(***************************************************************************)
EXTENDS Naturals, FiniteSets

CONSTANTS
    Keys,           \* signing keys, by their kid
    MaxTokens       \* bound on requests

ASSUME GateAssumption == MaxTokens \in Nat /\ IsFiniteSet(Keys)

VARIABLES
    issued,     \* the key that signs new tokens
    published,  \* keys that the issuer lists
    keys,       \* _keys, the keys that the process knows
    checks,     \* requests whose token is under check
    tokens,     \* counts them
    accepted,   \* keys of which a token was accepted, since the start
    rolled,     \* history: keys published or withdrawn since the keys were
                \* first asked for
    refused     \* keys of which a valid token was refused, since the start

gateVars == <<issued, published, keys, checks, tokens, accepted, rolled, refused>>

GateInit ==
    /\ issued \in Keys /\ published = {issued}
    /\ keys = {} /\ checks = {} /\ tokens = 0
    /\ accepted = {} /\ rolled = {} /\ refused = {}

-----------------------------------------------------------------------------
(* The issuer signs with another key; the old one is listed for a while.   *)
Rollover(k) ==
    /\ k \notin published
    /\ issued' = k /\ published' = published \cup {k}
    /\ rolled' = rolled \cup {k}
    /\ UNCHANGED <<keys, checks, tokens, accepted, refused>>

Withdraw(k) ==
    /\ k \in published \ {issued}
    /\ published' = published \ {k}
    /\ rolled' = rolled \cup {k}
    /\ UNCHANGED <<issued, keys, checks, tokens, accepted, refused>>

(* Mutant of Arrive: keys that are being fetched do for the others. *)
ArriveUnloaded(k) ==
    /\ k \in published /\ tokens < MaxTokens /\ tokens' = tokens + 1
    /\ LET step == IF keys = {} /\ checks = {} THEN "loading" ELSE "loaded"
       IN  /\ checks' = checks \cup {[id |-> tokens, kid |-> k, step |-> step]}
           /\ rolled' = IF keys = {} /\ checks = {} THEN {} ELSE rolled
    /\ UNCHANGED <<issued, published, keys, accepted, refused>>

(* A request with a token that is signed with a listed key.  verify asks   *)
(* for the keys if there are none; what was published before the first to  *)
(* ask is not new any more.                                                *)
Arrive(k) ==
    /\ k \in published /\ tokens < MaxTokens /\ tokens' = tokens + 1
    /\ LET step == IF keys = {} THEN "loading" ELSE "loaded"
       IN  /\ checks' = checks \cup {[id |-> tokens, kid |-> k, step |-> step]}
           /\ rolled' = IF keys = {} /\ checks = {} THEN {} ELSE rolled
    /\ UNCHANGED <<issued, published, keys, accepted, refused>>

(* _loadKeys *)
LoadKeys(c) ==
    /\ c.step = "loading"
    /\ keys' = keys \cup published
    /\ checks' = (checks \ {c}) \cup {[c EXCEPT !.step = "loaded"]}
    /\ UNCHANGED <<issued, published, tokens, accepted, rolled, refused>>

(* The request ends with an exception; the next one asks again. *)
KeysFail(c) ==
    /\ c.step = "loading"
    /\ checks' = checks \ {c}
    /\ UNCHANGED <<issued, published, keys, tokens, accepted, rolled, refused>>

(* getSigningKey and jwt.verify. *)
Verify(c) ==
    /\ c.step = "loaded"
    /\ checks' = checks \ {c}
    /\ IF c.kid \in keys
       THEN accepted' = accepted \cup {c.kid} /\ UNCHANGED refused
       ELSE refused' = refused \cup {c.kid} /\ UNCHANGED accepted
    /\ UNCHANGED <<issued, published, keys, tokens, rolled>>

(* The process starts again, with no keys. *)
Restart ==
    /\ keys' = {} /\ checks' = {} /\ accepted' = {} /\ refused' = {}
    /\ UNCHANGED <<issued, published, tokens, rolled>>

GateNext ==
    \/ \E k \in Keys : Rollover(k) \/ Withdraw(k) \/ Arrive(k)
    \/ \E c \in checks : LoadKeys(c) \/ KeysFail(c) \/ Verify(c)
    \/ Restart

GateSpec == GateInit /\ [][GateNext]_gateVars
-----------------------------------------------------------------------------
GateTypeOK ==
    /\ issued \in Keys /\ published \subseteq Keys /\ keys \subseteq Keys
    /\ checks \subseteq [id : 0..MaxTokens, kid : Keys, step : {"loading", "loaded"}]
    /\ tokens \in 0..MaxTokens
    /\ accepted \subseteq Keys /\ rolled \subseteq Keys /\ refused \subseteq Keys

(* A key of which a token was accepted stays known until the process       *)
(* starts again, whatever other requests fetch (JwtProvider.ts:26-61).     *)
AcceptedStays == accepted \subseteq keys

(* A valid token is refused only if its key was published, or taken back,  *)
(* after the keys were first asked for (JwtProvider.ts:50-61).             *)
RefusedIsNew == refused \subseteq rolled
=============================================================================
