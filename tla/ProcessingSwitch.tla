-------------------------- MODULE ProcessingSwitch --------------------------
(***************************************************************************)
(* What the processing switch of a container promises, whatever requests   *)
(* enable and disable make of Graph (function-api/src/functions/           *)
(* changeNotifications.ts): one call at a time, the switch shows a         *)
(* subscription only after Graph has it, and stops showing it only after   *)
(* Graph has none left.  When something goes wrong the promise is off,     *)
(* until a disable ends that makes up for it.                              *)
(***************************************************************************)
CONSTANTS
    Ids,        \* of subscriptions
    NoId

VARIABLES
    shown,      \* the id that the switch shows, NoId if it is off
    serving,    \* subscriptions that Graph has
    reliable,   \* nothing has gone wrong, or a disable has made up for it
    doing       \* the call under way: "enable", "disable" or "nothing"

switch == <<shown, serving, reliable, doing>>

Init == shown = NoId /\ serving = {} /\ reliable = TRUE /\ doing = "nothing"

Begin ==
    /\ reliable /\ doing = "nothing"
    /\ doing' \in {"enable", "disable"}
    /\ UNCHANGED <<shown, serving, reliable>>

Serve(s) ==
    /\ reliable /\ doing = "enable"
    /\ serving' = serving \cup {s}
    /\ UNCHANGED <<shown, reliable, doing>>

Show(s) ==
    /\ reliable /\ doing = "enable" /\ s \in serving
    /\ shown' = s /\ doing' = "nothing"
    /\ UNCHANGED <<serving, reliable>>

Remove(s) ==
    /\ reliable /\ doing = "disable"
    /\ serving' = serving \ {s}
    /\ UNCHANGED <<shown, reliable, doing>>

Hide ==
    /\ reliable /\ doing = "disable" /\ serving = {}
    /\ shown' = NoId /\ doing' = "nothing"
    /\ UNCHANGED <<serving, reliable>>

(* What goes wrong may have had any effect, and so has what comes after.   *)
GoWrong == reliable' = FALSE

Recover ==
    /\ ~reliable /\ reliable' = TRUE
    /\ shown' = NoId /\ serving' = {} /\ doing' = "nothing"

Next ==
    \/ Begin \/ Hide \/ GoWrong \/ Recover
    \/ \E s \in Ids : Serve(s) \/ Show(s) \/ Remove(s)

Spec == Init /\ [][Next]_switch

(* While the promise holds, what the switch shows is served, but for a     *)
(* disable under way; and a switch that is off at rest has nothing served. *)
Kept ==
    reliable =>
        /\ shown # NoId /\ doing # "disable" => shown \in serving
        /\ shown = NoId /\ doing = "nothing" => serving = {}
=============================================================================
