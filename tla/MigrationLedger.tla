-------------------------- MODULE MigrationLedger --------------------------
(***************************************************************************)
(* What a migration promises, whatever folders, caches and threads it uses *)
(* (Samples/migrate-abs-to-spe): every name it was given is settled once,  *)
(* with one outcome that stays; the result is read only when all names are *)
(* settled, unless the migration was given up before any was touched.      *)
(***************************************************************************)
EXTENDS Integers, Sequences

CONSTANTS
    NameLists,  \* the lists of names that a migration may be given
    NoName,     \* an empty line of such a list
    Outcomes    \* how a name may be settled; "skipped" for an empty line

VARIABLES
    names,      \* the list
    entry,      \* "open", or how the name at this index was settled
    phase       \* "running", "closed" or "given up"

ledger == <<names, entry, phase>>

Init ==
    /\ names \in NameLists
    /\ entry = [i \in DOMAIN names |-> "open"]
    /\ phase = "running"

Settle(i) ==
    /\ phase = "running" /\ entry[i] = "open"
    /\ \E o \in IF names[i] = NoName THEN {"skipped"} ELSE Outcomes :
          entry' = [entry EXCEPT ![i] = o]
    /\ UNCHANGED <<names, phase>>

Close ==
    /\ phase = "running"
    /\ \A i \in DOMAIN names : entry[i] # "open"
    /\ phase' = "closed"
    /\ UNCHANGED <<names, entry>>

GiveUp ==
    /\ phase = "running"
    /\ \A i \in DOMAIN names : entry[i] = "open"
    /\ phase' = "given up"
    /\ UNCHANGED <<names, entry>>

Next == (\E i \in DOMAIN names : Settle(i)) \/ Close \/ GiveUp

Spec == Init /\ [][Next]_ledger
=============================================================================
