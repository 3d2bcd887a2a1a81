------------------------- MODULE MCContainerBrowser -------------------------
(* A small instance of the container page: a folder with a file in it, and *)
(* items that are still to come.  Its parts meet only in the listings that *)
(* they ask for, so a behaviour uses the folders and one other part.       *)
EXTENDS ContainerActionBar, TLC

CONSTANTS docs, a

VARIABLE part

MCStart ==
    [i \in Items |-> CASE i = docs -> Root
                       [] i = a -> docs
                       [] OTHER -> Unborn]

OnePart ==
    /\ part # "preview" => UNCHANGED previewVars
    /\ part # "uploads" => UNCHANGED uploadVars
    /\ part # "dialogs" => UNCHANGED dialogVars
    /\ part # "switch" => UNCHANGED switchVars
    /\ UNCHANGED part

MCInit == Init /\ part \in {"preview", "uploads", "dialogs", "switch"}
MCSpec == MCInit /\ [][Next /\ OnePart]_<<vars, part>>

(* The files that are to be uploaded are alike. *)
NewFileSymmetry == Permutations(Files \ {a})
=============================================================================
