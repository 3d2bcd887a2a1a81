---------------------------- MODULE MCOcrSample -----------------------------
(* Small instances of the OCR sample's server and of its web client, which *)
(* share no state: a behaviour is one of one of them, while the variables  *)
(* of the other stand still.                                               *)
EXTENDS ReceiptProcessor, OcrPage, TLC

CONSTANT Parts      \* the parts to check, of {"server", "client"}

VARIABLE part

(* Two files may have the same name but for what follows the dot. *)
MCStem == [f \in Files |-> IF f = "a.pdf" \/ f = "a.png" THEN "a" ELSE "b"]
MCSupported == Files \ {"b.txt"}

(* The runs are alike. *)
RunSymmetry == Permutations(Runs)

(* A container with a folder in a folder, and one with a folder. *)
MCHome == [f \in Folders |-> IF f = "z" THEN "c2" ELSE "c1"]
MCParent == [f \in Folders |-> IF f = "y" THEN "x" ELSE Root]

MCInit ==
    /\ Init /\ OcrInit
    /\ part \in Parts
    /\ part = "server" => choices = {"c1"}

MCNext ==
    /\ \/ part = "server" /\ Next /\ UNCHANGED ocrVars
       \/ part = "client" /\ OcrNext /\ UNCHANGED vars
    /\ UNCHANGED part

MCSpec == MCInit /\ [][MCNext]_<<vars, ocrVars, part>>

(* The server's awaits come to an end, and Graph notifies it.   *)
MCFairSpec == MCSpec /\ Fairness
=============================================================================
