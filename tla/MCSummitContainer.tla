------------------------- MODULE MCSummitContainer --------------------------
(* A small instance of SummitContainer: a container with a folder in a     *)
(* folder, and one with a folder.                                          *)
EXTENDS SummitContainer

MCHome == [f \in Folders |-> IF f = "z" THEN "c2" ELSE "c1"]
MCParent == [f \in Folders |-> IF f = "y" THEN "x" ELSE Root]
=============================================================================
