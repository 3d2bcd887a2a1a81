----------------------- MODULE MCContainerProcessing ------------------------
(* Small instances of ContainerProcessing: items by their names. *)
EXTENDS ContainerProcessing, TLC

MCSupported == Files \ {"c.txt"}

(* Calls are alike. *)
CallSymmetry == Permutations(Calls)
=============================================================================
