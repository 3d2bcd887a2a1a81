----------------------------- MODULE DriveTree ------------------------------
(* Containers with a fixed tree of folders, which DrivePage and            *)
(* FolderSession build on.                                                 *)
EXTENDS Integers, Sequences, SequencesExt, FiniteSets

CONSTANTS
    Containers, Folders,
    Home, Parent,       \* the container of a folder, and the folder above it
    Root, None

ASSUME TreeAssumption ==
    /\ Root \notin Folders /\ None \notin Folders \cup Containers \cup {Root}
    /\ Home \in [Folders -> Containers]
    /\ Parent \in [Folders -> Folders \cup {Root}]

Places == Containers \X (Folders \cup {Root})

(* Graph knows a folder only in its own container. *)
InContainer(p) == p[2] = Root \/ (p[2] \in Folders /\ Home[p[2]] = p[1])
=============================================================================
