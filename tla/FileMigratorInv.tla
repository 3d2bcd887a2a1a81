-------------------------- MODULE FileMigratorInv ---------------------------
(***************************************************************************)
(* The inductive invariant of FileMigrator: what the main flow and the     *)
(* work items know about the drive and about each other at each point of   *)
(* their control flow.                                                     *)
(***************************************************************************)
EXTENDS FileMigrator

(* A drive that MigrateFiles may find: ids are paths, and files that an    *)
(* earlier run migrated are where that run put them.                       *)
DriveOK(d) ==
    /\ d = [p \in DOMAIN d |-> d[p]]
    /\ DOMAIN d \subseteq Seq(Name)
    /\ \A p \in DOMAIN d : d[p] \in Blobs => p = PlaceOf(d[p])

ASSUME DrivesAssumption == \A d \in Drives : DriveOK(d)

(* Where the cursor is: before it nothing is unseen, from it on all is.    *)
CursorInv ==
    /\ \A i \in Index : jpc[i] = "unseen" <=> (i > cur \/ (i = cur /\ mpc # "failing"))
    /\ mpc \in {"container", "mkContainer", "threw"} => cur = 1
    /\ mpc \in {"walk", "mkFolder", "failing"} => cur \in Index /\ fileList[cur] \in Blobs
    /\ mpc = "failing" => jpc[cur] \in {"report", "adding", "signal", "done"}
    /\ mpc \in {"wait", "returned"} => cur = Len(fileList) + 1

(* The walk stands at the folder it has come to. *)
WalkInv ==
    /\ mpc \notin {"container", "mkContainer", "threw"} => containerId = <<Fold[Container]>>
    /\ mpc \in {"walk", "mkFolder"} =>
          /\ depth <= Len(DirOf[fileList[cur]])
          /\ folderId = FoldPath(FolderKey(fileList[cur], depth))
    /\ mpc = "mkFolder" => depth < Len(DirOf[fileList[cur]])

(* A work item has the folder of its blob. *)
ParentInv ==
    \A i \in Index : jpc[i] \in {"queued", "download", "upload"} =>
        fileList[i] \in Blobs /\ parentId[i] = HomeOf(fileList[i])

(* An entry has an outcome exactly from the moment it is decided. *)
OutcomeInv ==
    \A i \in Index :
        /\ jpc[i] \in {"unseen", "queued", "download", "upload"} => outcome[i] = "none"
        /\ jpc[i] \in {"report", "adding", "signal"} => outcome[i] # "none"
        /\ jpc[i] = "done" => (outcome[i] = "none" <=> fileList[i] = EmptyLine)
        /\ outcome[i] # "none" => fileList[i] \in Blobs
        /\ outcome[i] = "none" => uploaded[i] = "none"
        /\ outcome[i] = "succeeded" => uploaded[i] \in {"true", "false"}

(* What an outcome says of the drive, from its decision on. *)
EvidenceInv ==
    \A i \in Index :
        /\ outcome[i] = "succeeded" /\ uploaded[i] = "true" =>
              /\ PlaceOf(fileList[i]) \in DOMAIN drive
              /\ drive[PlaceOf(fileList[i])] = fileList[i]
        /\ outcome[i] = "exist" => PlaceOf(fileList[i]) \in DOMAIN drive

(* A list holds entries whose Add is over, and all those that did not race.*)
ListInv ==
    \A i \in Index : \A l \in Lists :
        /\ i \in listed[l] => outcome[i] = l
        /\ outcome[i] = l /\ jpc[i] \in {"signal", "done"} /\ i \notin racing => i \in listed[l]

IInv ==
    /\ TypeOK /\ DriveOK(drive)
    /\ CursorInv /\ WalkInv /\ CacheFaithful /\ ParentInv
    /\ OutcomeInv /\ EvidenceInv /\ ListInv
    /\ CountdownExact /\ ReturnsLast
=============================================================================
