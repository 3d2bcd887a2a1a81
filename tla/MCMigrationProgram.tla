------------------------ MODULE MCMigrationProgram -------------------------
(* Small instances of MigrationProgram, over the names of MCFileMigrator. *)
EXTENDS MigrationProgram, TLC

MCName == {"c", "a", "f"}
MCFold == [n \in MCName |-> n]
MCBlobs == {"a/f", "a", "f"}
MCDirOf == [x \in MCBlobs |-> IF x = "a/f" THEN <<"a">> ELSE << >>]
MCNameOf == [x \in MCBlobs |-> IF x = "a" THEN "a" ELSE "f"]

EmptyDrive == [p \in {} |-> "folder"]
FileInTheWay == (<<"c">> :> "folder" @@ <<"c", "a">> :> "foreign")
MCDrives == {EmptyDrive, FileInTheWay}
(* A drive in which somebody else has a file in the place of a/f. *)
ForeignDrive == (<<"c">> :> "folder" @@ <<"c", "a">> :> "folder" @@ <<"c", "a", "f">> :> "foreign")
TwoDrives == {EmptyDrive, ForeignDrive}

MCStorageLists == {<<"a/f", "f">>}
MCFileLists == {<<"f", "a/f">>}
MCUserFiles == {1}
=============================================================================
