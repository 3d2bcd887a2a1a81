-------------------------- MODULE MCFileMigrator ---------------------------
(* Small instances of FileMigrator. *)
EXTENDS FileMigratorInv, TLC

(* Names: "c" is the container, "A" is "a" in another case. *)
MCName == {"c", "a", "A", "b", "f"}
MCFold == [n \in MCName |-> IF n = "A" THEN "a" ELSE n]

(* Blobs by what they share: f1 and f2 lie in a/b and a/b is written A/b   *)
(* in f2; fa in a; ra is a file at the root that has the folder a's name.  *)
MCBlobs == {"a/b/f", "A/b/f", "a/f", "a", "f"}
MCDirOf == [x \in MCBlobs |-> CASE x = "a/b/f" -> <<"a", "b">>
                                [] x = "A/b/f" -> <<"A", "b">>
                                [] x = "a/f" -> <<"a">>
                                [] OTHER -> << >>]
MCNameOf == [x \in MCBlobs |-> IF x = "a" THEN "a" ELSE "f"]

Id0 == <<"c">>
EmptyDrive == [p \in {} |-> "folder"]
StartedDrive == (Id0 :> "folder" @@ <<"c", "a">> :> "folder" @@ <<"c", "a", "f">> :> "foreign")
FileInTheWay == (Id0 :> "folder" @@ <<"c", "a">> :> "foreign")
MCDrives == {EmptyDrive, StartedDrive, FileInTheWay}

TwoDeep == {<<"a/b/f", "a/f">>, <<"a/f", "A/b/f", "a/b/f">>, <<"a", "a/f", "">>}
MCFileLists == TwoDeep \cup {<< >>, <<"f", "f">>}
=============================================================================
