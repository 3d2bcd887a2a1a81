-------------------------- MODULE MigrationProgram --------------------------
(***************************************************************************)
(* The console program around FileMigrator (Program.cs): it reads its      *)
(* arguments, authenticates, finds the names to migrate, runs one          *)
(* MigrateFiles, and saves the names that failed in a file for a re-run.   *)
(* The process may be killed at any time; the drive and the files outlive  *)
(* it, and the user may run the program again.                             *)
(*                                                                         *)
(* A file name is a number, 0 when the option is absent: HandleFailedBlobs *)
(* derives new names by appending "1" to the old one, which is +1 here.    *)
(***************************************************************************)
EXTENDS FileMigrator, SequencesExt

CONSTANTS
    StorageLists,   \* what ListBlobsAsync may return
    UserFiles,      \* the names of files that the user may pass
    MaxRuns         \* bound on the number of times the program is run

ASSUME ProgramAssumption ==
    /\ StorageLists \subseteq Seq(Line)
    /\ UserFiles \subseteq Nat \ {0}
    /\ MaxRuns \in Nat

VARIABLES
    ppc,        \* control state of Main
    cmd,        \* the command line: [tenantId, blobFile, outputFile]
    suggested,  \* the set of commands printed as "To re-run, copy the command"
    files,      \* the file system: file name -> lines
    runs        \* times the program was started

programVars == <<ppc, cmd, suggested, files, runs>>
allVars == <<vars, programVars>>

NoFile == 0
Command == [tenantId : BOOLEAN, blobFile : Nat, outputFile : Nat]

Running == ppc \notin {"idle", "ended", "usage", "unhandled", "killed"}

ProgramInit ==
    /\ Init
    /\ ppc = "idle"
    /\ cmd = [tenantId |-> TRUE, blobFile |-> NoFile, outputFile |-> NoFile]
    /\ suggested = {}
    /\ \E lines \in FileLists : files \in {[f \in {} |-> << >>], [f \in {1} |-> lines]}
    /\ runs = 0

(* A new FileMigrator for these names, about to run MigrateFiles. *)
NewMigrator(lines) ==
    LET entries == DOMAIN lines
    IN  /\ fileList' = lines
        /\ mpc' = "container"
        /\ cur' = 1 /\ depth' = 0
        /\ folderId' = NullItem /\ containerId' = NullItem
        /\ cache' = [k \in {} |-> NullItem]
        /\ jpc' = [i \in entries |-> "unseen"]
        /\ parentId' = [i \in entries |-> NullItem]
        /\ uploaded' = [i \in entries |-> "none"]
        /\ outcome' = [i \in entries |-> "none"]
        /\ racing' = {}
        /\ listed' = [l \in Lists |-> {}]
        /\ blank' = [l \in Lists |-> {}]
        /\ countdown' = Len(lines)
        /\ UNCHANGED drive

(* The user types a command with every required option, or copies one. *)
Start ==
    /\ ~Running /\ runs < MaxRuns
    /\ cmd' \in suggested \cup
                [tenantId : {TRUE}, blobFile : UserFiles \cup {NoFile},
                 outputFile : UserFiles \cup {NoFile}]
    /\ ppc' = "parse"
    /\ runs' = runs + 1
    /\ NewMigrator(<< >>)   \* the memory of a new process
    /\ UNCHANGED <<suggested, files>>

(* ParseArguments: the tenant id is Required, or Environment.Exit(1). *)
ParseArguments ==
    /\ ppc = "parse"
    /\ ppc' = IF cmd.tenantId THEN "validate" ELSE "usage"
    /\ UNCHANGED <<cmd, suggested, files, runs, vars>>

(* ValidateArguments reads the blob file; what it read waits in fileList.  *)
(* The URL and the client id are taken to be well formed.                  *)
Validate ==
    /\ ppc = "validate"
    /\ CASE cmd.blobFile = NoFile -> ppc' = "authenticate" /\ UNCHANGED vars
         [] cmd.blobFile \in DOMAIN files ->
                ppc' = "authenticate" /\ NewMigrator(files[cmd.blobFile])
         [] OTHER -> ppc' = "usage" /\ UNCHANGED vars
    /\ UNCHANGED <<cmd, suggested, files, runs>>

Authenticate ==
    /\ ppc = "authenticate"
    /\ \/ Faulty /\ ppc' = "ended"
       \/ ppc' = IF cmd.blobFile = NoFile THEN "list" ELSE "migrate"
    /\ UNCHANGED <<cmd, suggested, files, runs, vars>>

ListBlobs ==
    /\ ppc = "list"
    /\ \/ Faulty /\ ppc' = "ended" /\ UNCHANGED vars
       \/ ppc' = "migrate" /\ \E lines \in StorageLists : NewMigrator(lines)
    /\ UNCHANGED <<cmd, suggested, files, runs>>

Migrate ==
    /\ ppc = "migrate"
    /\ Main \/ \E i \in Jobs : Work(i)
    /\ UNCHANGED programVars

(* Mutant of MigrateEnds: saves when more than one blob failed. *)
MigrateEndsUnsaved ==
    /\ ppc = "migrate" /\ mpc \in {"returned", "threw"}
    /\ ppc' = IF Cardinality(listed["failed"] \cup blank["failed"]) <= 1
                THEN "ended" ELSE "save"
    /\ UNCHANGED <<cmd, suggested, files, runs, vars>>

(* MigrateFiles has returned, or its exception was caught and printed. *)
MigrateEnds ==
    /\ ppc = "migrate" /\ mpc \in {"returned", "threw"}
    /\ ppc' = IF listed["failed"] \cup blank["failed"] = {} THEN "ended" ELSE "save"
    /\ UNCHANGED <<cmd, suggested, files, runs, vars>>

(* The elements of blobUploadFailed, in the order in which they happen to  *)
(* stand there; a blank slot is written as an empty line.                  *)
FailedLines ==
    {[k \in DOMAIN s |-> IF s[k] \in listed["failed"] THEN fileList[s[k]] ELSE EmptyLine] :
        s \in SetToSeqs(listed["failed"] \cup blank["failed"])}

(* Where they are saved: --outputfile, or the name derived from --blobfile. *)
Output == IF cmd.outputFile # NoFile THEN cmd.outputFile ELSE cmd.blobFile + 1

(* HandleFailedBlobs.  Path.GetFullPath throws if no file name is given;   *)
(* the writer throws if the file cannot be written.                        *)
SaveFailed ==
    /\ ppc = "save"
    /\ IF cmd.outputFile = NoFile /\ cmd.blobFile = NoFile
         THEN ppc' = "unhandled" /\ UNCHANGED <<suggested, files>>
         ELSE /\ suggested' = suggested \cup
                    {[tenantId |-> FALSE, blobFile |-> Output, outputFile |-> Output + 1]}
              /\ \/ /\ \E lines \in FailedLines : files' = Bind(files, Output, lines)
                    /\ ppc' = "ended"
                 \/ Faulty /\ ppc' = "unhandled" /\ UNCHANGED files
    /\ UNCHANGED <<cmd, runs, vars>>

(* The process is killed, its threads with it.  While it saves, it may     *)
(* leave the file with the first lines only.                               *)
Kill ==
    /\ Running
    /\ ppc' = "killed"
    /\ NewMigrator(<< >>)   \* nothing is left in memory
    /\ \/ UNCHANGED files
       \/ /\ ppc = "save" /\ {cmd.outputFile, cmd.blobFile} # {NoFile}
          /\ \E lines \in FailedLines : \E n \in 0..Len(lines) :
                files' = Bind(files, Output, SubSeq(lines, 1, n))
    /\ UNCHANGED <<cmd, suggested, runs>>

Done == ~Running /\ runs = MaxRuns /\ UNCHANGED allVars

ProgramStep ==
    ParseArguments \/ Validate \/ Authenticate \/ ListBlobs \/ Migrate
    \/ MigrateEnds \/ SaveFailed

ProgramNext == Start \/ ProgramStep \/ Kill \/ Done

ProgramSpec == ProgramInit /\ [][ProgramNext]_allVars

(* A process that is not killed takes its next step: some thread runs.     *)
ProgramFairSpec == ProgramSpec /\ WF_allVars(ProgramStep)

-----------------------------------------------------------------------------
(* The type of the program's own variables. *)
ProgramTypeOK ==
    /\ ppc \in {"idle", "parse", "validate", "authenticate", "list", "migrate", "save",
                "ended", "usage", "unhandled", "killed"}
    /\ cmd \in Command /\ suggested \subseteq Command
    /\ \A f \in DOMAIN files : f \in Nat \ {NoFile} /\ files[f] \in Seq(Line)
    /\ runs \in 0..MaxRuns

(* When a run comes to its normal end, every blob it was given is in the   *)
(* drive or in the file for the re-run.  Excepted are a blob whose Add     *)
(* raced, and one whose upload answered false.                             *)
NothingForgotten ==
    ppc = "ended" /\ mpc = "returned" =>
        \A i \in Index :
            \/ fileList[i] = EmptyLine \/ i \in racing \/ uploaded[i] = "false"
            \/ PlaceOf(fileList[i]) \in DOMAIN drive
            \/ Output \in DOMAIN files /\ fileList[i] \in ToSet(files[Output])

(* A run that is not killed ends. *)
RunsEnd == Running ~> ~Running
=============================================================================
