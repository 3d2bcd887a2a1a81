----------------------- MODULE MigrationProgramProofs -----------------------
(***************************************************************************)
(* Proofs about MigrationProgram, over what is proved of FileMigrator: a   *)
(* run of the program is a FileMigrator that starts fresh, and again and   *)
(* again, over a drive that earlier runs have left.                        *)
(***************************************************************************)
EXTENDS MigrationProgram, FileMigratorProofs

(* The names in the file for the re-run cover the blobs that failed. *)
FailedSaved ==
    \A i \in listed["failed"] : Output \in DOMAIN files /\ fileList[i] \in ToSet(files[Output])

(* What a run has got to, by the state of Main. *)
ProgramInv ==
    /\ IInv
    /\ ProgramTypeOK
    /\ ppc \notin {"migrate", "save", "ended", "unhandled"} => mpc # "returned"
    /\ ppc = "ended" /\ mpc = "returned" => FailedSaved

-----------------------------------------------------------------------------
(* The migrator that a step of the program makes is fresh. *)
LEMMA NewMigratorFresh ==
    ASSUME IInv, NEW lines \in Seq(Line), NewMigrator(lines)
    PROVE  Fresh' /\ mpc' = "container"
<1>1. DriveOK(drive) /\ drive' = drive
  BY DEF IInv, NewMigrator
<1>2. DriveOK(drive')
  BY <1>1 DEF DriveOK
<1>3. Index' = DOMAIN lines
  BY DEF NewMigrator, Index
<1>4. QED
  BY <1>2, <1>3 DEF NewMigrator, Fresh

(* So it satisfies the invariant. *)
LEMMA NewMigratorInv ==
    ASSUME NEW lines \in Seq(Line)
    PROVE  IInv /\ NewMigrator(lines) => IInv' /\ mpc' = "container"
<1>1. IInv /\ NewMigrator(lines) => Fresh' /\ mpc' = "container"
  BY NewMigratorFresh
<1>2. QED
  BY <1>1, FreshInv, PTL

(* The empty list and the lists that are read are lists of lines. *)
LEMMA ReadLists ==
    ASSUME ProgramTypeOK
    PROVE  /\ << >> \in Seq(Line)
           /\ StorageLists \subseteq Seq(Line)
           /\ \A f \in DOMAIN files : files[f] \in Seq(Line)
BY ProgramAssumption DEF ProgramTypeOK

(* A list of the indices of S without repetition has them all. *)
LEMMA SeqsCover ==
    ASSUME NEW S, IsFiniteSet(S), NEW s \in SetToSeqs(S)
    PROVE  /\ s \in [1..Cardinality(S) -> S]
           /\ Cardinality(S) \in Nat
           /\ \A x \in S : \E k \in 1..Cardinality(S) : s[k] = x
<1> DEFINE n == Cardinality(S)
           D == 1..n
<1>1. n \in Nat
  BY FS_CardinalityType
<1>2. s \in [D -> S] /\ \A i, j \in D : i # j => s[i] # s[j]
  BY DEF SetToSeqs
<1>3. s \in Injection(D, S)
  BY <1>2 DEF Injection, IsInjective
<1>4. Cardinality(D) = n
  BY <1>1, FS_Interval
<1>5. s \in Surjection(D, S)
  BY <1>3, <1>4, FS_Injection
<1>6. QED
  BY <1>1, <1>2, <1>5 DEF Surjection

(* The lines that are saved are lines, and each failed blob is among them. *)
LEMMA FailedLinesCover ==
    ASSUME IInv, NEW lines \in FailedLines
    PROVE  lines \in Seq(Line) /\ \A i \in listed["failed"] : fileList[i] \in ToSet(lines)
<1> DEFINE S == listed["failed"] \cup blank["failed"]
           n == Cardinality(S)
<1>1. /\ Index = 1..Len(fileList) /\ Len(fileList) \in Nat
      /\ \A i \in Index : fileList[i] \in Line
  BY ListType DEF IInv
<1>2. listed["failed"] \subseteq Index /\ S \subseteq Index
  BY DEF IInv, TypeOK, Lists
<1>3. IsFiniteSet(Index)
  BY <1>1, FS_Interval
<1>4. IsFiniteSet(S)
  BY <1>2, <1>3, FS_Subset
<1>5. PICK s \in SetToSeqs(S) :
          lines = [k \in DOMAIN s |-> IF s[k] \in listed["failed"] THEN fileList[s[k]] ELSE EmptyLine]
  BY DEF FailedLines
<1>6. s \in [1..n -> S] /\ n \in Nat /\ \A x \in S : \E k \in 1..n : s[k] = x
  BY <1>4, SeqsCover
<1> HIDE DEF n
<1>7. /\ DOMAIN lines = 1..n
      /\ \A k \in 1..n : lines[k] = IF s[k] \in listed["failed"] THEN fileList[s[k]] ELSE EmptyLine
      /\ lines = [k \in 1..n |-> lines[k]]
  BY <1>5, <1>6
<1>8. \A k \in 1..n : lines[k] \in Line
  BY <1>1, <1>2, <1>7 DEF Line
<1>9. lines \in Seq(Line)
  BY <1>6, <1>7, <1>8
<1>10. ASSUME NEW i \in listed["failed"] PROVE fileList[i] \in ToSet(lines)
  <2>1. PICK k \in 1..n : s[k] = i
    BY <1>6
  <2>2. lines[k] = fileList[i] /\ k \in DOMAIN lines
    BY <1>7, <2>1
  <2>3. QED
    BY <2>2 DEF ToSet
<1>11. QED
  BY <1>9, <1>10

(* A prefix of lines is a list of lines. *)
LEMMA PrefixType ==
    ASSUME NEW lines \in Seq(Line), NEW n \in 0..Len(lines)
    PROVE  SubSeq(lines, 1, n) \in Seq(Line)
OBVIOUS

(* A file that is written has a name, and holds what was written to it. *)
LEMMA FileWritten ==
    ASSUME ProgramTypeOK, {cmd.outputFile, cmd.blobFile} # {NoFile},
           NEW lines \in Seq(Line), files' = Bind(files, Output, lines)
    PROVE  /\ \A f \in DOMAIN files' : f \in Nat \ {NoFile} /\ files'[f] \in Seq(Line)
           /\ Output \in DOMAIN files' /\ files'[Output] = lines
           /\ Output + 1 \in Nat
<1>1. cmd.outputFile \in Nat /\ cmd.blobFile \in Nat
  BY DEF ProgramTypeOK, Command
<1>2. Output \in Nat \ {NoFile}
  BY <1>1 DEF Output, NoFile
<1>3. /\ DOMAIN files' = DOMAIN files \cup {Output}
      /\ files'[Output] = lines
      /\ \A f \in DOMAIN files \ {Output} : files'[f] = files[f]
  BY DEF Bind
<1>4. QED
  BY <1>2, <1>3 DEF ProgramTypeOK

-----------------------------------------------------------------------------
(* The initial states satisfy the invariant. *)
LEMMA ProgramInitInv == ProgramInit => ProgramInv
<1> SUFFICES ASSUME ProgramInit PROVE ProgramInv
  OBVIOUS
<1>1. IInv /\ mpc = "container" /\ ppc = "idle"
  BY InitInv DEF ProgramInit, Init
<1>2. \A f \in DOMAIN files : f \in Nat \ {NoFile} /\ files[f] \in Seq(Line)
  <2>1. PICK lines \in FileLists : files \in {[f \in {} |-> << >>], [f \in {1} |-> lines]}
    BY DEF ProgramInit
  <2>2. QED
    BY <2>1, ListsAssumption DEF NoFile
<1>3. ProgramTypeOK
  BY <1>1, <1>2, ProgramAssumption DEF ProgramInit, ProgramTypeOK, Command, NoFile
<1>4. QED
  BY <1>1, <1>3 DEF ProgramInv

LEMMA StartInv ==
    ASSUME ProgramInv, Start
    PROVE  ProgramInv'
<1>1. << >> \in Seq(Line)
  OBVIOUS
<1>2. IInv' /\ mpc' = "container"
  BY <1>1, NewMigratorInv DEF ProgramInv, Start
<1>3. ppc' = "parse" /\ files' = files /\ suggested' = suggested
  BY DEF Start
<1>4. cmd' \in Command
  <2>1. UserFiles \cup {NoFile} \subseteq Nat /\ suggested \subseteq Command
    BY ProgramAssumption DEF ProgramInv, ProgramTypeOK, NoFile
  <2>2. [tenantId : {TRUE}, blobFile : UserFiles \cup {NoFile}, outputFile : UserFiles \cup {NoFile}]
            \subseteq Command
    BY <2>1 DEF Command
  <2>3. QED
    BY <2>1, <2>2 DEF Start
<1>5. runs' \in 0..MaxRuns
  BY ProgramAssumption DEF ProgramInv, ProgramTypeOK, Start
<1>6. ProgramTypeOK'
  BY <1>3, <1>4, <1>5 DEF ProgramInv, ProgramTypeOK
<1>7. QED
  BY <1>2, <1>3, <1>6 DEF ProgramInv

(* The steps before MigrateFiles, after it, and the one that saves.        *)
LEMMA BeforeInv ==
    ASSUME ProgramInv, ParseArguments \/ Validate \/ Authenticate \/ ListBlobs
    PROVE  ProgramInv'
<1>1. UNCHANGED <<cmd, suggested, files, runs>>
  BY DEF ParseArguments, Validate, Authenticate, ListBlobs
<1>2. ppc' \in {"validate", "usage", "authenticate", "ended", "list", "migrate"} /\ mpc # "returned"
  BY DEF ParseArguments, Validate, Authenticate, ListBlobs, ProgramInv
<1>3. UNCHANGED vars \/ \E lines \in Seq(Line) : NewMigrator(lines)
  BY ReadLists DEF ProgramInv, ParseArguments, Validate, Authenticate, ListBlobs
<1>4. IInv' /\ mpc' # "returned"
  BY <1>2, <1>3, StutterInv, NewMigratorInv DEF ProgramInv, vars
<1>5. ProgramTypeOK'
  BY <1>1, <1>2 DEF ProgramInv, ProgramTypeOK
<1>6. QED
  BY <1>4, <1>5 DEF ProgramInv

LEMMA MigrateInv ==
    ASSUME ProgramInv, Migrate
    PROVE  ProgramInv'
<1>1. Next /\ UNCHANGED programVars /\ ppc = "migrate"
  BY DEF Migrate, Next
<1>2. IInv'
  BY <1>1, NextInv DEF ProgramInv
<1>3. ProgramTypeOK'
  BY <1>1 DEF ProgramInv, ProgramTypeOK, programVars
<1>4. QED
  BY <1>1, <1>2, <1>3 DEF ProgramInv, programVars

LEMMA MigrateEndsInv ==
    ASSUME ProgramInv, MigrateEnds
    PROVE  ProgramInv'
<1>1. /\ UNCHANGED <<cmd, suggested, files, runs, vars>> /\ ppc' \in {"ended", "save"}
      /\ ppc' = "ended" => listed["failed"] = {}
  BY DEF MigrateEnds
<1>2. IInv'
  BY <1>1, StutterInv DEF ProgramInv
<1>3. ProgramTypeOK'
  BY <1>1 DEF ProgramInv, ProgramTypeOK
<1>4. listed' = listed
  BY <1>1 DEF vars, listVars
<1>5. QED
  BY <1>1, <1>2, <1>3, <1>4 DEF ProgramInv, FailedSaved

LEMMA SaveFailedInv ==
    ASSUME ProgramInv, SaveFailed
    PROVE  ProgramInv'
<1>1. UNCHANGED <<cmd, runs, vars>> /\ ppc = "save" /\ ppc' \in {"ended", "unhandled"}
  BY DEF SaveFailed
<1>2. IInv' /\ IInv /\ ProgramTypeOK
  BY <1>1, StutterInv DEF ProgramInv
<1>3. UNCHANGED <<listed, fileList, Output>>
  BY <1>1 DEF vars, listVars, Output
<1>4. CASE ppc' = "unhandled" /\ UNCHANGED <<suggested, files>>
  BY <1>1, <1>2, <1>4 DEF ProgramInv, ProgramTypeOK
<1>5. ASSUME {cmd.outputFile, cmd.blobFile} # {NoFile}
      PROVE  Output + 1 \in Nat /\ Output \in Nat
  <2>1. cmd.outputFile \in Nat /\ cmd.blobFile \in Nat
    BY <1>2 DEF ProgramTypeOK, Command
  <2>2. QED
    BY <2>1 DEF Output
<1>6. ASSUME suggested' = suggested \cup
                {[tenantId |-> FALSE, blobFile |-> Output, outputFile |-> Output + 1]},
             {cmd.outputFile, cmd.blobFile} # {NoFile}
      PROVE  suggested' \subseteq Command
  <2>1. [tenantId |-> FALSE, blobFile |-> Output, outputFile |-> Output + 1] \in Command
    BY <1>5, <1>6 DEF Command
  <2>2. QED
    BY <1>2, <1>6, <2>1 DEF ProgramTypeOK
<1>7. ASSUME NEW lines \in FailedLines, files' = Bind(files, Output, lines), ppc' = "ended",
             suggested' \subseteq Command, {cmd.outputFile, cmd.blobFile} # {NoFile}
      PROVE  ProgramInv'
  <2>1. lines \in Seq(Line) /\ \A i \in listed["failed"] : fileList[i] \in ToSet(lines)
    BY <1>2, FailedLinesCover
  <2>2. /\ \A f \in DOMAIN files' : f \in Nat \ {NoFile} /\ files'[f] \in Seq(Line)
        /\ Output \in DOMAIN files' /\ files'[Output] = lines
    BY <1>2, <1>7, <2>1, FileWritten
  <2>3. ProgramTypeOK'
    BY <1>1, <1>2, <1>7, <2>2 DEF ProgramTypeOK
  <2>4. FailedSaved'
    BY <1>3, <2>1, <2>2 DEF FailedSaved
  <2>5. QED
    BY <1>2, <1>7, <2>3, <2>4 DEF ProgramInv
<1>8. ASSUME ppc' = "unhandled", files' = files, suggested' \subseteq Command
      PROVE  ProgramInv'
  BY <1>1, <1>2, <1>8 DEF ProgramInv, ProgramTypeOK
<1>9. QED
  BY <1>4, <1>6, <1>7, <1>8 DEF SaveFailed

LEMMA KillInv ==
    ASSUME ProgramInv, Kill
    PROVE  ProgramInv'
<1>1. IInv /\ ProgramTypeOK /\ << >> \in Seq(Line)
  BY DEF ProgramInv
<1>2. IInv' /\ mpc' = "container"
  BY <1>1, NewMigratorInv DEF Kill
<1>3. ppc' = "killed" /\ UNCHANGED <<cmd, suggested, runs>>
  BY DEF Kill
<1>4. \A f \in DOMAIN files' : f \in Nat \ {NoFile} /\ files'[f] \in Seq(Line)
  <2>1. CASE files' = files
    BY <1>1, <2>1 DEF ProgramTypeOK
  <2>2. ASSUME NEW lines \in FailedLines, NEW n \in 0..Len(lines),
               files' = Bind(files, Output, SubSeq(lines, 1, n)),
               {cmd.outputFile, cmd.blobFile} # {NoFile}
        PROVE  \A f \in DOMAIN files' : f \in Nat \ {NoFile} /\ files'[f] \in Seq(Line)
    <3>1. lines \in Seq(Line)
      BY <1>1, FailedLinesCover
    <3>2. SubSeq(lines, 1, n) \in Seq(Line)
      BY <3>1, PrefixType
    <3>3. QED
      BY <1>1, <2>2, <3>2, FileWritten
  <2>3. QED
    BY <2>1, <2>2 DEF Kill
<1>5. ProgramTypeOK'
  BY <1>1, <1>3, <1>4 DEF ProgramTypeOK
<1>6. QED
  BY <1>2, <1>3, <1>5 DEF ProgramInv

(* Every step of the program keeps the invariant. *)
LEMMA ProgramNextInv == ProgramInv /\ [ProgramNext]_allVars => ProgramInv'
<1>1. ASSUME ProgramInv, UNCHANGED allVars PROVE ProgramInv'
  <2>1. UNCHANGED vars /\ UNCHANGED programVars
    BY <1>1 DEF allVars
  <2>2. IInv'
    BY <1>1, <2>1, StutterInv DEF ProgramInv
  <2>3. UNCHANGED <<mpc, listed, fileList>> /\ UNCHANGED <<ppc, cmd, suggested, files, runs>>
    BY <2>1 DEF vars, listVars, programVars
  <2>4. ProgramTypeOK'
    BY <1>1, <2>3 DEF ProgramInv, ProgramTypeOK
  <2>5. QED
    BY <1>1, <2>2, <2>3, <2>4 DEF ProgramInv, FailedSaved, Output
<1>2. QED
  BY <1>1, StartInv, BeforeInv, MigrateInv, MigrateEndsInv, SaveFailedInv, KillInv
     DEF ProgramNext, ProgramStep, Done

(* ProgramInv holds of every reachable state, over all runs and crashes.   *)
THEOREM ProgramInvariance == ProgramSpec => []ProgramInv
BY ProgramInitInv, ProgramNextInv, PTL DEF ProgramSpec

(* When a run comes to its normal end, every blob it was given is in the   *)
(* drive or in the file for the re-run (Program.cs:76-130), whatever names *)
(* it was given, whatever earlier runs left, and wherever they were killed.*)
THEOREM NothingForgottenHolds == ProgramSpec => []NothingForgotten
<1>1. ProgramInv => NothingForgotten
  <2> SUFFICES ASSUME ProgramInv, ppc = "ended", mpc = "returned", NEW i \in Index,
                      fileList[i] # EmptyLine, i \notin racing, uploaded[i] # "false"
               PROVE  \/ PlaceOf(fileList[i]) \in DOMAIN drive
                      \/ Output \in DOMAIN files /\ fileList[i] \in ToSet(files[Output])
    BY DEF NothingForgotten
  <2>1. TypeOK /\ OutcomeInv /\ EvidenceInv /\ ListInv /\ jpc[i] = "done" /\ FailedSaved
    BY DEF ProgramInv, IInv, ReturnsLast
  <2>2. outcome[i] \in Lists /\ i \in listed[outcome[i]]
    BY <2>1 DEF OutcomeInv, TypeOK, ListInv
  <2>3. CASE outcome[i] = "failed"
    BY <2>1, <2>2, <2>3 DEF FailedSaved
  <2>4. CASE outcome[i] = "succeeded"
    BY <2>1, <2>4 DEF OutcomeInv, EvidenceInv
  <2>5. CASE outcome[i] = "exist"
    BY <2>1, <2>5 DEF EvidenceInv
  <2>6. QED
    BY <2>2, <2>3, <2>4, <2>5 DEF Lists
<1>2. QED
  BY <1>1, ProgramInvariance, PTL
=============================================================================
