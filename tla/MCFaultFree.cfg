CONSTANTS
  Name <- MCName
  Fold <- MCFold
  Blobs <- MCBlobs
  DirOf <- MCDirOf
  NameOf <- MCNameOf
  Container = "c"
  Folder = "folder"
  Foreign = "foreign"
  Faulty = FALSE
  EmptyLine = ""
  FileLists <- MCFileLists
  MaxFiles = 3
  Drives <- MCDrives
  SlashIsNative = FALSE
SPECIFICATION FairSpec
INVARIANTS
  FailuresExplained
PROPERTIES
  Termination
