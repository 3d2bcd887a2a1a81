CONSTANTS
  Name <- MCName
  Fold <- MCFold
  Blobs <- MCBlobs
  DirOf <- MCDirOf
  NameOf <- MCNameOf
  Container = "c"
  Folder = "folder"
  Foreign = "foreign"
  Faulty = TRUE
  EmptyLine = ""
  FileLists <- MCFileLists
  MaxFiles = 2
  Drives <- TwoDrives
  SlashIsNative = TRUE
  StorageLists <- MCStorageLists
  UserFiles <- MCUserFiles
  MaxRuns = 2
SPECIFICATION ProgramFairSpec
INVARIANTS
  NothingForgotten
PROPERTIES
  RunsEnd
