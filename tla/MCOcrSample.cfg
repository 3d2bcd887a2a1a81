CONSTANTS
  Files = {"a.pdf", "a.png"}
  Supported <- MCSupported
  Stems = {"a"}
  Stem <- MCStem
  Runs = {r1, r2}
  MaxUploads = 1
  Faulty = TRUE
  NoItem = NoItem
  r1 = r1
  r2 = r2
  Containers = {"c1", "c2"}
  Folders = {"x", "y", "z"}
  Parts = {"server", "client"}
  Home <- MCHome
  Parent <- MCParent
  Root = "root"
  None = "none"
  Uploads = {"u", "v"}
  MaxLoads = 2
  MaxEvents = 5
  MaxFailures = 1
SYMMETRY RunSymmetry
SPECIFICATION MCSpec
INVARIANTS
  TokenCovers
  LandsWhereLast
  OcrShown
CHECK_DEADLOCK FALSE
