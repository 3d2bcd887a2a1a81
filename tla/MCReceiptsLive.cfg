CONSTANTS
  Parts = {"server"}
  Files = {"a.pdf"}
  Supported <- MCSupported
  Stems = {"a"}
  Stem <- MCStem
  Runs = {1, 2}
  MaxUploads = 2
  Faulty = FALSE
  NoItem = NoItem
  Containers = {"c1"}
  Folders = {}
  Home <- MCHome
  Parent <- MCParent
  Root = "root"
  None = "none"
  Uploads = {}
  MaxLoads = 1
  MaxEvents = 0
  MaxFailures = 0
SPECIFICATION MCFairSpec
PROPERTIES
  FeedbackEnds
  SomeJson
  LastVersionUnlessOverlap
CHECK_DEADLOCK FALSE
