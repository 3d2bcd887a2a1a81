CONSTANTS
  Containers = {"c1", "c2"}
  Folders = {"x", "y", "z"}
  Home <- MCHome
  Parent <- MCParent
  Uploads = {"u"}
  MaxLoads = 2
  MaxEvents = 3
  MaxFailures = 0
  Root = "root"
  None = "none"
  Undefined = "undefined"
  RowPrefix = TRUE
SPECIFICATION SummitFairSpec
PROPERTIES
  DeleteEnds
CHECK_DEADLOCK FALSE
