CONSTANTS
  Containers = {"c1", "c2"}
  Folders = {"x", "y", "z"}
  Home <- MCHome
  Parent <- MCParent
  Uploads = {"u", "v"}
  MaxLoads = 2
  MaxEvents = 5
  MaxFailures = 1
  Root = "root"
  None = "none"
  Undefined = "undefined"
  RowPrefix = FALSE
SPECIFICATION SummitFairSpec
INVARIANTS
  LandsWhereShown
  SummitShown
PROPERTIES
  DialogsEnd
CHECK_DEADLOCK FALSE
