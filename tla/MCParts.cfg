CONSTANTS
  Containers = {"c1", "c2"}
  Folders = {"x", "y", "z"}
  Home <- MCHome
  Parent <- MCParent
  Root = "root"
  None = "none"
  Uploads = {"u", "v"}
  Batches = {1, 2}
  MaxLoads = 2
  MaxEvents = 4
  MaxFailures = 1
  Tabs = {1, 2}
  MaxRequests = 4
  Tenants = {"t1", "t2"}
  Visits = {"v1", "v2", "v3"}
  MaxAnswers = 2
  Absent = "absent"
  Provisional = "provisional"
  Keys = {"k1", "k2", "k3"}
  MaxTokens = 3
  Stores = {"s1", "s2"}
  Docs = {"f1", "f2", "f3"}
  StoreOf <- MCStoreOf
  MaxReads = 3
  MaxOpens = 3
  Nothing = "nothing"
  Drives = {"s1", "s2", "s3"}
  NoDrive = "nothing"
  Failure = "failure"
  Vaults = {"v1", "v2", "v3"}
  NoVault = "none"
  MaxListings = 3
  MaxCalls = 2
  MaxCreations = 2
  MaxClicks = 6
  ChatContainers = {"a", "b"}
  WithDrive = {"a"}
  Instructions = {i}
  Looks = {l}
  Undefined = Undefined
  MaxForms = 3
  MaxChatCalls = 4
  RouteContainers = {"a", "b", "c"}
  Nobody = "none"
  MaxRouteClicks = 4
  SharedFiles = {"a", "b"}
  NoFile = "none"
  LinkTypes = {"edit", "view"}
  MaxSharingClicks = 5
SPECIFICATION MCSpec
INVARIANTS
  UploadsCounted
  FilesShown
  ActsWhereShown
  OneRecordEach
  WelcomedStay
  RefusedIsNew
  OwnDataSent
  ShownIsKnown
  DeletesOwn
  SettingsShown
  PageIsReached
  ContainersListed
  DialogsActAsShown
CHECK_DEADLOCK FALSE
