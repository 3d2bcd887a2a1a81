CONSTANTS
  docs = docs
  a = a
  Folders = {docs, new}
  Files = {a, b, c}
  Start <- MCStart
  Batches = {1, 2}
  MaxLoads = 2
  MaxEvents = 4
  Root = Root
  Unborn = Unborn
  Gone = Gone
  None = None
SPECIFICATION MCSpec
SYMMETRY NewFileSymmetry
INVARIANTS
  PreviewHonest
  ShownIsCurrent
  UploadsTold
  SwitchTold
CHECK_DEADLOCK FALSE
