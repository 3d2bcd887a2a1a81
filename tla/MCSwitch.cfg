CONSTANTS
  Files = {"a.pdf", "c.txt"}
  Supported <- MCSupported
  MaxUploads = 1
  Columns = {"done"}
  Subs = {"s1", "s2"}
  Calls = {h1, h2}
  Runs = {1}
  Faulty = TRUE
  None = None
  h1 = h1
  h2 = h2
SYMMETRY CallSymmetry
SPECIFICATION Spec
PROPERTIES
  SwitchImplemented
CHECK_DEADLOCK FALSE
