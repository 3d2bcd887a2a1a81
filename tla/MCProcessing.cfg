CONSTANTS
  Files = {"a.pdf", "b.pdf", "c.txt"}
  Supported <- MCSupported
  MaxUploads = 1
  Columns = {}
  Subs = {"s1"}
  Calls = {1}
  Runs = {1, 2}
  Faulty = FALSE
  None = None
SPECIFICATION FairSpec
PROPERTIES
  NotifiedIsProcessed
  ProcessingEnds
CHECK_DEADLOCK FALSE
