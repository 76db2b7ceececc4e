SPECIFICATION Spec
CONSTANTS
  Session = {s1}
  MaxSize = 2
  MaxJobs = 2
  MaxOut = 1
  IntRange = 3
  DiskFails = FALSE
  None = None
INVARIANTS SuccessMeansStored
CHECK_DEADLOCK FALSE
