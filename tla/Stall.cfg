\* The second half of a check without any fault.
SPECIFICATION FairSpecBaselineDone
CONSTANTS
  Checks = {"user"}
  RunMode = "parallel"
  MaxCopies = 2
  CacheLag = FALSE
  FaultKinds = {}
  MaxFaults = 0
PROPERTIES EventuallyFinished
CHECK_DEADLOCK FALSE
