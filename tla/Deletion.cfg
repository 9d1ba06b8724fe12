\* Sequential mode and a reconciler that reads a stale cache; the user may
\* delete the check at any moment.
SPECIFICATION FairSpecBaselineDone
CONSTANTS
  Checks = {"user"}
  RunMode = "sequential"
  MaxCopies = 2
  CacheLag = TRUE
  FaultKinds = {"delete"}
  MaxFaults = 1
PROPERTIES NamespacesEventuallyGone
CHECK_DEADLOCK FALSE
