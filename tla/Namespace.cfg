\* The life of a NamespaceHardeningCheck with an up-to-date cache: an edit of
\* the user's, a crash, or a fault in the final run.
SPECIFICATION FairSpec
CONSTANTS
  w1 = w1
  w2 = w2
  u1 = u1
  Workloads = {w1, w2}
  Others = {u1}
  OtherTarget <- MCTarget
  Checks = {}
  FailureReasons = {"AnalysisFailed"}
  CacheLag = FALSE
  FaultKinds = {"edit", "slow", "get", "clone", "crash", "rejected", "delete"}
  MaxFaults = 1
INVARIANTS TypeOK SuccessMeansShown
PROPERTIES ResultStable  FinalNamespaceGone
CHECK_DEADLOCK FALSE
