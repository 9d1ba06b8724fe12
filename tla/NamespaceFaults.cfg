\* A cache that may be behind and one fault of any kind.
SPECIFICATION Spec
CONSTANTS
  w1 = w1
  w2 = w2
  u1 = u1
  Workloads = {w1}
  Others = {}
  OtherTarget <- MCNoTarget
  Checks = {}
  FailureReasons = {"AnalysisFailed"}
  CacheLag = TRUE
  FaultKinds = {"api", "clone", "get", "slow", "rejected", "edit", "crash"}
  MaxFaults = 1
INVARIANTS RunAccounted
CHECK_DEADLOCK FALSE
