\* The list of the checks comes from a cache that may be behind.
SPECIFICATION Spec
CONSTANTS
  w1 = w1
  w2 = w2
  u1 = u1
  Workloads = {w1}
  Others = {}
  OtherTarget <- MCNoTarget
  Checks = {}
  FailureReasons = {"AnalysisFailed"}
  CacheLag = TRUE
  FaultKinds = {}
  MaxFaults = 0
INVARIANTS FinalAfterAllFinished
CHECK_DEADLOCK FALSE
