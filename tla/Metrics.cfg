SPECIFICATION FairSpec
CONSTANTS
  p1 = p1
  p2 = p2
  r1 = r1
  r2 = r2
  n1 = n1
  n2 = n2
  Runs = {r1, r2}
  Pods = {p1, p2}
  RunOf <- MCRunOf
  Nodes = {n1, n2}
  NodeOf <- MCNodeOf
  Duration = 4
  LastStart = 1
  MaxTime = 10
  FaultKinds = {"slow", "api", "kubelet", "nodes", "pod"}
  MaxFaults = 1
INVARIANTS DistinctSamples
PROPERTIES RefreshSpaced RecordingEnds
CHECK_DEADLOCK FALSE
