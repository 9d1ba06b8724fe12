\* All kinds of workloads, two pods, up to two faults.
SPECIFICATION FairSpec
CONSTANTS
  Kinds = {"Deployment", "StatefulSet", "DaemonSet"}
  Replicas = 2
  FaultKinds = {"get", "update", "logs", "list"}
  MaxFaults = 2
INVARIANTS TypeOK SuccessMeansHardened
PROPERTIES RunEnds
CHECK_DEADLOCK FALSE
