\* The whole life of a check with one check type, no faults; and from a
\* baseline on whose runs are lost.
SPECIFICATION FairSpecLifecycle
CONSTANTS
  Checks = {"user"}
  RunMode = "parallel"
  MaxCopies = 2
  CacheLag = FALSE
  FaultKinds = {}
  MaxFaults = 0
INVARIANTS TypeOK RecommendationWitnessed
PROPERTIES PromiseKept BaselineEventually
CHECK_DEADLOCK FALSE
