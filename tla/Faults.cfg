\* From the recorded baseline on, with one fault of any kind.
SPECIFICATION SpecBaselineDone
CONSTANTS
  Checks = {"user"}
  RunMode = "parallel"
  MaxCopies = 2
  CacheLag = FALSE
  FaultKinds = {"api", "clone", "timeout", "slow", "race", "expire", "edit", "delete", "crash"}
  MaxFaults = 1
INVARIANTS FinishedMeansTried ReportsAreBacked FinalNeedsRecommendation IInv
PROPERTIES FinishedStable
CHECK_DEADLOCK FALSE
