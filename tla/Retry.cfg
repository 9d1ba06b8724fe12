\* A run that failed is started again.
SPECIFICATION Spec
CONSTANTS
  c1 = c1
  c2 = c2
  Checks = {c1}
  SuffixOf <- MCSuffixOf
  Types = {"baseline"}
  Spelling <- MCSpelling
  Copies = {1, 2}
  BaseLength = 20
  SuffixLength = 8
  Bindings = {b1}
  Resources <- MCResources
  FaultKinds = {"record"}
  MaxFaults = 1
INVARIANTS RetryDiscards
CHECK_DEADLOCK FALSE
