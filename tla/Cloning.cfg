\* One check, whose baseline and user runs meet one fault of any kind.
SPECIFICATION FairSpec
CONSTANTS
  c1 = c1
  c2 = c2
  Checks = {c1}
  SuffixOf <- MCSuffixOf
  Types = {"baseline", "user"}
  Spelling <- MCSpelling
  Copies = {1, 2}
  BaseLength = 20
  SuffixLength = 8
  Bindings = {b1}
  Resources <- MCDeployment
  FaultKinds = {"create", "delete", "list", "record", "timeout", "slow", "deleteCheck", "crash"}
  MaxFaults = 1
INVARIANTS TypeOK OwnClone BindingsFollow
PROPERTIES NothingLeft
CHECK_DEADLOCK FALSE
