SPECIFICATION Spec
CONSTANTS
  n1 = n1
  n2 = n2
  Node <- MCNode
  First = n1
  Value = {"a", "b"}
  Template = {"t1", "t2"}
  NamedBy <- MCNamedBy
  Default = "t1"
  MaxName = 2
  EarlyStart = FALSE
  MaxEvents = 3
  MaxFaults = 1
INVARIANTS TypeOK Current NothingStale
PROPERTIES NameKept
CHECK_DEADLOCK FALSE
