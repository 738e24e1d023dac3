SPECIFICATION LiveSpec
CONSTANTS
  r1 = r1
  r2 = r2
  p1 = p1
  p2 = p2
  Request = {r1, r2}
  Probe = {p1, p2}
  Command = {"getDefaultACLAccess", "createClient"}
  CommandOf <- MCCommandOf
  MaxFaults = 1
  MaxStops = 1
  None = None
INVARIANTS TypeOK AckedTookEffect
PROPERTIES NothingSentLate Settled
CHECK_DEADLOCK FALSE
