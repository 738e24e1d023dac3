SPECIFICATION Spec
CONSTANTS
  u1 = u1
  u2 = u2
  svc = svc
  q1 = q1
  q2 = q2
  Unit <- MCUnits
  Ident = {svc}
  IdentOf <- MCIdentOf
  Reqs = {q1, q2}
  MaxPass = 3
  MaxRequests = 4
  MaxFaults = 1
  None = None
  Absent = Absent
  Idle = Idle
INVARIANTS CanLogIn NoOrphan
PROPERTIES PasswordKept
CHECK_DEADLOCK FALSE
