CONSTANTS
  Requests = {r1, r2}
  First = r1
  Checks = {k1, k2}
  Secrets = {s1}
  WarningDays = 1
  TokenLife = 1
  MaxTime = 2
  MaxRequests = 3
  MaxFaults = 1
SPECIFICATION Spec
CONSTRAINT Explored
INVARIANTS UsersSound WarningsMatchDate
PROPERTIES DisabledWhenDue ExpiredGetsDisabled
CHECK_DEADLOCK FALSE
