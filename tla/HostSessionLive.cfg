SPECIFICATION FairSpec
CONSTANTS
  MaxHosts = 1
  Outputs = {"stdout"}
  EventCap = 1
  CloseCap = 1
  MaxChunks = 1
  MaxFaults = 0
PROPERTIES EndedSessionReturns
CHECK_DEADLOCK FALSE
