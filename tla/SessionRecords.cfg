SPECIFICATION RecordsSpec
CONSTANTS
  ProxySessions = {"p1"}
  ServerSessions = {"a1"}
  Workers = {w1, w2}
  MaxRows = 3
  MaxBatch = 2
SYMMETRY WorkerSymmetry
CONSTRAINT Explored
INVARIANTS RecordsAgree
PROPERTIES NothingLost
CHECK_DEADLOCK FALSE
