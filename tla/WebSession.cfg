SPECIFICATION FairSpec
CONSTANTS
  ErrCap = 2
  MaxChunks = 2
  MaxFaults = 1
INVARIANTS WebRowsSound WebCopiersSound
PROPERTIES DisconnectEnds CopiersEnd ImplementsLife
CHECK_DEADLOCK FALSE
