SPECIFICATION Spec
CONSTANTS
  MaxHosts = 2
  Outputs = {"stdout"}
  EventCap = 1
  CloseCap = 1
  MaxChunks = 1
  MaxFaults = 1
INVARIANTS AuditSound CopiersSound
PROPERTIES RecordingNeverErased ImplementsLife
CHECK_DEADLOCK FALSE
