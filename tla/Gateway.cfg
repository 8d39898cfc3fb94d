SPECIFICATION Spec
CONSTANTS
  Instances = {"i1", "i2", "i3"}
  SharedInstances = {"i1", "i2"}
  FileInstances = {"i2"}
  MaxStarts = 3
  MaxFaults = 2
  Sessions = {"s1"}
  Hosts = {1, 2}
  HostGroups = {1, 2}
  LongNames = {2}
  PageSize = 1
  UserForms <- MCUserForms
  StartCatalog <- MCCatalog
  MaxAuthTries = 2
  MaxMfaAttempts = 3
  SessionTimeout = 24
  Now = 1000
  MaxEdits = 2
INVARIANTS GatewaySound SharedKeysAgree LoginGuarded PickedIsShown
CONSTRAINT Explored
CHECK_DEADLOCK FALSE
