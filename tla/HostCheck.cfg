SPECIFICATION FairSpec
CONSTANTS
  Instances = {i1, i2}
  Hosts = {h1}
  None = None
  Interval = 3
  Expiry = 6
  Period = 2
  MaxFaults = 1
  MaxManual = 1
INVARIANTS LeaseSound RowsShowLatestProbe
PROPERTIES ExtendedByOwner CrashedLeaseEnds
