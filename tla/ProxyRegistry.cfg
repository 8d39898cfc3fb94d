CONSTANTS
  Proxies = {p1}
  Addrs = {a1, a2}
  SharedAddrs = {a1}
  MaxRequests = 2
  Monitors = {m1}
  MaxStarts = 2
SPECIFICATION RegistrySpec
INVARIANTS RegistrySound
PROPERTIES StoppedGoesOffline ServingGetsRow
CHECK_DEADLOCK FALSE
