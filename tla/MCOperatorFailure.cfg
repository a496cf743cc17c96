SPECIFICATION Spec
CONSTANTS
  c1 = c1
  c2 = c2
  Nobody = Nobody
  Clients <- MCClients
  Setups <- MCFailureSetups
  Capacity = 1
  StopHits = 1
  CommandTimeout = 0
  ScanTimeout = 1
  StatusTimeout = 1
  LeaseTimeout = 1
  AckTimeout = 0
  DrainExpiry = 0
  DrainMax = 1
PROPERTIES
  EveryFailureStops
CHECK_DEADLOCK FALSE
