SPECIFICATION Spec
CONSTANTS
  StatusTTL = 1
  ScanTTL = 1
  TrackingTTL = 1
  CommandTTL = 0
  ScanFuture = 0
  SessionSeconds = 2
  RunSeconds = 2
  ProbeInterval = 1
  SpinMax = 2
  PacketMax = 1
  MaxTime = 2
INVARIANTS
  ReleasePermitted
  ReleaseOwned
  LossEndsSession
  MotionIsOwedZero
PROPERTIES
  ImplementsLiveSession
  ExpiryStops
