SPECIFICATION Spec
CONSTANTS
  StatusTTL = 0
  ScanTTL = 1
  TrackingTTL = 0
  CommandTTL = 0
  ScanFuture = 1
  Times <- MCTimes
PROPERTIES
  ReleaseNeedsUnbrokenArm
  ArmNeedsNewConfirmation
  StopFollows
