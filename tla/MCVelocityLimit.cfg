SPECIFICATION LimitSpec
CONSTANTS
  MaxVx = 3
  MaxYaw = 6
  XDeadzone = 2
  YawDeadzone = 5
  Speeds <- MCSpeeds
INVARIANTS
  WireIsReleased
