SPECIFICATION Spec
CONSTANTS
  Handlers = {h1, h2}
  Limit = 1
  MaxGen = 2
INVARIANTS
  TargetIsNewest
PROPERTIES
  LostStaysLost
  NewTargetNeedsEnable
  OldTargetForOneFrame
  MotionIsWithdrawn
