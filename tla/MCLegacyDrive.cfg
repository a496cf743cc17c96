SPECIFICATION Spec
CHECK_DEADLOCK FALSE
CONSTANTS
  CloudTimeout = 0
  CmdTimeout = 0
  StatusTimeout = 0
  ActionRetry = 1
  ActionTimeout = 1
  LieDownDelay = 1
  Depth = 1
  Zeros = 2
  Setups <- MCSetups
INVARIANTS
  ExitIsStopped
PROPERTIES
  PostureEndsMotion
  UnfitForOneFrame
  MotionIsStopped
  ActionEnds
