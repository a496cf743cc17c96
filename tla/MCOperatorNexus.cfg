SPECIFICATION Spec
CONSTANTS
  Handlers = {h1, h2}
  Sessions = {0, 1, 2}
  DirectTimeout = 1
PROPERTIES
  ImplementsFollowNode
  DirectIsCancelled
  FollowNeedsEnable
  DirectIsStopped
