SPECIFICATION Spec
CONSTANTS
  Seconds = 2
  MaxClouds = 3
INVARIANTS
  PublisherOutlivesCallback
  ExitIsHonest
PROPERTIES
  SummaryIsFinal
CHECK_DEADLOCK FALSE
